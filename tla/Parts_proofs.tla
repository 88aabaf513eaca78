----------------------------- MODULE Parts_proofs ----------------------------
(***************************************************************************)
(* The parts of MCParts, for any values of their constants.                *)
(*                                                                         *)
(* FormSync: the page and the server stay in step, for any number of edits *)
(* and proposals.                                                          *)
(*                                                                         *)
(* ContextForm: on the first two screens a product id is never kept with a *)
(* path it does not belong to, so that whatever the page sends to be       *)
(* confirmed is confirmed, and the page's two records of what is chosen    *)
(* stay in step though previews and confirmations answer late.             *)
(*                                                                         *)
(* With what DeferredFacts_proofs and ServerCalls_proofs show of the other *)
(* parts, all keep their types side by side.                               *)
(***************************************************************************)
EXTENDS MCParts, DeferredFacts_proofs, ServerCalls_proofs

-----------------------------------------------------------------------------
(* FormSync: the inductive invariant.                                      *)

(* A text that an approval wrote is that of a proposal that is decided.    *)
Decisive(x) == x > FormEdits =>
                 /\ x - FormEdits \in 1..Len(proposals)
                 /\ proposals[x - FormEdits].status # "pending"

(* An approved text that nobody typed over, and a text that goes with the  *)
(* latest version: neither has an approved text where the other has not.   *)
Standing(x)   == x > FormEdits /\ x \notin replaced
Agree(x, y)   == Standing(x) \/ Standing(y) => x = y
Fits(v, text) == v = Latest => Agree(text, server[v].text)

(* An edit that is in some version of the request, and all of the page's.  *)
InServer(k, x) == x \in EditMarks => \E v \in 1..Latest : server[v][k] = x
PageSaved == /\ InServer("text", inputs) /\ InServer("shape", pageShape)
             /\ refresh # Missing => InServer("shape", refresh)

Open == [kind : Kinds, base : Nat, status : {"pending"}]
Done == [status : {"approved", "declined"}]

ServerHolds ==
  /\ server \in Seq(Forms) /\ Latest >= 1
  /\ \A v \in 1..Latest : Decisive(server[v].text)

ProposalsHold ==
  /\ proposals \in Seq(Open \cup Done) /\ Len(proposals) <= ProposalLimit
  /\ \A p \in 1..Len(proposals) : proposals[p].status = "pending" => p = Len(proposals)
  /\ cards \subseteq 1..Len(proposals) /\ refreshed \subseteq 1..Len(proposals)

PageHolds ==
  /\ inputs \in Marks /\ pageShape \in Marks /\ approved \in Forms
  /\ dirty \in BOOLEAN /\ refreshDue \in BOOLEAN /\ formEdits \in 0..FormEdits
  /\ hasty \in BOOLEAN /\ overtaken \in BOOLEAN
  /\ refresh \in Marks \cup {Missing}
  /\ pageVersion \in 1..Latest
  /\ syncedVersion \in 1..Latest \cup {Missing}
  /\ renderedVersion \in 1..Latest \cup {Missing}
  /\ panel \in [form : Forms, version : 1..Latest \cup {Missing}]
  /\ panel.version # Missing => panel.form = server[panel.version]
  /\ Decisive(inputs)
  /\ ~overtaken => Fits(pageVersion, inputs)
  /\ ~hasty => /\ ~dirty => PageSaved
               /\ refresh # Missing => refresh = pageShape \/ InServer("shape", refresh)

(* A save on its way to the server, and the answer of one.                 *)
PutHolds(c) ==
  /\ c.draft \in Forms /\ c.expected \in 1..Latest
  /\ Decisive(c.draft.text)
  /\ ~overtaken => c.expected <= pageVersion /\ Fits(c.expected, c.draft.text)
  /\ ~hasty => /\ inputs = c.draft.text \/ InServer("text", inputs)
               /\ pageShape = c.draft.shape \/ InServer("shape", pageShape)

SavedHolds(a) ==
  \/ a \in Refused
  \/ /\ a \in Kept
     /\ a.version \in 2..Latest /\ a.form = server[a.version]
     /\ ~overtaken => /\ a.version - 1 <= pageVersion
                      /\ Fits(a.version, inputs)
                      /\ Fits(a.version, server[a.version - 1].text)
     /\ ~hasty => PageSaved

(* The latest request as it was when it was read.                          *)
ReadHolds(a) ==
  a # Missing => a.version \in 1..Latest /\ a.form = server[a.version]

TaskHolds(t) ==
  /\ calls[t].at \in {"idle", "put", "act", "get"}
  /\ calls[t].at = "put" => \/ calls[t].answer = Missing /\ PutHolds(calls[t])
                            \/ SavedHolds(calls[t].answer)
  /\ calls[t].at = "get" \/ (t = Preview /\ calls[t].at = "act") => ReadHolds(calls[t].answer)
  /\ calls[t].at \in {"act", "get"} => (~hasty => PageSaved)
  /\ \A p \in ProposalIds :
       t = Deciding(p) /\ calls[t].at # "idle" => p \in 1..Len(proposals)

FormInvariant ==
  /\ ServerHolds /\ ProposalsHold /\ PageHolds
  /\ calls = [t \in Tasks |-> calls[t]]
  /\ \A t \in Tasks : TaskHolds(t)

-----------------------------------------------------------------------------
(* What the operators of the invariant preserve.                           *)

(***************************************************************************)
(* A form has a text and a shape, both marks, and every one is a number.   *)
(***************************************************************************)
LEMMA FormParts ==
  ASSUME NEW f \in Forms
  PROVE  /\ f.text \in Marks /\ f.shape \in Marks
         /\ f["text"] = f.text /\ f["shape"] = f.shape
BY DEF Forms, Kinds

(***************************************************************************)
(* The text and the shape of the page are a form.                          *)
(***************************************************************************)
LEMMA PageFormIsForm ==
  ASSUME FormInvariant
  PROVE  PageForm \in Forms /\ PageForm.text = inputs /\ PageForm.shape = pageShape
<1>1. inputs \in Marks /\ pageShape \in Marks
  BY DEF FormInvariant, PageHolds
<1> QED
  BY <1>1 DEF PageForm, Forms, Kinds

(***************************************************************************)
(* While versions and proposals are added, and none is changed but by a    *)
(* decision, what the invariant says of texts and edits stays true.        *)
(***************************************************************************)
LEMMA GrowingKeeps ==
  ASSUME FormInvariant,
         server' \in Seq(Forms), Len(server) <= Len(server'),
         \A v \in 1..Latest : server'[v] = server[v],
         Len(proposals) <= Len(proposals'), Len(proposals') \in Nat,
         \A p \in 1..Len(proposals) :
           proposals[p].status # "pending" => proposals'[p].status # "pending",
         replaced' = replaced
  PROVE  /\ \A x \in Marks : Decisive(x) => Decisive(x)'
         /\ \A v \in 1..Latest, x \in Marks : Fits(v, x) => Fits(v, x)'
         /\ \A k, x : InServer(k, x) => InServer(k, x)'
<1>1. Latest \in Nat /\ Latest' \in Nat /\ Len(proposals) \in Nat
  BY DEF FormInvariant, ServerHolds, ProposalsHold, Latest
<1>2. ASSUME NEW x \in Marks, Decisive(x)
      PROVE  Decisive(x)'
  BY <1>1, <1>2 DEF Decisive
<1>3. ASSUME NEW v \in 1..Latest, NEW x \in Marks, Fits(v, x)
      PROVE  Fits(v, x)'
  BY <1>1, <1>3 DEF Fits, Agree, Standing, Latest
<1>4. ASSUME NEW k, NEW x, InServer(k, x)
      PROVE  InServer(k, x)'
  <2>1. CASE x \in EditMarks
    <3>1. PICK v \in 1..Latest : server[v][k] = x
      BY <1>4, <2>1 DEF InServer
    <3>2. v \in 1..Latest' /\ server'[v][k] = x
      BY <1>1, <3>1 DEF Latest
    <3> QED
      BY <3>2 DEF InServer
  <2>2. CASE x \notin EditMarks
    BY <2>2 DEF InServer, EditMarks
  <2> QED
    BY <2>1, <2>2
<1> QED
  BY <1>2, <1>3, <1>4

(***************************************************************************)
(* A call that has not moved is as it was when only the server grew.       *)
(***************************************************************************)
LEMMA CallGrows ==
  ASSUME FormInvariant,
         server' \in Seq(Forms), Len(server) <= Len(server'),
         \A v \in 1..Latest : server'[v] = server[v],
         Len(proposals) <= Len(proposals'), Len(proposals') \in Nat,
         \A p \in 1..Len(proposals) :
           proposals[p].status # "pending" => proposals'[p].status # "pending",
         UNCHANGED <<inputs, pageShape, refresh, pageVersion, replaced, hasty, overtaken>>,
         NEW u \in Tasks, calls'[u] = calls[u]
  PROVE  TaskHolds(u)'
<1>0. /\ \A x \in Marks : Decisive(x) => Decisive(x)'
      /\ \A v \in 1..Latest, x \in Marks : Fits(v, x) => Fits(v, x)'
      /\ \A k, x : InServer(k, x) => InServer(k, x)'
  BY GrowingKeeps
<1>1. Latest \in Nat /\ Latest' \in Nat /\ Len(proposals) \in Nat /\ Latest <= Latest'
  BY DEF FormInvariant, ServerHolds, ProposalsHold, Latest
<1>2. TaskHolds(u) /\ inputs \in Marks
  BY DEF FormInvariant, PageHolds
<1>3. PageSaved => PageSaved'
  BY <1>0 DEF PageSaved
<1>4. ASSUME PutHolds(calls[u])
      PROVE  PutHolds(calls[u])'
  <2>1. calls[u].draft.text \in Marks /\ calls[u].expected \in 1..Latest
    BY <1>4, FormParts DEF PutHolds
  <2> QED
    BY <1>0, <1>1, <1>4, <2>1 DEF PutHolds
<1>5. ASSUME NEW a, SavedHolds(a)
      PROVE  SavedHolds(a)'
  <2>1. CASE a \in Refused
    BY <2>1 DEF SavedHolds
  <2>2. CASE a \notin Refused
    <3>1. a \in Kept /\ a.version \in 2..Latest /\ a.form = server[a.version]
      BY <1>5, <2>2 DEF SavedHolds
    <3>2. server[a.version - 1] \in Forms /\ server'[a.version - 1] = server[a.version - 1]
      <4>1. a.version - 1 \in 1..Latest
        BY <3>1 DEF FormInvariant, ServerHolds, Latest
      <4>2. server[a.version - 1] \in Forms
        BY <4>1, ElementOfSeq DEF FormInvariant, ServerHolds, Latest
      <4> QED
        BY <4>1, <4>2
    <3>3. server'[a.version] = server[a.version] /\ a.version \in 1..Latest /\ a.version \in 2..Latest'
      <4>1. a.version \in 1..Latest /\ a.version \in 2..Latest'
        BY <1>1, <3>1
      <4> QED
        BY <4>1
    <3>4. server[a.version - 1].text \in Marks
      BY <3>2, FormParts
    <3>5. ~overtaken => /\ a.version - 1 <= pageVersion
                        /\ Fits(a.version, inputs)'
                        /\ Fits(a.version, server[a.version - 1].text)'
      <4>1. ~overtaken => /\ a.version - 1 <= pageVersion
                          /\ Fits(a.version, inputs)
                          /\ Fits(a.version, server[a.version - 1].text)
        BY <1>5, <2>2 DEF SavedHolds
      <4>2. Fits(a.version, inputs) => Fits(a.version, inputs)'
        BY <1>0, <1>2, <3>3
      <4>3. Fits(a.version, server[a.version - 1].text) => Fits(a.version, server[a.version - 1].text)'
        BY <1>0, <3>2, <3>3, <3>4
      <4> QED
        BY <4>1, <4>2, <4>3
    <3>6. ~hasty => PageSaved'
      BY <1>3, <1>5, <2>2 DEF SavedHolds
    <3> QED
      BY <3>1, <3>3, <3>5, <3>6 DEF SavedHolds
  <2> QED
    BY <2>1, <2>2
<1>6. ReadHolds(calls[u].answer) => ReadHolds(calls[u].answer)'
  BY <1>1 DEF ReadHolds
<1> QED
  BY <1>1, <1>2, <1>3, <1>4, <1>5, <1>6 DEF TaskHolds

(***************************************************************************)
(* A new request, saved and shown, satisfies the invariant.                *)
(***************************************************************************)
LEMMA FormInvariantInit == FormInit => FormInvariant
<1> SUFFICES ASSUME FormInit
             PROVE  FormInvariant
  OBVIOUS
<1> USE FormAssumption
<1>1. Blank \in Forms /\ Blank.text = 0 /\ NoVersion.form = Blank /\ NoVersion.version = Missing
  BY DEF Blank, Forms, Kinds, Marks, NoVersion
<1>2. server \in Seq(Forms) /\ Latest = 1 /\ server[1] = Blank
  BY <1>1 DEF FormInit, Latest
<1>3. ServerHolds
  BY <1>1, <1>2 DEF ServerHolds, Decisive
<1>4. ProposalsHold
  BY EmptySeq DEF FormInit, ProposalsHold
<1>5. PageHolds
  <2>1. panel \in [form : Forms, version : 1..Latest \cup {Missing}]
    BY <1>1 DEF FormInit, NoVersion
  <2>2. PageSaved /\ Fits(1, 0) /\ Decisive(0)
    BY <1>1, <1>2 DEF FormInit, PageSaved, InServer, EditMarks, Fits, Agree, Standing, Decisive
  <2>3. Decisive(inputs) /\ Fits(pageVersion, inputs)
    BY <2>2 DEF FormInit
  <2>4. panel.version = Missing /\ refresh = Missing
    BY <1>1 DEF FormInit
  <2>5. inputs \in Marks /\ pageShape \in Marks /\ approved \in Forms
    BY <1>1 DEF FormInit, Marks
  <2>6. /\ dirty \in BOOLEAN /\ refreshDue \in BOOLEAN /\ hasty \in BOOLEAN
        /\ overtaken \in BOOLEAN
    BY DEF FormInit
  <2>7. pageVersion \in 1..Latest /\ syncedVersion \in 1..Latest /\ renderedVersion = Missing
    BY <1>2 DEF FormInit
  <2>8. formEdits \in 0..FormEdits
    BY DEF FormInit
  <2> QED
    BY <2>1, <2>2, <2>3, <2>4, <2>5, <2>6, <2>7, <2>8 DEF PageHolds
<1>6. \A t \in Tasks : calls[t] = Resting
  BY DEF FormInit
<1>7. \A t \in Tasks : calls[t].at = "idle"
  BY <1>6 DEF Resting
<1>8. calls = [t \in Tasks |-> calls[t]]
  BY <1>6 DEF FormInit
<1>9. \A t \in Tasks : TaskHolds(t)
  BY <1>7 DEF TaskHolds
<1> QED
  BY <1>3, <1>4, <1>5, <1>8, <1>9 DEF FormInvariant

-----------------------------------------------------------------------------
(* The page's own steps.                                                   *)

(***************************************************************************)
(* Typing: the approved text that is typed over no longer stands, and a    *)
(* user who types while a call is on its way is hasty.                     *)
(***************************************************************************)
LEMMA TypeTextKeeps == FormInvariant /\ TypeText => FormInvariant'
<1> SUFFICES ASSUME FormInvariant, TypeText
             PROVE  FormInvariant'
  OBVIOUS
<1> USE FormAssumption
<1>1. UNCHANGED <<pageShape, pageVersion, approved, syncedVersion, renderedVersion, panel, calls,
                  cards, refreshed, server, proposals, overtaken>>
  BY DEF TypeText, Edited
<1>2. /\ formEdits \in 0..FormEdits /\ formEdits < FormEdits /\ formEdits' = formEdits + 1
      /\ inputs' = formEdits + 1 /\ replaced' = replaced \cup ({inputs} \ EditMarks)
      /\ dirty' = TRUE /\ refresh' = Missing /\ refreshDue' = TRUE
      /\ hasty' = (hasty \/ \E t \in Tasks : calls[t].at # "idle")
  BY DEF FormInvariant, PageHolds, TypeText, Edited
<1>3. inputs' \in EditMarks /\ inputs' \in Marks /\ ~(inputs' > FormEdits) /\ formEdits' \in 0..FormEdits
  BY <1>2 DEF EditMarks, Marks
<1>4. ServerHolds' /\ ProposalsHold'
  BY <1>1 DEF FormInvariant, ServerHolds, ProposalsHold, Decisive, Latest
<1>5. \A x \in Marks : Standing(x)' => Standing(x)
  BY <1>2 DEF Standing
<1>6. ASSUME NEW old \in Marks, old = inputs, NEW new \in Marks, new = inputs',
             NEW x \in Marks, Agree(old, x)
      PROVE  Agree(new, x)'
  <2>1. ~Standing(new)'
    BY <1>3, <1>6 DEF Standing
  <2>2. ~Standing(old)'
    BY <1>2, <1>6 DEF Standing, EditMarks, Marks
  <2>3. ~Standing(x)'
    BY <1>5, <1>6, <2>2 DEF Agree
  <2> QED
    BY <2>1, <2>3 DEF Agree
<1>7. ASSUME NEW v \in 1..Latest, Fits(v, inputs)
      PROVE  Fits(v, inputs)'
  <2>1. server[v].text \in Marks
    BY ElementOfSeq, FormParts DEF FormInvariant, ServerHolds, Latest
  <2>2. PICK old \in Marks : old = inputs
    BY DEF FormInvariant, PageHolds
  <2>3. PICK new \in Marks : new = inputs'
    BY <1>3
  <2>4. CASE v = Latest
    <3>1. Agree(old, server[v].text)
      BY <1>7, <2>2, <2>4 DEF Fits
    <3>2. \A x \in Marks : x = server[v].text => Agree(new, x)'
      BY <1>6, <2>2, <2>3, <3>1
    <3>3. Agree(new, server[v].text)'
      BY <1>1, <2>1, <3>2
    <3> QED
      BY <2>3, <3>3 DEF Fits, Agree, Standing
  <2>5. CASE v # Latest
    BY <1>1, <2>5 DEF Fits, Latest
  <2> QED
    BY <2>4, <2>5
<1>8. ASSUME NEW v \in 1..Latest, NEW x \in Marks, Fits(v, x)
      PROVE  Fits(v, x)'
  <2>1. server[v].text \in Marks
    BY ElementOfSeq, FormParts DEF FormInvariant, ServerHolds, Latest
  <2> QED
    BY <1>1, <1>5, <1>8, <2>1 DEF Fits, Agree, Latest
<1>9. PageHolds'
  <2>1. ~overtaken => Fits(pageVersion, inputs)'
    BY <1>1, <1>7 DEF FormInvariant, PageHolds
  <2> QED
    BY <1>1, <1>2, <1>3, <2>1 DEF FormInvariant, PageHolds, Latest, Decisive
<1>10. ASSUME NEW t \in Tasks
       PROVE  TaskHolds(t)'
  <2>1. TaskHolds(t) /\ (calls[t].at # "idle" => hasty')
    BY <1>2 DEF FormInvariant
  <2>2. calls[t].at # "idle" /\ PutHolds(calls[t]) => PutHolds(calls[t])'
    <3>1. SUFFICES ASSUME calls[t].at # "idle", PutHolds(calls[t])
                   PROVE  PutHolds(calls[t])'
      OBVIOUS
    <3>2. calls[t].draft.text \in Marks /\ calls[t].expected \in 1..Latest
      BY <3>1, FormParts DEF PutHolds
    <3> QED
      BY <1>1, <1>8, <2>1, <3>1, <3>2 DEF PutHolds, Decisive, Latest
  <2>3. calls[t].at # "idle" /\ SavedHolds(calls[t].answer) => SavedHolds(calls[t].answer)'
    <3>1. SUFFICES ASSUME calls[t].at # "idle", SavedHolds(calls[t].answer),
                          calls[t].answer \notin Refused
                   PROVE  SavedHolds(calls[t].answer)'
      BY <1>1 DEF SavedHolds
    <3> DEFINE a == calls[t].answer
    <3>2. a \in Kept /\ a.version \in 2..Latest /\ a.form = server[a.version]
      BY <3>1 DEF SavedHolds
    <3>3. a.version - 1 \in 1..Latest /\ a.version \in 1..Latest
      BY <3>2 DEF FormInvariant, ServerHolds, Latest
    <3>4. server[a.version - 1].text \in Marks
      BY <3>3, ElementOfSeq, FormParts DEF FormInvariant, ServerHolds, Latest
    <3> QED
      BY <1>1, <1>7, <1>8, <2>1, <3>1, <3>2, <3>3, <3>4 DEF SavedHolds, Latest
  <2>4. ReadHolds(calls[t].answer) => ReadHolds(calls[t].answer)'
    BY <1>1 DEF ReadHolds, Latest
  <2> QED
    BY <1>1, <2>1, <2>2, <2>3, <2>4 DEF TaskHolds
<1> QED
  BY <1>1, <1>4, <1>9, <1>10 DEF FormInvariant

(***************************************************************************)
(* A step of the page that changes no text, no version and no call keeps   *)
(* the invariant when the edits it shows are still saved or about to be.   *)
(***************************************************************************)
LEMMA ShapeKeeps ==
  ASSUME FormInvariant,
         UNCHANGED <<inputs, pageVersion, approved, syncedVersion, calls, cards, refreshed, server,
                     proposals, replaced, overtaken>>,
         pageShape' \in Marks, refresh' \in Marks \cup {Missing}, formEdits' \in 0..FormEdits,
         dirty' \in BOOLEAN, refreshDue' \in BOOLEAN, hasty' \in BOOLEAN, hasty => hasty',
         renderedVersion' \in 1..Latest \cup {Missing},
         panel' \in [form : Forms, version : 1..Latest \cup {Missing}],
         panel'.version # Missing => panel'.form = server[panel'.version],
         ~hasty' => /\ ~dirty' => PageSaved'
                    /\ refresh' # Missing => refresh' = pageShape' \/ InServer("shape", refresh)',
         ~hasty' => \/ \A t \in Tasks : calls[t].at = "idle"
                    \/ /\ PageSaved => PageSaved'
                       /\ \/ pageShape' = pageShape
                          \/ InServer("shape", pageShape)'
  PROVE  FormInvariant'
<1>1. ServerHolds' /\ ProposalsHold'
  BY DEF FormInvariant, ServerHolds, ProposalsHold, Decisive, Latest
<1>2. \A v, x : (Fits(v, x) <=> Fits(v, x)') /\ (Decisive(x) <=> Decisive(x)')
  BY DEF Fits, Agree, Standing, Decisive, Latest
<1>3. \A k, x : InServer(k, x) <=> InServer(k, x)'
  BY DEF InServer, Latest
<1>4. PageHolds'
  <2>1. Decisive(inputs)' /\ (~overtaken => Fits(pageVersion, inputs)')
    BY <1>2 DEF FormInvariant, PageHolds
  <2> QED
    BY <2>1 DEF FormInvariant, PageHolds, Latest
<1>5. ASSUME NEW t \in Tasks
      PROVE  TaskHolds(t)'
  <2>1. TaskHolds(t)
    BY DEF FormInvariant
  <2>2. CASE calls[t].at = "idle"
    BY <2>2 DEF TaskHolds
  <2>3. CASE calls[t].at # "idle"
    <3>1. ~hasty' => /\ ~hasty
                     /\ PageSaved => PageSaved'
                     /\ pageShape' = pageShape \/ InServer("shape", pageShape)'
      BY <2>3 DEF FormInvariant, PageHolds
    <3>2. ASSUME PutHolds(calls[t])
          PROVE  PutHolds(calls[t])'
      <4>1. ~hasty' => /\ inputs' = calls[t].draft.text \/ InServer("text", inputs)'
                       /\ pageShape' = calls[t].draft.shape \/ InServer("shape", pageShape)'
        BY <1>3, <3>1, <3>2 DEF PutHolds
      <4> QED
        BY <1>2, <3>2, <4>1 DEF PutHolds, Latest
    <3>3. ASSUME SavedHolds(calls[t].answer)
          PROVE  SavedHolds(calls[t].answer)'
      BY <1>2, <3>1, <3>3 DEF SavedHolds, Latest
    <3>4. ReadHolds(calls[t].answer) => ReadHolds(calls[t].answer)'
      BY DEF ReadHolds, Latest
    <3> QED
      BY <2>1, <3>1, <3>2, <3>3, <3>4 DEF TaskHolds
  <2> QED
    BY <2>2, <2>3
<1> QED
  BY <1>1, <1>4, <1>5 DEF FormInvariant

(***************************************************************************)
(* Changing what has no control of its own.                                *)
(***************************************************************************)
LEMMA ReshapeKeeps == FormInvariant /\ Reshape => FormInvariant'
<1> SUFFICES ASSUME FormInvariant, Reshape
             PROVE  FormInvariant'
  OBVIOUS
<1>1. /\ formEdits \in 0..FormEdits /\ formEdits < FormEdits /\ formEdits' = formEdits + 1
      /\ pageShape' = formEdits + 1 /\ dirty' = TRUE /\ refreshDue' = TRUE /\ refresh' = Missing
      /\ hasty' = (hasty \/ \E t \in Tasks : calls[t].at # "idle")
      /\ UNCHANGED <<inputs, pageVersion, approved, syncedVersion, calls, cards, refreshed, server,
                     proposals, replaced, overtaken, panel, renderedVersion>>
  BY DEF FormInvariant, PageHolds, Reshape, Edited
<1>2. pageShape' \in Marks /\ formEdits' \in 0..FormEdits
  BY <1>1, FormAssumption DEF Marks
<1>3. /\ renderedVersion \in 1..Latest \cup {Missing}
      /\ panel \in [form : Forms, version : 1..Latest \cup {Missing}]
      /\ panel.version # Missing => panel.form = server[panel.version]
      /\ hasty \in BOOLEAN
  BY DEF FormInvariant, PageHolds
<1>4. hasty' \in BOOLEAN /\ (hasty => hasty')
      /\ (~hasty' => \A t \in Tasks : calls[t].at = "idle")
  BY <1>1, <1>3
<1> QED
  BY <1>1, <1>2, <1>3, <1>4, ShapeKeeps

(***************************************************************************)
(* The stateless preview: what it brings back was on the page.             *)
(***************************************************************************)
LEMMA RefreshKeeps ==
  FormInvariant /\ (SendRefresh \/ AdoptRefresh \/ LoseRefresh) => FormInvariant'
<1> SUFFICES ASSUME FormInvariant, SendRefresh \/ AdoptRefresh \/ LoseRefresh
             PROVE  FormInvariant'
  OBVIOUS
<1>1. PageHolds
  BY DEF FormInvariant
<1>2. NoVersion \in [form : Forms, version : 1..Latest \cup {Missing}] /\ NoVersion.version = Missing
  BY FormAssumption DEF NoVersion, Blank, Forms, Kinds, Marks
<1>3. UNCHANGED <<inputs, pageVersion, approved, syncedVersion, calls, cards, refreshed, server,
                  proposals, replaced, overtaken, dirty, formEdits, hasty>>
  BY DEF SendRefresh, AdoptRefresh, LoseRefresh, editor, sync
<1>4. \A k, x : InServer(k, x) <=> InServer(k, x)'
  BY <1>3 DEF InServer, Latest
<1>5. CASE SendRefresh
  <2>1. /\ refreshDue' = FALSE /\ refresh' = pageShape
        /\ UNCHANGED <<pageShape, panel, renderedVersion>>
    BY <1>5 DEF SendRefresh, editor
  <2>2. PageSaved => PageSaved'
    BY <1>3, <1>4, <2>1 DEF PageSaved
  <2> QED
    BY <1>1, <1>3, <1>4, <2>1, <2>2, ShapeKeeps DEF PageHolds
<1>6. CASE LoseRefresh
  <2>1. refresh' = Missing /\ UNCHANGED <<pageShape, panel, renderedVersion, refreshDue>>
    BY <1>6 DEF LoseRefresh, editor
  <2>2. PageSaved => PageSaved'
    BY <1>3, <1>4, <2>1 DEF PageSaved
  <2> QED
    BY <1>1, <1>3, <1>4, <2>1, <2>2, ShapeKeeps DEF PageHolds
<1>7. CASE AdoptRefresh
  <2>1. /\ refresh # Missing /\ pageShape' = refresh /\ refresh' = Missing
        /\ panel' = NoVersion /\ renderedVersion' = Missing /\ UNCHANGED refreshDue
    BY <1>7 DEF AdoptRefresh
  <2>2. PageSaved => PageSaved'
    BY <1>3, <1>4, <2>1 DEF PageSaved
  <2>3. ~hasty => pageShape' = pageShape \/ InServer("shape", pageShape)'
    BY <1>1, <1>3, <1>4, <2>1 DEF PageHolds
  <2>4. ~hasty => (~dirty => PageSaved')
    BY <1>1, <2>2 DEF PageHolds
  <2> QED
    BY <1>1, <1>2, <1>3, <1>4, <2>1, <2>2, <2>3, <2>4, ShapeKeeps DEF PageHolds
<1> QED
  BY <1>5, <1>6, <1>7

-----------------------------------------------------------------------------
(* The steps of a call in the page that leave the form alone.              *)

(***************************************************************************)
(* Only the call that moves and what the page shows change: the invariant  *)
(* holds if that call is as it should be.                                  *)
(***************************************************************************)
LEMMA QuietKeeps ==
  ASSUME FormInvariant, NEW t \in Tasks, NEW c, calls' = [calls EXCEPT ![t] = c],
         UNCHANGED <<inputs, pageShape, refresh, refreshDue, pageVersion, replaced, hasty, overtaken,
                     server, proposals, approved, dirty, formEdits>>,
         syncedVersion' \in 1..Latest \cup {Missing},
         renderedVersion' \in 1..Latest \cup {Missing},
         panel' \in [form : Forms, version : 1..Latest \cup {Missing}],
         panel'.version # Missing => panel'.form = server[panel'.version],
         cards' \subseteq 1..Len(proposals), refreshed' \subseteq 1..Len(proposals),
         TaskHolds(t)'
  PROVE  FormInvariant'
<1>1. ServerHolds' /\ ProposalsHold'
  BY DEF FormInvariant, ServerHolds, ProposalsHold, Decisive, Latest
<1>2. PageHolds'
  <2>1. Decisive(inputs)' /\ (~overtaken => Fits(pageVersion, inputs)')
    BY DEF FormInvariant, PageHolds, Decisive, Fits, Agree, Standing, Latest
  <2>2. PageSaved => PageSaved'
    BY DEF PageSaved, InServer, Latest
  <2>3. InServer("shape", refresh) => InServer("shape", refresh)'
    BY DEF InServer, Latest
  <2> QED
    BY <2>1, <2>2, <2>3 DEF FormInvariant, PageHolds, Latest
<1>3. /\ calls = [u \in Tasks |-> calls[u]] /\ calls' = [u \in Tasks |-> calls'[u]]
      /\ \A u \in Tasks \ {t} : calls'[u] = calls[u]
  BY DEF FormInvariant
<1>4. ASSUME NEW u \in Tasks
      PROVE  TaskHolds(u)'
  <2>1. CASE u = t
    BY <2>1
  <2>2. CASE u # t
    <3>1. server' \in Seq(Forms) /\ Len(server) <= Len(server')
          /\ (\A v \in 1..Latest : server'[v] = server[v])
      BY DEF FormInvariant, ServerHolds
    <3>2. Len(proposals) <= Len(proposals') /\ Len(proposals') \in Nat
          /\ (\A p \in 1..Len(proposals) :
                proposals[p].status # "pending" => proposals'[p].status # "pending")
      BY DEF FormInvariant, ProposalsHold
    <3> QED
      BY <1>3, <2>2, <3>1, <3>2, CallGrows
  <2> QED
    BY <2>1, <2>2
<1> QED
  BY <1>1, <1>2, <1>3, <1>4 DEF FormInvariant

(***************************************************************************)
(* A call of Deciding(p) is about a proposal, and no other task is.        *)
(***************************************************************************)
LEMMA TasksDiffer ==
  /\ \A p, q \in ProposalIds : Deciding(p) = Deciding(q) => p = q
  /\ \A p \in ProposalIds : Deciding(p) # Chat /\ Deciding(p) # Preview /\ Deciding(p) \in Tasks
  /\ Chat # Preview /\ Chat \in Tasks /\ Preview \in Tasks
BY DEF Deciding, Chat, Preview, Tasks

(***************************************************************************)
(* A call that begins saves the form as it is, if that was edited.         *)
(***************************************************************************)
LEMMA BeginKeeps ==
  ASSUME FormInvariant, NEW t \in Tasks, NEW choice, Begin(t, choice),
         cards' \subseteq cards,
         \A p \in ProposalIds : t = Deciding(p) => p \in 1..Len(proposals)
  PROVE  FormInvariant'
<1>1. PICK c : /\ calls' = [calls EXCEPT ![t] = c]
               /\ \/ dirty /\ c = Saving(choice)
                  \/ ~dirty /\ c = Sending("act", choice)
                  \/ c = Resting
  <2>1. CASE dirty
    BY <2>1 DEF Begin
  <2>2. CASE ~dirty /\ (t # Preview \/ HasSynced)
    BY <2>2 DEF Begin
  <2>3. CASE ~dirty /\ ~(t # Preview \/ HasSynced)
    BY <2>3 DEF Begin
  <2> QED
    BY <2>1, <2>2, <2>3
<1>2. UNCHANGED <<inputs, pageShape, formEdits, replaced, hasty, dirty, pageVersion, approved,
                  syncedVersion, overtaken, renderedVersion, panel, refreshDue, refresh, refreshed,
                  server, proposals>>
  BY DEF Begin, editor, sync, previewer
<1>3. calls'[t] = c
  BY <1>1 DEF FormInvariant
<1>4. PageHolds /\ ProposalsHold
  BY DEF FormInvariant
<1>5. TaskHolds(t)'
  <2>1. CASE dirty /\ c = Saving(choice)
    <3>1. /\ calls'[t].at = "put" /\ calls'[t].answer = Missing
          /\ calls'[t].draft = PageForm /\ calls'[t].expected = pageVersion
      BY <1>3, <2>1 DEF Saving
    <3>2. PageForm \in Forms /\ PageForm.text = inputs /\ PageForm.shape = pageShape
      BY PageFormIsForm
    <3>3. PutHolds(c)'
      <4>1. c.draft = PageForm /\ c.expected = pageVersion
        BY <1>3, <3>1
      <4>2. /\ Decisive(c.draft.text) /\ c.expected \in 1..Latest
            /\ ~overtaken => Fits(c.expected, c.draft.text)
        BY <1>4, <3>2, <4>1 DEF PageHolds
      <4>3. /\ Decisive(c.draft.text)' /\ c.expected \in 1..Latest'
            /\ ~overtaken' => Fits(c.expected, c.draft.text)'
        BY <1>2, <4>2 DEF Decisive, Fits, Agree, Standing, Latest
      <4>4. ~overtaken' => c.expected <= pageVersion'
        BY <1>2, <1>4, <4>1 DEF PageHolds, Latest, FormInvariant, ServerHolds
      <4> QED
        BY <1>2, <3>2, <4>1, <4>3, <4>4 DEF PutHolds
    <3> QED
      BY <1>2, <1>3, <3>1, <3>3 DEF TaskHolds, PutHolds
  <2>2. CASE ~dirty /\ c = Sending("act", choice)
    <3>1. calls'[t].at = "act" /\ calls'[t].answer = Missing
      BY <1>3, <2>2 DEF Sending
    <3>2. ~hasty' => PageSaved'
      BY <1>2, <1>4, <2>2 DEF PageHolds, PageSaved, InServer, Latest
    <3> QED
      BY <1>2, <3>1, <3>2 DEF TaskHolds, ReadHolds
  <2>3. CASE c = Resting
    BY <1>3, <2>3 DEF TaskHolds, Resting
  <2> QED
    BY <1>1, <2>1, <2>2, <2>3
<1>6. cards' \subseteq 1..Len(proposals)
  BY <1>4 DEF ProposalsHold
<1> QED
  BY <1>1, <1>2, <1>4, <1>5, <1>6, QuietKeeps DEF PageHolds, ProposalsHold

(***************************************************************************)
(* The chat, the Preview action and a decision on one of the cards.        *)
(***************************************************************************)
LEMMA SendTaskKeeps ==
  ASSUME FormInvariant,
         SendChat \/ PreviewAction
           \/ \E p \in ProposalIds, decision \in {"approve", "reject"} : Decide(p, decision)
  PROVE  FormInvariant'
<1>1. CASE SendChat
  BY <1>1, TasksDiffer, BeginKeeps DEF SendChat
<1>2. CASE PreviewAction
  BY <1>2, TasksDiffer, BeginKeeps DEF PreviewAction
<1>3. ASSUME NEW p \in ProposalIds, NEW decision \in {"approve", "reject"}, Decide(p, decision)
      PROVE  FormInvariant'
  <2>1. p \in 1..Len(proposals) /\ cards' \subseteq cards
    BY <1>3 DEF Decide, FormInvariant, ProposalsHold
  <2> QED
    BY <1>3, <2>1, TasksDiffer, BeginKeeps DEF Decide
<1> QED
  BY <1>1, <1>2, <1>3

(***************************************************************************)
(* The chat's answer brings a card; the preview is drawn if it is of the   *)
(* page's version; an approval asks for the latest request.                *)
(***************************************************************************)
LEMMA AnsweredKeeps ==
  ASSUME FormInvariant,
         ChatAnswered \/ PreviewAnswered \/ \E p \in ProposalIds : Decided(p)
  PROVE  FormInvariant'
<1>1. PageHolds /\ ProposalsHold
  BY DEF FormInvariant
<1>2. UNCHANGED <<inputs, pageShape, refresh, refreshDue, pageVersion, replaced, hasty, overtaken,
                  server, proposals, approved, dirty, formEdits>>
  BY DEF ChatAnswered, PreviewAnswered, Decided, editor, sync, previewer
<1>3. Missing \in 1..Latest \cup {Missing}
  OBVIOUS
<1>4. ASSUME NEW t \in Tasks, calls' = [calls EXCEPT ![t] = Resting]
      PROVE  TaskHolds(t)'
  BY <1>4 DEF TaskHolds, Resting, FormInvariant
<1>5. CASE ChatAnswered
  <2>1. calls' = [calls EXCEPT ![Chat] = Resting] /\ UNCHANGED <<syncedVersion, renderedVersion, panel>>
        /\ UNCHANGED refreshed
    BY <1>5 DEF ChatAnswered, Ends, sync
  <2>2. cards' \subseteq 1..Len(proposals)
    BY <1>1, <1>5 DEF ChatAnswered, ProposalsHold
  <2> QED
    BY <1>1, <1>2, <1>4, <2>1, <2>2, TasksDiffer, QuietKeeps DEF PageHolds, ProposalsHold
<1>6. CASE PreviewAnswered
  <2> DEFINE answer == calls[Preview].answer
  <2>1. calls' = [calls EXCEPT ![Preview] = Resting] /\ UNCHANGED <<syncedVersion, cards, refreshed>>
    BY <1>6 DEF PreviewAnswered, Ends, sync
  <2>2. CASE answer.version = pageVersion
    <3>1. panel' = [form |-> answer.form, version |-> answer.version]
          /\ renderedVersion' = answer.version
      BY <1>6, <2>2 DEF PreviewAnswered
    <3>2. answer.version \in 1..Latest /\ answer.form = server[answer.version]
      BY <1>6, TasksDiffer DEF PreviewAnswered, FormInvariant, TaskHolds, ReadHolds
    <3>3. answer.form \in Forms
      BY <3>2, ElementOfSeq DEF FormInvariant, ServerHolds, Latest
    <3>4. /\ panel' \in [form : Forms, version : 1..Latest \cup {Missing}]
          /\ panel'.version # Missing => panel'.form = server[panel'.version]
      BY <3>1, <3>2, <3>3
    <3> QED
      BY <1>1, <1>2, <1>4, <2>1, <3>1, <3>2, <3>4, TasksDiffer, QuietKeeps DEF PageHolds, ProposalsHold
  <2>3. CASE answer.version # pageVersion
    <3>1. UNCHANGED <<panel, renderedVersion>>
      BY <1>6, <2>3 DEF PreviewAnswered
    <3> QED
      BY <1>1, <1>2, <1>4, <2>1, <3>1, TasksDiffer, QuietKeeps DEF PageHolds, ProposalsHold
  <2> QED
    BY <2>2, <2>3
<1>7. ASSUME NEW p \in ProposalIds, Decided(p)
      PROVE  FormInvariant'
  <2> DEFINE t == Deciding(p)
  <2>1. t \in Tasks /\ TaskHolds(t) /\ calls[t].at = "act" /\ UNCHANGED <<cards, panel>>
    BY <1>7, TasksDiffer DEF FormInvariant, Decided
  <2>2. p \in 1..Len(proposals)
    BY <2>1 DEF TaskHolds
  <2>3. CASE calls[t].answer = "approved" /\ p \notin refreshed
    <3>1. /\ syncedVersion' = Missing /\ renderedVersion' = Missing
          /\ refreshed' = refreshed \cup {p}
          /\ calls' = [calls EXCEPT ![t] = Sending("get", "approve")]
      BY <1>7, <2>3 DEF Decided
    <3>2. calls'[t].at = "get" /\ calls'[t].answer = Missing
      BY <2>1, <3>1 DEF Sending, FormInvariant
    <3>3. ~hasty' => PageSaved'
      BY <1>2, <2>1 DEF TaskHolds, PageSaved, InServer, Latest
    <3>4. TaskHolds(t)'
      BY <1>2, <2>2, <3>2, <3>3, TasksDiffer DEF TaskHolds, ReadHolds
    <3>5. refreshed' \subseteq 1..Len(proposals)
      BY <1>1, <2>2, <3>1 DEF ProposalsHold
    <3> QED
      BY <1>1, <1>2, <1>3, <2>1, <3>1, <3>4, <3>5, QuietKeeps DEF PageHolds, ProposalsHold
  <2>4. CASE ~(calls[t].answer = "approved" /\ p \notin refreshed)
    <3>1. calls' = [calls EXCEPT ![t] = Resting] /\ UNCHANGED <<syncedVersion, renderedVersion, refreshed>>
      BY <1>7, <2>4 DEF Decided, Ends
    <3> QED
      BY <1>1, <1>2, <1>4, <2>1, <3>1, QuietKeeps DEF PageHolds, ProposalsHold
  <2> QED
    BY <2>3, <2>4
<1> QED
  BY <1>5, <1>6, <1>7

(***************************************************************************)
(* A call that fails is given up.                                          *)
(***************************************************************************)
LEMMA FailKeeps ==
  ASSUME FormInvariant, NEW t \in Tasks, Fail(t)
  PROVE  FormInvariant'
<1>1. /\ calls' = [calls EXCEPT ![t] = Resting]
      /\ UNCHANGED <<inputs, pageShape, refresh, refreshDue, pageVersion, replaced, hasty, overtaken,
                     server, proposals, approved, dirty, formEdits, syncedVersion, renderedVersion,
                     panel, cards, refreshed>>
  BY DEF Fail, Ends, editor, sync, previewer
<1>2. TaskHolds(t)'
  BY <1>1 DEF TaskHolds, Resting, FormInvariant
<1> QED
  BY <1>1, <1>2, QuietKeeps DEF FormInvariant, PageHolds, ProposalsHold

-----------------------------------------------------------------------------
(* The answers that give the page another version.                         *)

(***************************************************************************)
(* When the page takes a version over, with its text or with the text it   *)
(* had, the invariant holds if that fits: a save whose answer is still on  *)
(* its way replaced the version before its own.                            *)
(***************************************************************************)
LEMMA VersionKeeps ==
  ASSUME FormInvariant, NEW t \in Tasks, NEW c, calls' = [calls EXCEPT ![t] = c],
         UNCHANGED <<refresh, refreshDue, replaced, hasty, server, proposals, formEdits, cards,
                     refreshed>>,
         NEW V \in 1..Latest, pageVersion' = V, syncedVersion' = V, renderedVersion' = Missing,
         approved' = server[V], dirty' = FALSE, overtaken' = (overtaken \/ V < pageVersion),
         panel' = NoVersion \/ panel' = panel,
         pageShape' \in Marks,
         \/ inputs' = server[V].text
         \/ inputs' = inputs /\ (~overtaken => Fits(V, inputs)),
         ~hasty => PageSaved',
         TaskHolds(t)'
  PROVE  FormInvariant'
<1>1. PageHolds /\ Latest \in Nat /\ Latest' = Latest
  BY DEF FormInvariant, ServerHolds, Latest
<1>2. ServerHolds' /\ ProposalsHold'
  BY DEF FormInvariant, ServerHolds, ProposalsHold, Decisive, Latest
<1>3. \A v, x : (Fits(v, x) <=> Fits(v, x)') /\ (Decisive(x) <=> Decisive(x)')
  BY DEF Fits, Agree, Standing, Decisive, Latest
<1>4. server[V] \in Forms
  BY ElementOfSeq DEF FormInvariant, ServerHolds, Latest
<1>5. inputs' \in Marks /\ Decisive(inputs)'
  <2>1. CASE inputs' = inputs
    BY <1>1, <1>3, <2>1 DEF PageHolds
  <2>2. CASE inputs' = server[V].text
    <3>1. Decisive(server[V].text) /\ server[V].text \in Marks
      BY <1>4, FormParts DEF FormInvariant, ServerHolds
    <3> QED
      BY <1>3, <2>2, <3>1 DEF Decisive
  <2> QED
    BY <2>1, <2>2
<1>6. ~overtaken' => Fits(V, inputs)'
  <2>1. CASE inputs' = inputs /\ (~overtaken => Fits(V, inputs))
    BY <1>3, <2>1
  <2>2. CASE inputs' = server[V].text
    BY <1>1, <2>2 DEF Fits, Agree
  <2> QED
    BY <2>1, <2>2
<1>7. PageHolds'
  <2>1. NoVersion \in [form : Forms, version : 1..Latest \cup {Missing}] /\ NoVersion.version = Missing
    BY FormAssumption DEF NoVersion, Blank, Forms, Kinds, Marks
  <2>2. overtaken' \in BOOLEAN /\ dirty' \in BOOLEAN
    BY <1>1 DEF PageHolds
  <2>3. /\ panel' \in [form : Forms, version : 1..Latest \cup {Missing}]
        /\ panel'.version # Missing => panel'.form = server[panel'.version]
    BY <1>1, <2>1 DEF PageHolds
  <2>4. ~hasty => (refresh # Missing => InServer("shape", refresh)')
    BY DEF PageSaved
  <2> QED
    BY <1>1, <1>4, <1>5, <1>6, <2>2, <2>3, <2>4 DEF PageHolds
<1>8. /\ calls' = [u \in Tasks |-> calls'[u]]
      /\ \A u \in Tasks \ {t} : calls'[u] = calls[u]
  BY DEF FormInvariant
<1>9. ASSUME NEW u \in Tasks \ {t}
      PROVE  TaskHolds(u)'
  <2>1. TaskHolds(u) /\ calls'[u] = calls[u]
    BY <1>8 DEF FormInvariant
  <2>2. ~overtaken' => ~overtaken /\ pageVersion <= pageVersion'
    <3>1. ~overtaken' => ~(overtaken \/ V < pageVersion)
      OBVIOUS
    <3>2. pageVersion \in Int /\ pageVersion' = V /\ V \in Int
      BY <1>1 DEF PageHolds
    <3> QED
      BY <3>1, <3>2
  <2>3. ASSUME PutHolds(calls[u])
        PROVE  PutHolds(calls[u])'
    <3>1. calls[u].expected \in 1..Latest /\ calls[u].draft \in Forms
      BY <2>3 DEF PutHolds
    <3>2. ~overtaken' => calls[u].expected <= pageVersion'
      BY <1>1, <2>2, <2>3, <3>1 DEF PutHolds, PageHolds
    <3>3. ~hasty' => InServer("text", inputs)' /\ InServer("shape", pageShape)'
      BY DEF PageSaved
    <3> QED
      BY <1>1, <1>3, <2>1, <2>2, <2>3, <3>1, <3>2, <3>3 DEF PutHolds
  <2>4. ASSUME SavedHolds(calls[u].answer)
        PROVE  SavedHolds(calls[u].answer)'
    <3>1. SUFFICES ASSUME calls[u].answer \notin Refused
                   PROVE  SavedHolds(calls[u].answer)'
      BY <2>1 DEF SavedHolds
    <3>2. PICK a : a = calls[u].answer
      OBVIOUS
    <3>3. /\ a \in Kept /\ a.version \in 2..Latest /\ a.form = server[a.version]
          /\ ~overtaken => /\ a.version - 1 <= pageVersion
                           /\ Fits(a.version, inputs)
                           /\ Fits(a.version, server[a.version - 1].text)
      BY <2>4, <3>1, <3>2 DEF SavedHolds
    <3>4. ~overtaken' => a.version - 1 <= pageVersion'
      BY <1>1, <2>2, <3>3 DEF PageHolds
    <3>5. ASSUME ~overtaken'
          PROVE  Fits(a.version, inputs)'
      <4>1. CASE inputs' = inputs
        BY <1>3, <2>2, <3>3, <3>5, <4>1
      <4>2. CASE inputs' = server[V].text
        <5>1. CASE a.version = Latest
          <6>1. V = a.version \/ V = a.version - 1
            BY <1>1, <3>3, <3>4, <3>5, <5>1
          <6>2. Fits(a.version, server[V].text)
            BY <2>2, <3>3, <3>5, <6>1 DEF Fits, Agree
          <6>3. PICK x : x = server[V].text
            OBVIOUS
          <6>4. Fits(a.version, x)'
            BY <1>3, <6>2, <6>3
          <6> QED
            BY <4>2, <6>3, <6>4 DEF Fits, Agree, Standing
        <5>2. CASE a.version # Latest
          BY <1>1, <5>2 DEF Fits
        <5> QED
          BY <5>1, <5>2
      <4> QED
        BY <4>1, <4>2
    <3>6. ~overtaken' => Fits(a.version, server[a.version - 1].text)'
      BY <1>3, <2>2, <3>3
    <3> QED
      BY <1>1, <2>1, <3>2, <3>3, <3>4, <3>5, <3>6 DEF SavedHolds
  <2>5. ReadHolds(calls[u].answer) => ReadHolds(calls[u].answer)'
    BY <1>1, <2>1 DEF ReadHolds
  <2> QED
    BY <2>1, <2>3, <2>4, <2>5 DEF TaskHolds
<1> QED
  BY <1>2, <1>7, <1>8, <1>9 DEF FormInvariant

(***************************************************************************)
(* A save is answered: its version becomes the page's, or it was refused.  *)
(***************************************************************************)
LEMMA SavedKeeps ==
  ASSUME FormInvariant, NEW t \in Tasks, Saved(t)
  PROVE  FormInvariant'
<1>1. TaskHolds(t) /\ PageHolds /\ ServerHolds /\ calls[t].at = "put" /\ calls[t].answer # Missing
  BY DEF FormInvariant, Saved
<1>2. PICK a : a = calls[t].answer
  OBVIOUS
<1>3. SavedHolds(a)
  BY <1>1, <1>2 DEF TaskHolds
<1>4. CASE a.ok
  <2>1. /\ pageVersion' = a.version /\ approved' = a.form /\ syncedVersion' = a.version
        /\ renderedVersion' = Missing /\ dirty' = FALSE
        /\ overtaken' = (overtaken \/ a.version < pageVersion)
        /\ calls' = [calls EXCEPT ![t] = Sending("act", calls[t].choice)]
        /\ UNCHANGED <<inputs, pageShape, refresh, refreshDue, replaced, hasty, server, proposals,
                       formEdits, cards, refreshed, panel>>
    BY <1>2, <1>4 DEF Saved, editor, previewer
  <2>2. /\ a.version \in 1..Latest /\ a.form = server[a.version]
        /\ ~overtaken => Fits(a.version, inputs)
        /\ ~hasty => PageSaved
    <3>1. a \notin Refused
      BY <1>4 DEF Refused
    <3>2. a.version \in 1..Latest
      BY <1>1, <1>3, <3>1 DEF SavedHolds, ServerHolds, Latest
    <3> QED
      BY <1>3, <3>1, <3>2 DEF SavedHolds
  <2>3. ~hasty => PageSaved'
    BY <2>1, <2>2 DEF PageSaved, InServer, Latest
  <2>4. TaskHolds(t)'
    <3>1. calls'[t].at = "act" /\ calls'[t].answer = Missing
      BY <2>1 DEF Sending, FormInvariant
    <3> QED
      BY <1>1, <2>1, <2>3, <3>1 DEF TaskHolds, ReadHolds
  <2> QED
    BY <1>1, <2>1, <2>2, <2>3, <2>4, VersionKeeps DEF PageHolds
<1>5. CASE ~a.ok
  <2>1. /\ calls' = [calls EXCEPT ![t] = Resting]
        /\ UNCHANGED <<inputs, pageShape, refresh, refreshDue, pageVersion, replaced, hasty,
                       overtaken, server, proposals, approved, dirty, formEdits, syncedVersion,
                       renderedVersion, panel, cards, refreshed>>
    BY <1>2, <1>5 DEF Saved, Ends, editor, sync, previewer
  <2>2. TaskHolds(t)'
    BY <2>1 DEF TaskHolds, Resting, FormInvariant
  <2> QED
    BY <2>1, <2>2, QuietKeeps DEF FormInvariant, PageHolds, ProposalsHold
<1> QED
  BY <1>4, <1>5

(***************************************************************************)
(* The latest request replaces the form.                                   *)
(***************************************************************************)
LEMMA AdoptLatestKeeps ==
  ASSUME FormInvariant, NEW p \in ProposalIds, AdoptLatest(p)
  PROVE  FormInvariant'
<1> DEFINE t == Deciding(p)
<1>1. t \in Tasks /\ TaskHolds(t) /\ PageHolds /\ calls[t].at = "get" /\ calls[t].answer # Missing
  BY TasksDiffer DEF FormInvariant, AdoptLatest
<1>2. PICK V \in 1..Latest : calls[t].answer.version = V /\ calls[t].answer.form = server[V]
  BY <1>1 DEF TaskHolds, ReadHolds
<1>3. server[V] \in Forms
  BY ElementOfSeq DEF FormInvariant, ServerHolds, Latest
<1>4. /\ pageVersion' = V /\ approved' = server[V] /\ syncedVersion' = V
      /\ inputs' = server[V].text /\ pageShape' = server[V].shape
      /\ renderedVersion' = Missing /\ dirty' = FALSE /\ panel' = NoVersion
      /\ overtaken' = (overtaken \/ V < pageVersion)
      /\ calls' = [calls EXCEPT ![t] = Resting]
      /\ UNCHANGED <<refresh, refreshDue, replaced, hasty, server, proposals, formEdits, cards,
                     refreshed>>
  BY <1>2 DEF AdoptLatest, Ends, previewer
<1>5. pageShape' \in Marks
  BY <1>3, <1>4, FormParts
<1>6. ~hasty => PageSaved'
  <2>1. Latest' = Latest
    BY <1>4 DEF Latest
  <2>2. InServer("text", inputs)' /\ InServer("shape", pageShape)'
    BY <1>3, <1>4, <2>1, FormParts DEF InServer
  <2>3. InServer("shape", refresh) => InServer("shape", refresh)'
    BY <1>4, <2>1 DEF InServer
  <2> QED
    BY <1>1, <1>4, <2>2, <2>3 DEF TaskHolds, PageSaved
<1>7. TaskHolds(t)'
  BY <1>1, <1>4 DEF TaskHolds, Resting, FormInvariant
<1> QED
  BY <1>1, <1>4, <1>5, <1>6, <1>7, VersionKeeps

-----------------------------------------------------------------------------
(* The server.                                                             *)

(***************************************************************************)
(* While only the server moves, and one call is answered, the invariant    *)
(* holds if the server's texts are those of approvals or edits and the     *)
(* answer is as it should be.                                              *)
(***************************************************************************)
LEMMA ServedKeeps ==
  ASSUME FormInvariant, NEW t \in Tasks, NEW c, calls' = [calls EXCEPT ![t] = c],
         UNCHANGED <<editor, sync, renderedVersion, panel, previewer, cards, refreshed>>,
         server' \in Seq(Forms), Len(server) <= Len(server'),
         \A v \in 1..Latest : server'[v] = server[v],
         \A v \in 1..Latest' : v \notin 1..Latest => Decisive(server[v].text)',
         proposals' \in Seq(Open \cup Done), Len(proposals) <= Len(proposals'),
         Len(proposals') <= ProposalLimit,
         \A p \in 1..Len(proposals') : proposals'[p].status = "pending" => p = Len(proposals'),
         \A p \in 1..Len(proposals) :
           proposals[p].status # "pending" => proposals'[p].status # "pending",
         TaskHolds(t)'
  PROVE  FormInvariant'
<1>1. UNCHANGED <<inputs, pageShape, formEdits, replaced, hasty, dirty, pageVersion, approved,
                  syncedVersion, overtaken, renderedVersion, panel, refreshDue, refresh, cards,
                  refreshed>>
  BY DEF editor, sync, previewer
<1>2. Latest \in Nat /\ Latest >= 1 /\ Latest' \in Nat /\ Latest <= Latest'
      /\ Len(proposals) \in Nat /\ Len(proposals') \in Nat
  BY DEF FormInvariant, ServerHolds, ProposalsHold, Latest
<1>3. /\ \A x \in Marks : Decisive(x) => Decisive(x)'
      /\ \A v \in 1..Latest, x \in Marks : Fits(v, x) => Fits(v, x)'
      /\ \A k, x : InServer(k, x) => InServer(k, x)'
  BY <1>1, <1>2, GrowingKeeps
<1>4. ServerHolds'
  <2>1. ASSUME NEW v \in 1..Latest
        PROVE  Decisive(server[v].text)'
    <3>1. PICK x : x = server[v].text
      OBVIOUS
    <3>2. x \in Marks /\ Decisive(x)
      BY <3>1, ElementOfSeq, FormParts DEF FormInvariant, ServerHolds, Latest
    <3>3. Decisive(x)' /\ server'[v].text = x
      BY <1>3, <3>1, <3>2
    <3> QED
      BY <3>3 DEF Decisive
  <2> QED
    BY <1>2, <2>1 DEF ServerHolds
<1>5. ProposalsHold'
  BY <1>1, <1>2 DEF FormInvariant, ProposalsHold
<1>6. PageHolds'
  <2>1. PageHolds
    BY DEF FormInvariant
  <2>2. PageSaved => PageSaved'
    BY <1>1, <1>3 DEF PageSaved
  <2>3. PICK x \in Marks : x = inputs
    BY <2>1 DEF PageHolds
  <2>4. Decisive(x)' /\ (~overtaken => Fits(pageVersion, x)')
    BY <1>1, <1>3, <2>1, <2>3 DEF PageHolds
  <2>5. Decisive(inputs)' /\ (~overtaken => Fits(pageVersion, inputs)')
    BY <1>1, <2>3, <2>4
  <2>6. ~hasty => (refresh # Missing => refresh = pageShape \/ InServer("shape", refresh)')
    <3>1. InServer("shape", refresh) => InServer("shape", refresh)'
      BY <1>1, <1>3
    <3> QED
      BY <2>1, <3>1 DEF PageHolds
  <2>7. /\ pageVersion \in 1..Latest' /\ syncedVersion \in 1..Latest' \cup {Missing}
        /\ renderedVersion \in 1..Latest' \cup {Missing}
    BY <1>2, <2>1 DEF PageHolds
  <2>8. /\ panel \in [form : Forms, version : 1..Latest' \cup {Missing}]
        /\ panel.version # Missing => panel.form = server'[panel.version]
    BY <1>2, <2>1 DEF PageHolds
  <2> QED
    BY <1>1, <2>1, <2>2, <2>5, <2>6, <2>7, <2>8 DEF PageHolds
<1>7. /\ calls' = [u \in Tasks |-> calls'[u]]
      /\ \A u \in Tasks \ {t} : calls'[u] = calls[u]
  BY DEF FormInvariant
<1>8. ASSUME NEW u \in Tasks \ {t}
      PROVE  TaskHolds(u)'
  BY <1>1, <1>2, <1>7, CallGrows
<1> QED
  BY <1>4, <1>5, <1>6, <1>7, <1>8 DEF FormInvariant

(***************************************************************************)
(* A save whose expected version is the latest: its form and the page's    *)
(* both go with that version, and so with each other.                      *)
(***************************************************************************)
LEMMA ServePutKeeps ==
  ASSUME FormInvariant, NEW t \in Tasks, ServePut(t),
         UNCHANGED <<editor, sync, renderedVersion, panel, previewer, cards, refreshed>>
  PROVE  FormInvariant'
<1>1. UNCHANGED <<inputs, pageShape, refresh, pageVersion, replaced, hasty, overtaken, proposals>>
  BY DEF ServePut, editor, sync, previewer
<1>2. TaskHolds(t) /\ PageHolds /\ ServerHolds /\ ProposalsHold /\ Latest \in Nat /\ Latest >= 1
  BY DEF FormInvariant, ServerHolds, Latest
<1>3. PICK c : c = calls[t]
  OBVIOUS
<1>4. c.at = "put" /\ c.answer = Missing /\ c.answer \notin Kept /\ c.answer \notin Refused
  BY <1>3, FormAssumption DEF ServePut
<1>5. PutHolds(c)
  BY <1>2, <1>3, <1>4 DEF TaskHolds, SavedHolds
<1>6. c.draft \in Forms /\ c.expected \in 1..Latest /\ c.draft.text \in Marks
  BY <1>5, FormParts DEF PutHolds
<1>7. /\ \A p \in 1..Len(proposals') : proposals'[p].status = "pending" => p = Len(proposals')
      /\ \A p \in 1..Len(proposals) :
           proposals[p].status # "pending" => proposals'[p].status # "pending"
      /\ proposals' \in Seq(Open \cup Done) /\ Len(proposals) <= Len(proposals')
      /\ Len(proposals') <= ProposalLimit
  BY <1>1, <1>2 DEF ProposalsHold
<1>8. CASE c.expected = Latest
  <2>a. PICK a : a = [ok |-> TRUE, version |-> Latest + 1, form |-> c.draft]
    OBVIOUS
  <2>d. PICK d : d = [at |-> "put", answer |-> a, choice |-> c.choice]
    OBVIOUS
  <2>1. server' = Append(server, c.draft) /\ calls' = [calls EXCEPT ![t] = d]
    BY <1>3, <1>4, <1>8, <2>a, <2>d DEF ServePut, Answers, Sending
  <2>2. /\ server' \in Seq(Forms) /\ Len(server') = Len(server) + 1
        /\ server'[Latest + 1] = c.draft
        /\ \A v \in 1..Latest : server'[v] = server[v]
    BY <1>2, <1>6, <2>1 DEF ServerHolds, Latest
  <2>3. Latest' = Latest + 1
    BY <2>2 DEF Latest
  <2>4. calls'[t] = d /\ a \in Kept
    BY <1>2, <1>6, <2>1, <2>a DEF FormInvariant, Kept
  <2>5. SavedHolds(a)'
    <3>1. a.version = Latest + 1 /\ a.form = c.draft
      BY <2>a
    <3>2. a.version \in 2..Latest' /\ a.version = Latest' /\ a.form = server'[a.version]
          /\ a.version - 1 = Latest
      BY <1>2, <2>2, <2>3, <3>1
    <3>3. ASSUME ~overtaken
          PROVE  a.version - 1 <= pageVersion
                 /\ Agree(inputs, c.draft.text) /\ Agree(server[Latest].text, c.draft.text)
      <4>1. Fits(Latest, c.draft.text) /\ Latest <= pageVersion
        BY <1>5, <1>8, <3>3 DEF PutHolds
      <4>2. pageVersion = Latest
        BY <1>2, <4>1 DEF PageHolds
      <4>3. Fits(Latest, inputs)
        BY <1>2, <3>3, <4>2 DEF PageHolds
      <4> QED
        BY <1>2, <3>2, <4>1, <4>2, <4>3 DEF Fits, Agree
    <3>4. ~overtaken => Fits(a.version, inputs)'
      <4>1. \A x, y : Agree(x, y) => Agree(x, y)'
        BY <1>1 DEF Agree, Standing
      <4>2. ~overtaken => Agree(inputs, c.draft.text)'
        <5>1. PICK x : x = inputs
          OBVIOUS
        <5> QED
          BY <1>1, <3>3, <4>1, <5>1
      <4> QED
        BY <2>2, <3>2, <4>2, <1>2, <2>3 DEF Fits, Agree, Standing
    <3>5. ~overtaken => Fits(a.version, server[a.version - 1].text)'
      <4>1. server'[a.version - 1] = server[Latest]
        BY <1>2, <2>2, <3>2
      <4>2. ~overtaken => Agree(server[a.version - 1].text, c.draft.text)'
        BY <1>1, <3>3, <4>1 DEF Agree, Standing
      <4> QED
        BY <2>2, <3>2, <4>2, <1>2, <2>3 DEF Fits, Agree, Standing
    <3>6. ~hasty => PageSaved'
      <4>1. \A k, x : InServer(k, x) => InServer(k, x)'
        BY <1>1, <1>2, <1>7, <2>2, GrowingKeeps DEF ProposalsHold
      <4>2. InServer("text", c.draft.text)' /\ InServer("shape", c.draft.shape)'
        <5>1. Latest + 1 \in 1..Latest' /\ server'[Latest + 1] = c.draft
          BY <1>2, <2>2, <2>3
        <5> QED
          BY <1>6, <5>1, FormParts DEF InServer
      <4>3. ~hasty => InServer("text", inputs)' /\ InServer("shape", pageShape)'
        <5>1. ~hasty => /\ inputs = c.draft.text \/ InServer("text", inputs)
                        /\ pageShape = c.draft.shape \/ InServer("shape", pageShape)
          BY <1>5 DEF PutHolds
        <5>2. PICK x : x = inputs
          OBVIOUS
        <5>9. PICK y : y = pageShape
          OBVIOUS
        <5>3. ~hasty => (x = c.draft.text \/ InServer("text", x))
          BY <5>1, <5>2 DEF InServer
        <5>4. ~hasty => (y = c.draft.shape \/ InServer("shape", y))
          BY <5>1, <5>9 DEF InServer
        <5>5. InServer("text", x) => InServer("text", x)'
          BY <4>1
        <5>6. InServer("shape", y) => InServer("shape", y)'
          BY <4>1
        <5>7. ~hasty => InServer("text", x)'
          BY <4>2, <5>3, <5>5
        <5>8. ~hasty => InServer("shape", y)'
          BY <4>2, <5>4, <5>6
        <5> QED
          BY <1>1, <5>2, <5>9, <5>7, <5>8 DEF InServer
      <4>4. ~hasty => (refresh # Missing => InServer("shape", refresh)')
        <5>1. ~hasty => (refresh # Missing => refresh = pageShape \/ InServer("shape", refresh))
          BY <1>2 DEF PageHolds
        <5> QED
          BY <1>1, <4>1, <4>3, <5>1 DEF InServer
      <4> QED
        BY <1>1, <4>3, <4>4 DEF PageSaved
    <3> QED
      BY <1>1, <2>4, <3>2, <3>3, <3>4, <3>5, <3>6 DEF SavedHolds
  <2>6. TaskHolds(t)'
    <3>1. calls'[t].at = "put" /\ calls'[t].answer = a
      BY <2>4, <2>d
    <3>2. SavedHolds(calls[t].answer)'
      BY <2>5, <3>1 DEF SavedHolds
    <3> QED
      BY <1>1, <1>2, <1>3, <1>4, <3>1, <3>2 DEF TaskHolds
  <2>7. \A v \in 1..Latest' : v \notin 1..Latest => Decisive(server[v].text)'
    BY <1>1, <1>2, <1>5, <2>2, <2>3 DEF Decisive, PutHolds
  <2>8. Len(server) <= Len(server')
    BY <1>2, <2>2 DEF Latest
  <2> QED
    BY <1>7, <2>1, <2>2, <2>6, <2>7, <2>8, ServedKeeps
<1>9. CASE c.expected # Latest
  <2>d. PICK d : d = [at |-> "put", answer |-> [ok |-> FALSE], choice |-> c.choice]
    OBVIOUS
  <2>1. server' = server /\ calls' = [calls EXCEPT ![t] = d]
    BY <1>3, <1>4, <1>9, <2>d DEF ServePut, Answers, Sending
  <2>2. calls'[t] = d /\ d.at = "put" /\ d.answer \in Refused
    BY <2>1, <2>d DEF FormInvariant, Refused
  <2>3. TaskHolds(t)'
    BY <1>1, <1>2, <1>3, <1>4, <2>2 DEF TaskHolds, SavedHolds
  <2>4. /\ server' \in Seq(Forms) /\ Len(server) <= Len(server')
        /\ \A v \in 1..Latest : server'[v] = server[v]
        /\ \A v \in 1..Latest' : v \notin 1..Latest => Decisive(server[v].text)'
    BY <1>2, <2>1 DEF ServerHolds, Latest
  <2> QED
    BY <1>7, <2>1, <2>3, <2>4, ServedKeeps
<1> QED
  BY <1>8, <1>9

(***************************************************************************)
(* The latest request is read.                                             *)
(***************************************************************************)
LEMMA ServeLatestKeeps ==
  ASSUME FormInvariant, NEW t \in Tasks, ServeLatest(t),
         UNCHANGED <<editor, sync, renderedVersion, panel, previewer, cards, refreshed>>
  PROVE  FormInvariant'
<1>1. TaskHolds(t) /\ ServerHolds /\ ProposalsHold /\ Latest \in Nat /\ Latest >= 1
  BY DEF FormInvariant, ServerHolds, Latest
<1>2. PICK a : a = [version |-> Latest, form |-> server[Latest]]
  OBVIOUS
<1>3. PICK d : d = [at |-> calls[t].at, answer |-> a, choice |-> calls[t].choice]
  OBVIOUS
<1>4. /\ calls' = [calls EXCEPT ![t] = d] /\ UNCHANGED <<server, proposals>>
      /\ calls[t].at \in {"act", "get"}
  <2>1. calls' = [calls EXCEPT ![t] = [[at |-> calls[t].at, answer |-> Missing,
                                        choice |-> calls[t].choice] EXCEPT !.answer = a]]
    BY <1>2 DEF ServeLatest, Answers, Sending
  <2>2. d = [[at |-> calls[t].at, answer |-> Missing, choice |-> calls[t].choice] EXCEPT !.answer = a]
    BY <1>3
  <2>3. calls' = [calls EXCEPT ![t] = d]
    BY <2>1, <2>2
  <2> QED
    BY <2>3 DEF ServeLatest
<1>5. calls'[t].at = calls[t].at /\ calls'[t].answer = a
  BY <1>3, <1>4 DEF FormInvariant
<1>6. ReadHolds(calls[t].answer)'
  BY <1>1, <1>2, <1>4, <1>5 DEF ReadHolds, Latest
<1>7. PageSaved => PageSaved'
  BY <1>4 DEF PageSaved, InServer, Latest, editor, previewer
<1>8. TaskHolds(t)'
  BY <1>1, <1>4, <1>5, <1>6, <1>7 DEF TaskHolds, editor
<1>9. /\ server' \in Seq(Forms) /\ Len(server) <= Len(server')
      /\ \A v \in 1..Latest : server'[v] = server[v]
      /\ \A v \in 1..Latest' : v \notin 1..Latest => Decisive(server[v].text)'
  BY <1>1, <1>4 DEF ServerHolds, Latest
<1>10. /\ \A p \in 1..Len(proposals') : proposals'[p].status = "pending" => p = Len(proposals')
       /\ \A p \in 1..Len(proposals) :
            proposals[p].status # "pending" => proposals'[p].status # "pending"
       /\ proposals' \in Seq(Open \cup Done) /\ Len(proposals) <= Len(proposals')
       /\ Len(proposals') <= ProposalLimit
  BY <1>1, <1>4 DEF ProposalsHold
<1> QED
  BY <1>4, <1>8, <1>9, <1>10, ServedKeeps

(***************************************************************************)
(* The chat answers, and may propose.                                      *)
(***************************************************************************)
LEMMA ServeChatKeeps ==
  ASSUME FormInvariant, NEW kind \in Kinds \cup {Missing}, ServeChat(kind),
         UNCHANGED <<editor, sync, renderedVersion, panel, previewer, cards, refreshed>>
  PROVE  FormInvariant'
<1>1. TaskHolds(Chat) /\ ServerHolds /\ ProposalsHold /\ Latest \in Nat /\ Latest >= 1
      /\ Chat \in Tasks
  BY TasksDiffer DEF FormInvariant, ServerHolds, Latest
<1>2. PICK a : calls' = [calls EXCEPT ![Chat] = [at |-> "act", answer |-> a, choice |-> calls[Chat].choice]]
  BY DEF ServeChat, Answers, Sending
<1>3. PICK d : d = [at |-> "act", answer |-> a, choice |-> calls[Chat].choice]
  OBVIOUS
<1>4. /\ calls' = [calls EXCEPT ![Chat] = d] /\ UNCHANGED server /\ calls[Chat].at = "act"
  BY <1>2, <1>3 DEF ServeChat
<1>5. calls'[Chat].at = "act"
  BY <1>1, <1>3, <1>4 DEF FormInvariant
<1>6. PageSaved => PageSaved'
  BY <1>4 DEF PageSaved, InServer, Latest, editor, previewer
<1>7. TaskHolds(Chat)'
  BY <1>1, <1>4, <1>5, <1>6, TasksDiffer DEF TaskHolds, editor
<1>8. /\ server' \in Seq(Forms) /\ Len(server) <= Len(server')
      /\ \A v \in 1..Latest : server'[v] = server[v]
      /\ \A v \in 1..Latest' : v \notin 1..Latest => Decisive(server[v].text)'
  BY <1>1, <1>4 DEF ServerHolds, Latest
<1>9. CASE kind = Missing
  <2>1. proposals' = proposals
    BY <1>9 DEF ServeChat
  <2>2. /\ \A p \in 1..Len(proposals') : proposals'[p].status = "pending" => p = Len(proposals')
        /\ \A p \in 1..Len(proposals) :
             proposals[p].status # "pending" => proposals'[p].status # "pending"
        /\ proposals' \in Seq(Open \cup Done) /\ Len(proposals) <= Len(proposals')
        /\ Len(proposals') <= ProposalLimit
    BY <1>1, <2>1 DEF ProposalsHold
  <2> QED
    BY <1>1, <1>4, <1>7, <1>8, <2>2, ServedKeeps
<1>10. CASE kind # Missing
  <2> DEFINE new == [kind |-> kind, base |-> Latest, status |-> "pending"]
  <2>1. /\ proposals' = Append(proposals, new) /\ Len(proposals) < ProposalLimit
        /\ \A p \in 1..Len(proposals) : proposals[p].status # "pending"
    BY <1>10 DEF ServeChat
  <2>2. new \in Open \cup Done
    BY <1>1, <1>10 DEF Open
  <2>3. Len(proposals) \in Nat /\ proposals \in Seq(Open \cup Done) /\ ProposalLimit \in Nat
    BY <1>1, FormAssumption DEF ProposalsHold
  <2> HIDE DEF new
  <2>4. /\ proposals' \in Seq(Open \cup Done) /\ Len(proposals') = Len(proposals) + 1
        /\ \A p \in 1..Len(proposals) : proposals'[p] = proposals[p]
    BY <2>1, <2>2, <2>3
  <2>5. /\ \A p \in 1..Len(proposals') : proposals'[p].status = "pending" => p = Len(proposals')
        /\ \A p \in 1..Len(proposals) :
             proposals[p].status # "pending" => proposals'[p].status # "pending"
        /\ Len(proposals) <= Len(proposals') /\ Len(proposals') <= ProposalLimit
    BY <2>1, <2>3, <2>4
  <2> QED
    BY <1>1, <1>4, <1>7, <1>8, <2>4, <2>5, ServedKeeps
<1> QED
  BY <1>9, <1>10

(***************************************************************************)
(* A decision: what an approval writes is of a proposal decided with it,   *)
(* the last one, and no other is pending.                                  *)
(***************************************************************************)
LEMMA ServeDecisionKeeps ==
  ASSUME FormInvariant, NEW p \in ProposalIds, ServeDecision(p),
         UNCHANGED <<editor, sync, renderedVersion, panel, previewer, cards, refreshed>>
  PROVE  /\ FormInvariant'
         /\ server' # server => /\ Len(server') = Len(server) + 1
                                /\ LET old == server[Latest].text
                                       new == server'[Latest + 1].text
                                   IN  new = old \/ new > old \/ ~(old > FormEdits)
<1> DEFINE t == Deciding(p)
<1>1. /\ TaskHolds(t) /\ ServerHolds /\ ProposalsHold /\ Latest \in Nat /\ Latest >= 1
      /\ t \in Tasks
  BY TasksDiffer DEF FormInvariant, ServerHolds, Latest
<1>2. PICK status \in {"approved", "declined"} :
        /\ proposals' = [proposals EXCEPT ![p] = [status |-> status]]
        /\ calls' = [calls EXCEPT ![t] = [[at |-> calls[t].at, answer |-> Missing,
                                          choice |-> calls[t].choice] EXCEPT !.answer = status]]
        /\ calls[t].at = "act"
        /\ \/ status = "declined" /\ server' = server
           \/ /\ status = "approved"
              /\ proposals[p].status = "pending"
              /\ server' = Append(server,
                                  [server[Latest] EXCEPT ![proposals[p].kind] = FormEdits + p])
  BY DEF ServeDecision, Answers, Sending, Mark
<1>3. PICK d : d = [at |-> "act", answer |-> status, choice |-> calls[t].choice]
  OBVIOUS
<1>4. calls' = [calls EXCEPT ![t] = d]
  <2>1. d = [[at |-> calls[t].at, answer |-> Missing, choice |-> calls[t].choice]
               EXCEPT !.answer = status]
    BY <1>2, <1>3
  <2> QED
    BY <1>2, <2>1
<1>5. calls'[t].at = "act" /\ p \in 1..Len(proposals)
  BY <1>1, <1>2, <1>3, <1>4 DEF FormInvariant, TaskHolds
<1>6. [status |-> status] \in Open \cup Done
  BY DEF Done
<1>7. /\ proposals' \in Seq(Open \cup Done) /\ Len(proposals') = Len(proposals)
      /\ \A q \in 1..Len(proposals) :
           proposals'[q] = IF q = p THEN [status |-> status] ELSE proposals[q]
  BY <1>1, <1>2, <1>5, <1>6, ExceptSeq DEF ProposalsHold
<1>8. /\ \A q \in 1..Len(proposals') : proposals'[q].status = "pending" => q = Len(proposals')
      /\ \A q \in 1..Len(proposals) :
           proposals[q].status # "pending" => proposals'[q].status # "pending"
      /\ Len(proposals) <= Len(proposals') /\ Len(proposals') <= ProposalLimit
      /\ proposals'[p].status # "pending"
  <2>1. [status |-> status].status # "pending"
    OBVIOUS
  <2> QED
    BY <1>1, <1>5, <1>7, <2>1 DEF ProposalsHold
<1>9. UNCHANGED <<inputs, pageShape, refresh, hasty>>
  BY DEF editor, previewer
<1>10. CASE status = "declined" /\ server' = server
  <2>1. PageSaved => PageSaved'
    BY <1>9, <1>10 DEF PageSaved, InServer, Latest
  <2>2. TaskHolds(t)'
    BY <1>1, <1>2, <1>5, <1>7, <1>9, <2>1, TasksDiffer DEF TaskHolds
  <2>3. /\ server' \in Seq(Forms) /\ Len(server) <= Len(server')
        /\ \A v \in 1..Latest : server'[v] = server[v]
        /\ \A v \in 1..Latest' : v \notin 1..Latest => Decisive(server[v].text)'
    BY <1>1, <1>10 DEF ServerHolds, Latest
  <2>4. FormInvariant'
    BY <1>1, <1>4, <1>7, <1>8, <2>2, <2>3, ServedKeeps
  <2> QED
    BY <1>10, <2>4
<1>11. CASE status = "approved" /\ server' # server
  <2>1. /\ proposals[p].status = "pending" /\ p = Len(proposals)
    BY <1>1, <1>2, <1>5, <1>11 DEF ProposalsHold
  <2>2. proposals[p] \in Open \cup Done
    BY <1>1, <1>5, ElementOfSeq DEF ProposalsHold
  <2>3. PICK kind \in Kinds : kind = proposals[p].kind
    BY <2>1, <2>2 DEF Open, Done
  <2>4. PICK old \in Forms : old = server[Latest]
    BY <1>1, ElementOfSeq DEF ServerHolds, Latest
  <2>5. PICK new : new = [old EXCEPT ![kind] = FormEdits + p]
    OBVIOUS
  <2>6. FormEdits + p \in Marks /\ FormEdits + p > FormEdits
    BY <1>5, FormAssumption DEF Marks, ProposalIds
  <2>7. /\ new \in Forms
        /\ new.text = IF kind = "text" THEN FormEdits + p ELSE old.text
    BY <2>3, <2>4, <2>5, <2>6 DEF Forms, Kinds
  <2>8. server' = Append(server, new)
    BY <1>2, <1>11, <2>3, <2>4, <2>5
  <2>9. /\ server' \in Seq(Forms) /\ Len(server') = Len(server) + 1 /\ Latest' = Latest + 1
        /\ server'[Latest + 1] = new
        /\ \A v \in 1..Latest : server'[v] = server[v]
    BY <1>1, <2>7, <2>8 DEF ServerHolds, Latest
  <2>10. UNCHANGED replaced
    BY DEF editor
  <2>11. /\ \A x \in Marks : Decisive(x) => Decisive(x)'
         /\ \A k, x : InServer(k, x) => InServer(k, x)'
    <3>1. Len(server) <= Len(server') /\ Len(proposals) <= Len(proposals') /\ Len(proposals') \in Nat
      BY <1>1, <1>7, <2>9 DEF ProposalsHold, Latest
    <3> QED
      BY <1>8, <2>9, <2>10, <3>1, GrowingKeeps
  <2>12. Decisive(old.text) /\ old.text \in Marks
    BY <1>1, <2>4, FormParts DEF ServerHolds
  <2>13. Decisive(new.text)'
    <3>1. CASE kind = "text"
      <4>1. new.text - FormEdits = p
        BY <2>7, <3>1, <1>5, FormAssumption
      <4> QED
        BY <1>5, <1>7, <1>8, <4>1 DEF Decisive
    <3>2. CASE kind # "text"
      BY <2>7, <2>11, <2>12, <3>2
    <3> QED
      BY <3>1, <3>2
  <2>14. \A v \in 1..Latest' : v \notin 1..Latest => Decisive(server[v].text)'
    <3>2. \A v \in 1..Latest' : v \notin 1..Latest => v = Latest + 1
      BY <1>1, <2>9
    <3>3. server'[Latest'] = new
      BY <2>9
    <3>4. Decisive(server[Latest].text)'
      BY <2>13, <3>3 DEF Decisive
    <3> QED
      BY <2>9, <3>2, <3>4 DEF Decisive
  <2>15. PageSaved => PageSaved'
    BY <1>9, <2>11 DEF PageSaved
  <2>16. TaskHolds(t)'
    BY <1>1, <1>2, <1>5, <1>7, <1>9, <2>15, TasksDiffer DEF TaskHolds
  <2>17. FormInvariant'
    <3>1. Len(server) <= Len(server')
      BY <1>1, <2>9 DEF Latest
    <3> QED
      BY <1>1, <1>4, <1>7, <1>8, <2>9, <2>14, <2>16, <3>1, ServedKeeps
  <2>18. new.text = old.text \/ new.text > old.text \/ ~(old.text > FormEdits)
    <3>1. ASSUME kind = "text", old.text > FormEdits
          PROVE  new.text > old.text
      <4>1. old.text - FormEdits \in 1..Len(proposals) /\ proposals[old.text - FormEdits].status # "pending"
        BY <2>12, <3>1 DEF Decisive
      <4>2. old.text - FormEdits < p
        BY <1>5, <2>1, <2>12, <4>1, FormAssumption DEF Marks
      <4> QED
        BY <1>5, <2>7, <2>12, <3>1, <4>2, FormAssumption DEF Marks
    <3> QED
      BY <2>7, <3>1
  <2> QED
    BY <2>4, <2>9, <2>17, <2>18
<1>12. CASE status = "approved" /\ server' = server
  <2>1. FALSE
    <3>1. server' = Append(server, [server[Latest] EXCEPT ![proposals[p].kind] = FormEdits + p])
      BY <1>2, <1>12
    <3>2. Len(server') = Len(server) + 1
      BY <1>1, <3>1 DEF ServerHolds, Latest
    <3> QED
      BY <1>1, <1>12, <3>2 DEF Latest
  <2> QED
    BY <2>1
<1> QED
  BY <1>2, <1>10, <1>11, <1>12

-----------------------------------------------------------------------------
(* The theorems.                                                           *)

(***************************************************************************)
(* Every step keeps the invariant.                                         *)
(***************************************************************************)
LEMMA FormInvariantStep == FormInvariant /\ [FormNext]_formVars => FormInvariant'
<1> SUFFICES ASSUME FormInvariant, [FormNext]_formVars
             PROVE  FormInvariant'
  OBVIOUS
<1>1. CASE TypeText
  BY <1>1, TypeTextKeeps
<1>2. CASE Reshape
  BY <1>2, ReshapeKeeps
<1>3. CASE SendRefresh \/ AdoptRefresh \/ LoseRefresh
  BY <1>3, RefreshKeeps
<1>4. CASE SendChat \/ PreviewAction
             \/ \E p \in ProposalIds, decision \in {"approve", "reject"} : Decide(p, decision)
  BY <1>4, SendTaskKeeps
<1>5. CASE Serve
  <2>1. UNCHANGED <<editor, sync, renderedVersion, panel, previewer, cards, refreshed>>
    BY <1>5 DEF Serve
  <2>2. ASSUME NEW t \in Tasks, ServePut(t) \/ ServeLatest(t)
        PROVE  FormInvariant'
    BY <2>1, <2>2, ServePutKeeps, ServeLatestKeeps
  <2>3. ASSUME NEW kind \in Kinds \cup {Missing}, ServeChat(kind)
        PROVE  FormInvariant'
    BY <2>1, <2>3, ServeChatKeeps
  <2>4. ASSUME NEW p \in ProposalIds, ServeDecision(p)
        PROVE  FormInvariant'
    BY <2>1, <2>4, ServeDecisionKeeps
  <2> QED
    BY <1>5, <2>2, <2>3, <2>4 DEF Serve
<1>6. ASSUME NEW t \in Tasks, Saved(t) \/ Fail(t)
      PROVE  FormInvariant'
  BY <1>6, SavedKeeps, FailKeeps
<1>7. CASE ChatAnswered \/ PreviewAnswered \/ \E p \in ProposalIds : Decided(p)
  BY <1>7, AnsweredKeeps
<1>8. ASSUME NEW p \in ProposalIds, AdoptLatest(p)
      PROVE  FormInvariant'
  BY <1>8, AdoptLatestKeeps
<1>9. CASE UNCHANGED formVars
  <2>1. /\ ServerHolds' /\ ProposalsHold' /\ PageHolds'
        /\ calls' = [t \in Tasks |-> calls'[t]]
    BY <1>9 DEF formVars, FormInvariant, ServerHolds, ProposalsHold, PageHolds, Decisive, Fits, Agree,
                Standing, PageSaved, InServer, Latest
  <2>2. ASSUME NEW t \in Tasks
        PROVE  TaskHolds(t)'
    <3>1. TaskHolds(t) /\ calls'[t] = calls[t]
      BY <1>9 DEF formVars, FormInvariant
    <3>2. Len(server) \in Nat /\ Len(proposals) \in Nat /\ server \in Seq(Forms)
      BY DEF FormInvariant, ServerHolds, ProposalsHold
    <3> QED
      BY <1>9, <3>1, <3>2, CallGrows DEF formVars
  <2> QED
    BY <2>1, <2>2 DEF FormInvariant
<1> QED
  BY <1>1, <1>2, <1>3, <1>4, <1>5, <1>6, <1>7, <1>8, <1>9 DEF FormNext

(***************************************************************************)
(* The page's form, the server's versions, and every call between them     *)
(* stay in step, whatever is typed, saved, proposed, decided or lost.      *)
(***************************************************************************)
THEOREM FormInvariantHolds == FormSpec => []FormInvariant
BY FormInvariantInit, FormInvariantStep, PTL DEF FormSpec

(***************************************************************************)
(* FormTypeOK: what the page holds is typed, and every version it names    *)
(* exists at the server.                                                   *)
(***************************************************************************)
THEOREM FormTypesHold == FormSpec => []FormTypeOK
<1>1. ASSUME FormInvariant
      PROVE  FormTypeOK
  <2>1. \A v \in 1..Latest : server[v] \in Forms
    BY <1>1, ElementOfSeq DEF FormInvariant, ServerHolds, Latest
  <2>2. \A t \in Tasks : calls[t].at \in {"idle", "put", "act", "get"}
    BY <1>1 DEF FormInvariant, TaskHolds
  <2> QED
    BY <1>1, <2>1, <2>2 DEF FormInvariant, PageHolds, ProposalsHold, FormTypeOK
<1> QED
  BY <1>1, FormInvariantHolds, PTL

(***************************************************************************)
(* WordShowsServerSnapshot: a Word file is made of a preview that shows    *)
(* the version the page holds as the server has it.                        *)
(***************************************************************************)
THEOREM WordShowsServerSnapshotHolds == FormSpec => []WordShowsServerSnapshot
<1>1. ASSUME FormInvariant
      PROVE  WordShowsServerSnapshot
  <2>1. SUFFICES ASSUME panel.version = pageVersion
                 PROVE  panel.form = server[pageVersion]
    BY DEF WordShowsServerSnapshot, HasPreviewDomForWord
  <2>2. pageVersion \in 1..Latest /\ (panel.version # Missing => panel.form = server[panel.version])
    BY <1>1 DEF FormInvariant, PageHolds
  <2>3. pageVersion # Missing
    BY <2>2, FormAssumption
  <2> QED
    BY <2>1, <2>2, <2>3
<1> QED
  BY <1>1, FormInvariantHolds, PTL

(***************************************************************************)
(* Only a save and an approval add a version, and a save while the page    *)
(* has not been overtaken puts no text back from before an approval.       *)
(***************************************************************************)
LEMMA ApprovedTextStep ==
  ASSUME FormInvariant, FormNext, server' # server, ~overtaken,
         server[Latest].text > FormEdits,
         server'[Len(server')].text < server[Latest].text
  PROVE  server[Latest].text \in replaced
<1>1. Serve
  BY DEF FormNext, TypeText, Reshape, Edited, SendRefresh, AdoptRefresh, LoseRefresh, SendChat,
         PreviewAction, Decide, Begin, Saved, Fail, ChatAnswered, PreviewAnswered, Decided, AdoptLatest
<1>2. UNCHANGED <<editor, sync, renderedVersion, panel, previewer, cards, refreshed>>
  BY <1>1 DEF Serve
<1>3. Latest \in Nat /\ Latest >= 1 /\ server \in Seq(Forms)
  BY DEF FormInvariant, ServerHolds, Latest
<1>4. server[Latest] \in Forms /\ server[Latest].text \in Marks
  BY <1>3, ElementOfSeq, FormParts DEF Latest
<1>5. ASSUME NEW t \in Tasks, ServePut(t)
      PROVE  server[Latest].text \in replaced
  <2>1. /\ calls[t].at = "put" /\ calls[t].answer = Missing /\ calls[t].expected = Latest
        /\ server' = Append(server, calls[t].draft)
    BY <1>5 DEF ServePut
  <2>2. PutHolds(calls[t])
    BY <2>1, FormAssumption DEF FormInvariant, TaskHolds, SavedHolds
  <2>3. calls[t].draft \in Forms /\ calls[t].draft.text \in Marks
    BY <2>2, FormParts DEF PutHolds
  <2>4. server'[Len(server')] = calls[t].draft
    BY <1>3, <2>1, <2>3
  <2>5. Agree(calls[t].draft.text, server[Latest].text)
    BY <2>1, <2>2 DEF PutHolds, Fits
  <2> QED
    BY <1>4, <2>3, <2>4, <2>5 DEF Agree, Standing, Marks
<1>6. ASSUME NEW p \in ProposalIds, ServeDecision(p)
      PROVE  server[Latest].text \in replaced
  <2>1. /\ Len(server') = Len(server) + 1
        /\ \/ server'[Latest + 1].text = server[Latest].text
           \/ server'[Latest + 1].text > server[Latest].text
           \/ ~(server[Latest].text > FormEdits)
    BY <1>2, <1>6, ServeDecisionKeeps
  <2>2. FormInvariant' /\ Latest' = Latest + 1 /\ Latest + 1 \in 1..Latest'
    BY <1>2, <1>3, <1>6, <2>1, ServeDecisionKeeps DEF Latest
  <2>3. server'[Latest + 1] \in Forms
    BY <2>2, ElementOfSeq DEF FormInvariant, ServerHolds, Latest
  <2>4. server'[Latest + 1].text \in Marks
    BY <2>3, FormParts
  <2> QED
    BY <1>4, <2>1, <2>2, <2>4, FormAssumption DEF Marks, Latest
<1> QED
  BY <1>1, <1>5, <1>6 DEF Serve, ServeLatest, ServeChat

(***************************************************************************)
(* ApprovedTextStays: a text that an approval wrote is not taken back by a *)
(* save of the form, as long as answers came in the order of versions.     *)
(***************************************************************************)
THEOREM ApprovedTextStaysHolds == FormSpec => ApprovedTextStays
<1> DEFINE Stays == server' # server /\ ~overtaken =>
                      LET old == server[Latest].text
                          new == server'[Len(server')].text
                      IN  old > FormEdits /\ new < old => old \in replaced
<1>1. FormInvariant /\ [FormNext]_formVars => [Stays]_formVars
  BY ApprovedTextStep
<1> QED
  BY <1>1, FormInvariantHolds, PTL DEF FormSpec, ApprovedTextStays

(***************************************************************************)
(* UnsavedInputIsKept: the request that replaces the form replaces no edit *)
(* of a user who waited for the answers, unless the server has that edit.  *)
(***************************************************************************)
THEOREM UnsavedInputIsKeptHolds == FormSpec => UnsavedInputIsKept
<1> DEFINE IsKept == ~hasty /\ syncedVersion' # syncedVersion /\ PageForm' # PageForm =>
                       \A k \in Kinds : PageForm[k] \in EditMarks =>
                         \E v \in 1..Latest : server[v][k] = PageForm[k]
<1>1. ASSUME FormInvariant, FormNext, ~hasty, syncedVersion' # syncedVersion, PageForm' # PageForm
      PROVE  \A k \in Kinds : PageForm[k] \in EditMarks =>
               \E v \in 1..Latest : server[v][k] = PageForm[k]
  <2>1. \E p \in ProposalIds : AdoptLatest(p)
    BY <1>1 DEF FormNext, TypeText, Reshape, Edited, SendRefresh, AdoptRefresh, LoseRefresh, SendChat,
                PreviewAction, Decide, Begin, Serve, Saved, Fail, ChatAnswered, PreviewAnswered, Decided,
                PageForm, editor, sync
  <2>2. PICK p \in ProposalIds : AdoptLatest(p)
    BY <2>1
  <2>3. PageSaved
    BY <1>1, <2>2, TasksDiffer DEF AdoptLatest, FormInvariant, TaskHolds
  <2> QED
    BY <2>3 DEF PageSaved, InServer, PageForm, Kinds
<1>2. FormInvariant /\ [FormNext]_formVars => [IsKept]_formVars
  BY <1>1
<1> QED
  BY <1>2, FormInvariantHolds, PTL DEF FormSpec, UnsavedInputIsKept

-----------------------------------------------------------------------------
(* ContextForm: what the screens hold.                                     *)

Divisions == {x.division : x \in Leaves} \cup {""}
Names     == {x.lineup : x \in Leaves} \cup {x.platform : x \in Leaves} \cup {""}
Chassis   == {x.chassis : x \in Leaves} \cup {Null, ""}
Context   == [division : Divisions, lineup : Names, platform : Names, chassis : Chassis,
              id : Nat, type : Types \cup {""}, scope : Scopes \cup {""}]
Form      == [ctx : Context, locked : BOOLEAN, kind : {"", "development", "other"},
              project : DOMAIN Projects \cup {Nobody}, number : Nat]
Fields    == {"division", "lineup", "platform", "chassis", "type", "scope"}

(* An id belongs to the path it is kept with, and a scope to the product   *)
(* that has scopes.                                                        *)
Sound(c) ==
  /\ c.id # 0 => Registered(c)
  /\ ~IsWindow(c) => c.scope = ""

(* Two contexts name the same product and analysis; the second may have    *)
(* the scope that the server assumes.                                      *)
Same(c, d) ==
  /\ c.division = d.division /\ c.lineup = d.lineup /\ c.platform = d.platform
  /\ c.id = d.id /\ c.type = d.type
  /\ c.scope # d.scope => IsWindow(c) /\ c.scope = "" /\ d.scope = "indoor"

ScreensHold ==
  /\ stored \in Form /\ Sound(stored.ctx)
  /\ draft \in [ctx : Context, locked : BOOLEAN] /\ Sound(draft.ctx)
  /\ Same(draft.ctx, stored.ctx)
  /\ draft.locked => stored.locked

(* A preview on its way carries what is still chosen.                      *)
PreviewHolds ==
  sent # NoForm => /\ sent \in Form /\ Sound(sent.ctx)
                   /\ Same(sent.ctx, draft.ctx)
                   /\ draft.locked => sent.locked

RequestHolds(q) ==
  /\ q.form \in Form /\ Sound(q.form.ctx)
  /\ q.project \in DOMAIN Projects \cup {Nobody}
  /\ q.kind = "confirm" => ~q.form.locked /\ q.form.ctx.id # 0 /\ q.form.ctx.type \in Types

ContextInvariant ==
  /\ ScreensHold
  /\ PreviewHolds
  /\ \A q \in waiting : RequestHolds(q)
  /\ searches \subseteq Divisions /\ menu \in Divisions
  /\ numbers \in Nat

(***************************************************************************)
(* A field of a context may hold any value of its kind.                    *)
(***************************************************************************)
LEMMA ContextWith ==
  ASSUME NEW c \in Context
  PROVE  /\ \A v \in Divisions : [c EXCEPT !.division = v] \in Context
         /\ \A v \in Names : [c EXCEPT !.lineup = v] \in Context
         /\ \A v \in Names : [c EXCEPT !.platform = v] \in Context
         /\ \A v \in Chassis : [c EXCEPT !.chassis = v] \in Context
         /\ \A v \in Nat : [c EXCEPT !.id = v] \in Context /\ [c EXCEPT !.id = v].id = v
         /\ \A v \in Types \cup {""} : [c EXCEPT !.type = v] \in Context
         /\ \A v \in Scopes \cup {""} : [c EXCEPT !.scope = v] \in Context
BY DEF Context

(***************************************************************************)
(* A context with another scope or analysis type is of the same product.   *)
(***************************************************************************)
LEMMA SameProduct ==
  ASSUME NEW c \in Context, NEW d \in Context,
         c.division = d.division, c.lineup = d.lineup, c.platform = d.platform
  PROVE  /\ Path(c) = Path(d) /\ Below(c) = Below(d) /\ (IsWindow(c) <=> IsWindow(d))
         /\ c.chassis = d.chassis => IdAt(c) = IdAt(d)
         /\ c.chassis = d.chassis /\ c.id = d.id => (Registered(c) <=> Registered(d))
<1>1. Path(c) = Path(d)
  BY DEF Path
<1>2. Below(c) = Below(d) /\ (IsWindow(c) <=> IsWindow(d))
  BY <1>1 DEF Below, IsWindow
<1>3. c.chassis = d.chassis => IdAt(c) = IdAt(d)
  BY <1>2 DEF IdAt
<1> QED
  BY <1>1, <1>2, <1>3 DEF Registered

(***************************************************************************)
(* The server gives a sound state its scope and drops a project that does  *)
(* not fit, and changes nothing else of it (normalize_request_context).    *)
(***************************************************************************)
LEMMA NormalForm ==
  ASSUME NEW form \in Form, Sound(form.ctx)
  PROVE  LET n == NormalContext(form)
         IN /\ n \in Form /\ Sound(n.ctx)
            /\ n.locked = form.locked
            /\ n.ctx.id = form.ctx.id /\ n.ctx.type = form.ctx.type
            /\ n.ctx.division = form.ctx.division /\ n.ctx.lineup = form.ctx.lineup
            /\ n.ctx.platform = form.ctx.platform
            /\ n.ctx.scope = IF ~IsWindow(form.ctx) THEN ""
                             ELSE IF form.ctx.scope \in Scopes THEN form.ctx.scope ELSE "indoor"
<1> DEFINE c == form.ctx
           scope == IF ~IsWindow(c) THEN "" ELSE IF c.scope \in Scopes THEN c.scope ELSE "indoor"
           d == [c EXCEPT !.scope = scope]
           project == IF /\ form.project # Nobody /\ form.kind = "development"
                         /\ Projects[form.project] = c.division THEN form.project ELSE Nobody
           n == NormalContext(form)
<1>1. c \in Context /\ (c.id = 0 \/ Registered(c))
  BY DEF Form, Sound
<1>2. scope \in Scopes \cup {""}
  BY DEF Scopes
<1>3. d \in Context /\ d.scope = scope /\ d.id = c.id /\ d.type = c.type /\ d.chassis = c.chassis
      /\ d.division = c.division /\ d.lineup = c.lineup /\ d.platform = c.platform
  <2> HIDE DEF c, scope
  <2> QED
    BY <1>1, <1>2 DEF Context
<1>4. n = [form EXCEPT !.ctx = d, !.locked = form.locked, !.project = project]
  <2>1. form.locked \in BOOLEAN
    BY DEF Form
  <2>2. c.id = 0 \/ Registered(c) <=> TRUE
    BY <1>1
  <2> QED
    BY <1>1, <2>1, <2>2 DEF NormalContext
<1>5. Sound(d)
  BY <1>1, <1>3, SameProduct DEF Sound
<1>6. project \in DOMAIN Projects \cup {Nobody}
  BY DEF Form
<1> HIDE DEF c, d, project, n
<1>7. n \in Form /\ n.ctx = d /\ n.locked = form.locked
  BY <1>3, <1>4, <1>6 DEF Form
<1> QED
  BY <1>3, <1>5, <1>7 DEF c, n

(***************************************************************************)
(* The id of a sound context is that of one product.                       *)
(***************************************************************************)
LEMMA IdOfOne ==
  ASSUME NEW c \in Context, Registered(c)
  PROVE  \E x \in Leaves : {y \in Leaves : y.id = c.id} = {x}
<1>1. c.id # 0 /\ IdAt(c) = c.id
  BY DEF Registered
<1>2. \E x \in Below(c) : x.chassis = c.chassis
  BY <1>1 DEF IdAt
<1>3. PICK x \in Below(c) : x = CHOOSE y \in Below(c) : y.chassis = c.chassis
  BY <1>2
<1>4. x \in Leaves /\ x.id = c.id
  BY <1>1, <1>2, <1>3 DEF IdAt, Below
<1> QED
  BY <1>4, TaxonomyAssumption

(***************************************************************************)
(* An open state with a registered product and an analysis is confirmed    *)
(* (confirm_request_context_state), and what comes back is sound.          *)
(***************************************************************************)
LEMMA ConfirmedForm ==
  ASSUME NEW form \in Form, NEW number \in Nat, Sound(form.ctx),
         ~form.locked, form.ctx.id # 0, form.ctx.type \in Types
  PROVE  /\ Confirmed(form, number) # {}
         /\ \A g \in Confirmed(form, number) : g \in Form /\ Sound(g.ctx)
<1> DEFINE f == NormalContext(form)
           matches == {x \in Leaves : x.id = f.ctx.id}
           g == [f EXCEPT !.ctx.id = (CHOOSE x \in matches : TRUE).id, !.locked = TRUE,
                          !.number = IF f.number = 0 THEN number ELSE f.number]
<1>1. f \in Form /\ Sound(f.ctx) /\ ~f.locked /\ f.ctx.id # 0 /\ f.ctx.type \in Types
  BY NormalForm
<1> HIDE DEF f
<1>2. f.ctx \in Context /\ Registered(f.ctx)
  BY <1>1 DEF Form, Sound
<1>3. PICK x \in Leaves : matches = {x}
  BY <1>2, IdOfOne
<1>4. Cardinality(matches) = 1 /\ (CHOOSE y \in matches : TRUE).id = f.ctx.id
  <2>1. (CHOOSE y \in matches : TRUE) \in matches
    BY <1>3
  <2> QED
    BY <1>3, <2>1, FS_Singleton
<1>5. Confirmed(form, number) = {g}
  BY <1>1, <1>4 DEF Confirmed, f
<1>6. g \in Form /\ g.ctx = f.ctx
  <2> HIDE DEF matches
  <2>1. [f.ctx EXCEPT !.id = (CHOOSE y \in matches : TRUE).id] = f.ctx
    BY <1>2, <1>4 DEF Context
  <2> DEFINE given == IF f.number = 0 THEN number ELSE f.number
  <2>2. given \in Nat
    BY <1>1 DEF Form
  <2> HIDE DEF given
  <2>3. g = [f EXCEPT !.locked = TRUE, !.number = given]
    BY <1>1, <2>1 DEF Form, given
  <2>4. [f EXCEPT !.locked = TRUE, !.number = given] \in Form
    BY <1>1, <2>2 DEF Form
  <2>5. [f EXCEPT !.locked = TRUE, !.number = given].ctx = f.ctx
    BY <1>1 DEF Form
  <2> QED
    BY <2>3, <2>4, <2>5
<1> QED
  BY <1>1, <1>5, <1>6

(***************************************************************************)
(* A product without further choices gets the id of its only leaf          *)
(* (updateRequestContextDraft).                                            *)
(***************************************************************************)
LEMMA CompletedIsRegistered ==
  ASSUME NEW c \in Context, c.id = 0
  PROVE  LET d == Completed(c)
         IN d \in Context /\ (d.id # 0 => Registered(d))
<1>1. CASE c.platform # "" /\ Cardinality(Below(c)) = 1
  <2>1. Below(c) \subseteq Leaves /\ IsFiniteSet(Below(c))
    BY TaxonomyAssumption, FS_Subset DEF Below
  <2>2. PICK x \in Leaves : Below(c) = {x}
    BY <1>1, <2>1, FS_Singleton
  <2>3. (CHOOSE y \in Below(c) : TRUE) = x
    BY <2>2
  <2> DEFINE d == [c EXCEPT !.chassis = x.chassis, !.id = x.id]
  <2>4. Completed(c) = d
    BY <1>1, <2>3 DEF Completed
  <2>5. x.chassis \in Chassis /\ x.id \in Nat
    BY TaxonomyAssumption DEF Chassis
  <2>6. d \in Context /\ d.chassis = x.chassis /\ d.id = x.id
        /\ d.division = c.division /\ d.lineup = c.lineup /\ d.platform = c.platform
    BY <2>5 DEF Context
  <2> HIDE DEF d
  <2>7. Below(d) = {x}
    BY <2>2, <2>6, SameProduct
  <2>8. IdAt(d) = x.id
    BY <2>6, <2>7 DEF IdAt
  <2> QED
    BY <2>4, <2>6, <2>8 DEF Registered
<1>2. CASE ~(c.platform # "" /\ Cardinality(Below(c)) = 1)
  BY <1>2 DEF Completed
<1> QED
  BY <1>1, <1>2

\* A product without its last name has no id.
LEMMA UnnamedHasNoId ==
  ASSUME NEW c \in Context
  PROVE  Unnamed(c) \in Context /\ Unnamed(c).id = 0
<1>1. Null \in Chassis /\ 0 \in Nat
  BY DEF Chassis
<1>2. [c EXCEPT !.chassis = Null] \in Context
  BY <1>1, ContextWith
<1> DEFINE d == [c EXCEPT !.chassis = Null]
<1>3. Unnamed(c) = [d EXCEPT !.id = 0]
  BY DEF Unnamed
<1> HIDE DEF d
<1>4. d \in Context
  BY <1>2 DEF d
<1> QED
  BY <1>1, <1>3, <1>4, ContextWith

\* The scope goes with the product that has scopes.
LEMMA ScopedIsSound ==
  ASSUME NEW c \in Context, c.id # 0 => Registered(c)
  PROVE  Scoped(c) \in Context /\ Sound(Scoped(c))
<1> DEFINE d == Scoped(c)
<1>1. /\ d \in Context /\ d.id = c.id /\ d.chassis = c.chassis
      /\ d.division = c.division /\ d.lineup = c.lineup /\ d.platform = c.platform
      /\ ~IsWindow(c) => d.scope = ""
  BY DEF Scoped, Context
<1> QED
  BY <1>1, SameProduct DEF Sound

(***************************************************************************)
(* Whatever is chosen next, a sound context stays sound                    *)
(* (updateRequestContextDraft).                                            *)
(***************************************************************************)
LEMMA ChoiceIsSound ==
  ASSUME NEW c \in Context, Sound(c), NEW f \in Fields, NEW v \in Options(c, f)
  PROVE  Scoped(Choice(c, f, v)) \in Context /\ Sound(Scoped(Choice(c, f, v)))
<1>1. CASE f = "division"
  <2>1. v \in Divisions
    BY <1>1 DEF Options, Divisions
  <2> DEFINE e == [c EXCEPT !.division = v]
             g == [e EXCEPT !.lineup = ""]
             d == [c EXCEPT !.division = v, !.lineup = "", !.platform = ""]
  <2>2. d \in Context
    <3>1. e \in Context /\ "" \in Names
      BY <2>1, ContextWith DEF Names
    <3>2. d = [g EXCEPT !.platform = ""]
      OBVIOUS
    <3> HIDE DEF d, e
    <3>3. g \in Context
      BY <3>1, ContextWith
    <3> HIDE DEF g
    <3> QED
      BY <3>1, <3>2, <3>3, ContextWith
  <2>3. Choice(c, f, v) = Unnamed(d)
    BY <1>1 DEF Choice
  <2> HIDE DEF d
  <2> QED
    BY <2>2, <2>3, UnnamedHasNoId, ScopedIsSound
<1>2. CASE f = "lineup"
  <2>1. v \in Names /\ "" \in Names
    BY <1>2 DEF Options, Names
  <2> DEFINE platform == IF c.division \in Derived THEN v ELSE ""
             e == [c EXCEPT !.lineup = v]
             d == [c EXCEPT !.lineup = v, !.platform = platform]
  <2>2. d \in Context
    <3>1. e \in Context /\ platform \in Names
      BY <2>1, ContextWith
    <3>2. d = [e EXCEPT !.platform = platform]
      OBVIOUS
    <3> HIDE DEF d, e, platform
    <3> QED
      BY <3>1, <3>2, ContextWith
  <2>3. Choice(c, f, v) = Completed(Unnamed(d))
    BY <1>2 DEF Choice
  <2> HIDE DEF d
  <2> QED
    BY <2>2, <2>3, UnnamedHasNoId, CompletedIsRegistered, ScopedIsSound
<1>3. CASE f = "platform"
  <2>1. v \in Names
    BY <1>3 DEF Options, Names
  <2> DEFINE d == [c EXCEPT !.platform = v]
  <2>2. d \in Context
    BY <2>1, ContextWith
  <2>3. Choice(c, f, v) = Completed(Unnamed(d))
    BY <1>3 DEF Choice
  <2> HIDE DEF d
  <2> QED
    BY <2>2, <2>3, UnnamedHasNoId, CompletedIsRegistered, ScopedIsSound
<1>4. CASE f = "chassis"
  <2>1. v \in Chassis
    BY <1>4 DEF Options, Below, Chassis
  <2> DEFINE d == [c EXCEPT !.chassis = v]
             e == [c EXCEPT !.chassis = v, !.id = IdAt(d)]
  <2>2. d \in Context
    BY <2>1 DEF Context
  <2>3. IdAt(d) \in Nat
    BY TaxonomyAssumption DEF IdAt, Below
  <2>4. /\ e \in Context /\ e.chassis = d.chassis /\ e.id = IdAt(d)
        /\ e.division = d.division /\ e.lineup = d.lineup /\ e.platform = d.platform
    <3> DEFINE id == IdAt(d)
    <3> HIDE DEF id
    <3>1. [c EXCEPT !.chassis = v, !.id = id] \in Context
      BY <2>1, <2>3 DEF Context, id
    <3>2. /\ [c EXCEPT !.chassis = v, !.id = id].chassis = v
          /\ [c EXCEPT !.chassis = v, !.id = id].id = id
          /\ [c EXCEPT !.chassis = v, !.id = id].division = d.division
          /\ [c EXCEPT !.chassis = v, !.id = id].lineup = d.lineup
          /\ [c EXCEPT !.chassis = v, !.id = id].platform = d.platform
          /\ d.chassis = v
      BY DEF Context
    <3> QED
      BY <3>1, <3>2 DEF id
  <2>5. Choice(c, f, v) = e
    BY <1>4 DEF Choice
  <2> HIDE DEF d, e
  <2>6. IdAt(e) = e.id
    BY <2>2, <2>4, SameProduct
  <2> QED
    BY <2>4, <2>5, <2>6, ScopedIsSound DEF Registered
<1>5. CASE f \in {"type", "scope"}
  <2> DEFINE d == IF f = "type" THEN [c EXCEPT !.type = v] ELSE [c EXCEPT !.scope = v]
  <2>1. IF f = "type" THEN v \in Types ELSE v \in Scopes
    BY <1>5 DEF Options
  <2>2. /\ d \in Context /\ d.chassis = c.chassis /\ d.id = c.id
        /\ d.division = c.division /\ d.lineup = c.lineup /\ d.platform = c.platform
    BY <1>5, <2>1 DEF Context
  <2>3. Choice(c, f, v) = d
    BY <1>5 DEF Choice
  <2> HIDE DEF d
  <2>4. d.id # 0 => Registered(d)
    BY <2>2, SameProduct DEF Sound
  <2> QED
    BY <2>2, <2>3, <2>4, ScopedIsSound
<1> QED
  BY <1>1, <1>2, <1>3, <1>4, <1>5 DEF Fields

(***************************************************************************)
(* Nothing is chosen at first.                                             *)
(***************************************************************************)
LEMMA ContextInvariantInit == ContextInit => ContextInvariant
<1> SUFFICES ASSUME ContextInit
             PROVE  ContextInvariant
  OBVIOUS
<1>1. BlankContext \in Context /\ BlankContext.id = 0 /\ BlankContext.scope = ""
  BY DEF BlankContext, Context, Divisions, Names, Chassis
<1>2. Sound(BlankContext) /\ Same(BlankContext, BlankContext)
  BY <1>1 DEF Sound, Same
<1>3. stored \in Form /\ stored.ctx = BlankContext /\ stored.locked = FALSE
  BY <1>1 DEF ContextInit, Form
<1>4. draft \in [ctx : Context, locked : BOOLEAN] /\ draft.ctx = BlankContext /\ draft.locked = FALSE
  BY <1>1 DEF ContextInit
<1>5. ScreensHold
  BY <1>2, <1>3, <1>4 DEF ScreensHold
<1> QED
  BY <1>5 DEF ContextInit, ContextInvariant, PreviewHolds, Divisions

\* A form's context, lock and project may be any of their kind.
LEMMA FormWith ==
  ASSUME NEW form \in Form, NEW c \in Context, NEW locked \in BOOLEAN,
         NEW project \in DOMAIN Projects \cup {Nobody}
  PROVE  /\ [form EXCEPT !.ctx = c] \in Form
         /\ [form EXCEPT !.ctx = c].ctx = c
         /\ [form EXCEPT !.ctx = c].locked = form.locked
         /\ [form EXCEPT !.project = project] \in Form
         /\ [form EXCEPT !.project = project].ctx = form.ctx
         /\ [form EXCEPT !.project = project].locked = form.locked
         /\ [form EXCEPT !.ctx = c, !.locked = locked] \in Form
         /\ [form EXCEPT !.ctx = c, !.locked = locked].ctx = c
         /\ [form EXCEPT !.ctx = c, !.locked = locked].locked = locked
         /\ [form EXCEPT !.ctx = c, !.locked = locked, !.project = project] \in Form
         /\ [form EXCEPT !.ctx = c, !.locked = locked, !.project = project].ctx = c
         /\ [form EXCEPT !.ctx = c, !.locked = locked, !.project = project].locked = locked
BY DEF Form

(***************************************************************************)
(* A choice on the first screen, which discards the preview on its way.    *)
(***************************************************************************)
LEMMA ChooseKeeps ==
  ASSUME ContextInvariant, NEW f \in Fields, NEW v \in Options(draft.ctx, f), Choose(f, v)
  PROVE  ContextInvariant'
<1>1. /\ stored \in Form /\ draft \in [ctx : Context, locked : BOOLEAN]
      /\ draft.ctx \in Context /\ Sound(draft.ctx) /\ draft.locked = FALSE
  BY DEF ContextInvariant, ScreensHold, Choose
<1>2. PICK c \in Context : c = draft.ctx
  BY <1>1
<1>3. PICK next : next = Scoped(Choice(c, f, v))
  OBVIOUS
<1>4. next \in Context /\ Sound(next) /\ Same(next, next)
  BY <1>1, <1>2, <1>3, ChoiceIsSound DEF Same
<1>5. PICK project \in DOMAIN Projects \cup {Nobody} : project = ProjectAfter(f)
  BY <1>1 DEF Form, ProjectAfter
<1>6. /\ draft' = [draft EXCEPT !.ctx = next]
      /\ stored' = [stored EXCEPT !.ctx = next, !.locked = draft.locked, !.project = project]
      /\ sent' = NoForm
      /\ UNCHANGED <<waiting, searches, menu, numbers>>
  BY <1>2, <1>3, <1>5 DEF Choose, ChoiceMade
<1>7. stored' \in Form /\ stored'.ctx = next /\ stored'.locked = FALSE
  <2>1. PICK form \in Form : form = stored
    BY <1>1
  <2>2. PICK locked \in BOOLEAN : locked = FALSE
    OBVIOUS
  <2> DEFINE g == [form EXCEPT !.ctx = next, !.locked = locked, !.project = project]
  <2>3. stored' = g
    BY <1>1, <1>6, <2>1, <2>2
  <2>4. g \in Form /\ g.ctx = next /\ g.locked = locked
    BY <1>4 DEF Form
  <2> QED
    BY <2>2, <2>3, <2>4
<1>8. draft' \in [ctx : Context, locked : BOOLEAN] /\ draft'.ctx = next /\ draft'.locked = FALSE
  BY <1>1, <1>4, <1>6
<1>9. ScreensHold'
  BY <1>4, <1>7, <1>8 DEF ScreensHold
<1> QED
  BY <1>6, <1>9 DEF ContextInvariant, PreviewHolds

(***************************************************************************)
(* What is shown is read once more, and sent to be confirmed when nothing  *)
(* is missing (syncQuickPrepSelectionsToDraft).                            *)
(***************************************************************************)
LEMMA ConfirmKeeps ==
  ASSUME ContextInvariant, Confirm
  PROVE  ContextInvariant'
<1>1. /\ stored \in Form /\ draft \in [ctx : Context, locked : BOOLEAN]
      /\ draft.ctx \in Context /\ Sound(draft.ctx) /\ draft.locked = FALSE
  BY DEF ContextInvariant, ScreensHold, Confirm
<1>2. PICK c \in Context : c = draft.ctx
  BY <1>1
<1>3. PICK chassis \in Chassis : chassis = IF c.id = 0 /\ c.chassis = Null THEN "" ELSE c.chassis
  BY DEF Chassis, Context
<1>4. PICK shown : shown = [c EXCEPT !.chassis = chassis]
  OBVIOUS
<1>5. /\ shown \in Context /\ shown.id = c.id /\ shown.type = c.type /\ shown.scope = c.scope
      /\ shown.division = c.division /\ shown.lineup = c.lineup /\ shown.platform = c.platform
      /\ c.id # 0 => shown.chassis = c.chassis
  BY <1>3, <1>4 DEF Context
<1>6. Sound(shown) /\ Same(shown, shown)
  BY <1>1, <1>2, <1>5, SameProduct DEF Sound, Same
<1>7. PICK locked \in BOOLEAN : locked = FALSE
  OBVIOUS
<1>8. PICK form : form = [stored EXCEPT !.ctx = shown, !.locked = locked]
  OBVIOUS
<1>9. form \in Form /\ form.ctx = shown /\ form.locked = FALSE
  BY <1>1, <1>5, <1>7, <1>8, FormWith DEF Form
<1>10. /\ draft' = [draft EXCEPT !.ctx = shown]
       /\ stored' = form
       /\ UNCHANGED <<sent, searches, menu, numbers>>
  BY <1>1, <1>2, <1>3, <1>4, <1>7, <1>8 DEF Confirm, WithDraft
<1>11. \/ waiting' = waiting
       \/ /\ ~Unchosen(shown)
          /\ \E at : waiting' = waiting \cup
               {[kind |-> "confirm", form |-> form, project |-> Nobody, at |-> at]}
  BY <1>1, <1>2, <1>3, <1>4, <1>7, <1>8 DEF Confirm, WithDraft
<1>12. draft' \in [ctx : Context, locked : BOOLEAN] /\ draft'.ctx = shown /\ draft'.locked = FALSE
  BY <1>1, <1>5, <1>10
<1>13. ScreensHold'
  BY <1>6, <1>9, <1>10, <1>12 DEF ScreensHold
<1>14. PreviewHolds'
  <2>1. Same(sent.ctx, c) => Same(sent.ctx, shown)
    BY <1>5 DEF Same
  <2> QED
    BY <1>2, <1>10, <1>12, <2>1 DEF ContextInvariant, PreviewHolds
<1>15. ASSUME NEW q \in waiting'
       PROVE  RequestHolds(q)
  <2>1. CASE q \in waiting
    BY <2>1 DEF ContextInvariant
  <2>2. CASE q \notin waiting
    <3>1. /\ q.kind = "confirm" /\ q.form = form /\ q.project = Nobody
          /\ ~Unchosen(shown)
      BY <1>11, <1>15, <2>2
    <3>2. shown.id # 0 /\ shown.type \in Types
      BY <1>5, <3>1 DEF Unchosen, Context
    <3> QED
      BY <1>6, <1>9, <3>1, <3>2 DEF RequestHolds
  <2> QED
    BY <2>1, <2>2
<1> QED
  BY <1>10, <1>13, <1>14, <1>15 DEF ContextInvariant

(***************************************************************************)
(* An answer is adopted as it is: the two records agree, and the preview   *)
(* on its way is discarded.                                                *)
(***************************************************************************)
LEMMA AdoptedKeeps ==
  ASSUME ContextInvariant, NEW form \in Form, Sound(form.ctx), Adopted(form), sent' = NoForm,
         waiting' \subseteq waiting, UNCHANGED <<searches, menu>>, numbers' \in Nat
  PROVE  ContextInvariant'
<1>1. /\ stored' = form
      /\ draft' = [ctx |-> form.ctx, locked |-> form.locked]
      /\ form.ctx \in Context /\ form.locked \in BOOLEAN
  BY DEF Adopted, Form
<1>2. draft' \in [ctx : Context, locked : BOOLEAN] /\ draft'.ctx = form.ctx /\ draft'.locked = form.locked
  BY <1>1
<1>3. Same(form.ctx, form.ctx)
  BY DEF Same
<1>4. ScreensHold'
  BY <1>1, <1>2, <1>3 DEF ScreensHold
<1> QED
  BY <1>4 DEF ContextInvariant, PreviewHolds

(***************************************************************************)
(* The answer to a confirmation locks what was confirmed.                  *)
(***************************************************************************)
LEMMA ConfirmAnsweredKeeps ==
  ASSUME ContextInvariant, NEW q \in waiting, ConfirmAnswered(q)
  PROVE  ContextInvariant'
<1>1. /\ q.form \in Form /\ Sound(q.form.ctx)
      /\ ~q.form.locked /\ q.form.ctx.id # 0 /\ q.form.ctx.type \in Types
  BY DEF ContextInvariant, RequestHolds, ConfirmAnswered
<1>2. PICK number \in Nat : number = numbers + 1
  BY DEF ContextInvariant
<1>3. PICK form \in Confirmed(q.form, number) :
        Adopted(form) /\ numbers' = IF form.number > numbers THEN numbers + 1 ELSE numbers
  BY <1>2 DEF ConfirmAnswered
<1>4. form \in Form /\ Sound(form.ctx)
  BY <1>1, <1>3, ConfirmedForm
<1>5. /\ sent' = NoForm /\ waiting' \subseteq waiting /\ UNCHANGED <<searches, menu>>
      /\ numbers' \in Nat
  BY <1>2, <1>3 DEF ConfirmAnswered, ContextInvariant
<1> QED
  BY <1>3, <1>4, <1>5, AdoptedKeeps

(***************************************************************************)
(* A selected project comes back with the state it was sent with.          *)
(***************************************************************************)
LEMMA SelectAnsweredKeeps ==
  ASSUME ContextInvariant, NEW q \in waiting, SelectAnswered(q)
  PROVE  ContextInvariant'
<1>1. /\ q.form \in Form /\ Sound(q.form.ctx)
      /\ q.project \in DOMAIN Projects \cup {Nobody}
      /\ waiting' \subseteq waiting /\ UNCHANGED <<searches, menu, numbers>> /\ numbers \in Nat
  BY DEF ContextInvariant, RequestHolds, SelectAnswered
<1>2. ASSUME NEW form \in Selected(q.form, q.project), Adopted(form), sent' = NoForm
      PROVE  ContextInvariant'
  <2> DEFINE f == [q.form EXCEPT !.project = q.project]
  <2>1. f \in Form /\ f.ctx = q.form.ctx
    BY <1>1 DEF Form
  <2>2. form = NormalContext(f)
    BY <1>2 DEF Selected
  <2> HIDE DEF f
  <2>3. form \in Form /\ Sound(form.ctx)
    BY <1>1, <2>1, <2>2, NormalForm
  <2> QED
    BY <1>1, <1>2, <2>3, AdoptedKeeps
<1>3. CASE UNCHANGED <<stored, draft, due, sent>>
  BY <1>1, <1>3 DEF ContextInvariant, ScreensHold, PreviewHolds
<1> QED
  BY <1>2, <1>3 DEF SelectAnswered

(***************************************************************************)
(* Unlocking takes up the state that is kept, the assumed scope included.  *)
(***************************************************************************)
LEMMA UnlockKeeps ==
  ASSUME ContextInvariant, Unlock
  PROVE  ContextInvariant'
<1>1. /\ stored \in Form /\ stored.ctx \in Context /\ Sound(stored.ctx)
      /\ Same(draft.ctx, stored.ctx)
  BY DEF ContextInvariant, ScreensHold, Form
<1>2. /\ draft' = [ctx |-> stored.ctx, locked |-> FALSE]
      /\ stored' = [stored EXCEPT !.locked = FALSE]
      /\ UNCHANGED <<sent, waiting, searches, menu, numbers>>
  BY DEF Unlock
<1>3. stored' \in Form /\ stored'.ctx = stored.ctx /\ stored'.locked = FALSE
  BY <1>1, <1>2 DEF Form
<1>4. draft' \in [ctx : Context, locked : BOOLEAN] /\ draft'.ctx = stored.ctx /\ draft'.locked = FALSE
  BY <1>1, <1>2
<1>5. Same(stored.ctx, stored.ctx)
  BY DEF Same
<1>6. ScreensHold'
  BY <1>1, <1>3, <1>4, <1>5 DEF ScreensHold
<1>7. PreviewHolds'
  <2>1. SUFFICES ASSUME sent # NoForm
                 PROVE  sent \in Form /\ Sound(sent.ctx) /\ Same(sent.ctx, stored.ctx)
    BY <1>2, <1>4 DEF PreviewHolds
  <2>2. sent \in Form /\ Sound(sent.ctx) /\ sent.ctx \in Context /\ Same(sent.ctx, draft.ctx)
    BY <2>1 DEF ContextInvariant, PreviewHolds, Form
  <2>3. draft.ctx \in Context
    BY DEF ContextInvariant, ScreensHold
  <2>4. IsWindow(sent.ctx) <=> IsWindow(draft.ctx)
    BY <2>2, <2>3, SameProduct DEF Same
  <2>5. Same(sent.ctx, stored.ctx)
    BY <1>1, <2>2, <2>4 DEF Same
  <2> QED
    BY <2>2, <2>5
<1> QED
  BY <1>2, <1>6, <1>7 DEF ContextInvariant

(***************************************************************************)
(* The preview is sent with what the page shows; its answer, of a page     *)
(* that was not edited since, may bring the scope the server assumes       *)
(* (schedulePreviewRefresh, normalize_request_context).                    *)
(***************************************************************************)
LEMMA PreviewKeeps ==
  ASSUME ContextInvariant, SendPreview \/ ContextPreviewed
  PROVE  ContextInvariant'
<1>1. /\ stored \in Form /\ draft.ctx \in Context /\ Sound(draft.ctx)
      /\ draft.locked => stored.locked
  BY DEF ContextInvariant, ScreensHold
<1>2. CASE SendPreview
  <2> DEFINE form == [stored EXCEPT !.ctx = draft.ctx]
  <2>1. form \in Form /\ form.ctx = draft.ctx /\ form.locked = stored.locked
    BY <1>1 DEF Form
  <2>2. sent' = form /\ UNCHANGED <<stored, draft, waiting, searches, menu, numbers>>
    BY <1>2 DEF SendPreview, CollectedContext
  <2>3. Same(draft.ctx, draft.ctx)
    BY DEF Same
  <2> HIDE DEF form
  <2> QED
    BY <1>1, <2>1, <2>2, <2>3 DEF ContextInvariant, ScreensHold, PreviewHolds
<1>3. CASE ContextPreviewed
  <2>1. /\ sent \in Form /\ Sound(sent.ctx) /\ Same(sent.ctx, draft.ctx) /\ sent.ctx \in Context
        /\ draft.locked => sent.locked
    BY <1>3 DEF ContextPreviewed, ContextInvariant, PreviewHolds, Form
  <2>2. PICK form \in Form : form = sent
    BY <2>1
  <2>3. /\ stored' = NormalContext(form) /\ sent' = NoForm
        /\ UNCHANGED <<draft, waiting, searches, menu, numbers>>
    BY <1>3, <2>2 DEF ContextPreviewed
  <2>4. /\ stored' \in Form /\ Sound(stored'.ctx) /\ stored'.locked = form.locked
        /\ stored'.ctx.id = form.ctx.id /\ stored'.ctx.type = form.ctx.type
        /\ stored'.ctx.division = form.ctx.division /\ stored'.ctx.lineup = form.ctx.lineup
        /\ stored'.ctx.platform = form.ctx.platform
        /\ stored'.ctx.scope = IF ~IsWindow(form.ctx) THEN ""
                               ELSE IF form.ctx.scope \in Scopes THEN form.ctx.scope ELSE "indoor"
    BY <2>1, <2>2, <2>3, NormalForm
  <2>5. IsWindow(form.ctx) <=> IsWindow(draft.ctx)
    BY <1>1, <2>1, <2>2, SameProduct DEF Same
  <2>6. draft.ctx.scope # stored'.ctx.scope =>
          IsWindow(draft.ctx) /\ draft.ctx.scope = "" /\ stored'.ctx.scope = "indoor"
    <3>1. CASE ~IsWindow(draft.ctx)
      BY <1>1, <2>4, <2>5, <3>1 DEF Sound
    <3>2. CASE IsWindow(draft.ctx) /\ form.ctx.scope \in Scopes
      <4>1. form.ctx.scope # ""
        BY <3>2 DEF Scopes
      <4> QED
        BY <2>1, <2>2, <2>4, <2>5, <3>2, <4>1 DEF Same
    <3>3. CASE IsWindow(draft.ctx) /\ form.ctx.scope \notin Scopes
      <4>1. form.ctx.scope = "" /\ stored'.ctx.scope = "indoor"
        BY <2>1, <2>2, <2>4, <2>5, <3>3 DEF Context
      <4> QED
        BY <2>1, <2>2, <3>3, <4>1 DEF Same
    <3> QED
      BY <3>1, <3>2, <3>3
  <2>7. Same(draft.ctx, stored'.ctx)
    BY <2>1, <2>2, <2>4, <2>6 DEF Same
  <2>8. ScreensHold'
    BY <2>1, <2>2, <2>3, <2>4, <2>7 DEF ScreensHold, ContextInvariant
  <2> QED
    BY <2>3, <2>8 DEF ContextInvariant, PreviewHolds
<1> QED
  BY <1>2, <1>3

(***************************************************************************)
(* On the second screen: the kind and the project are written, a search    *)
(* is for the division chosen, and a selection carries what the page       *)
(* shows.                                                                  *)
(***************************************************************************)
LEMMA ProjectKeeps ==
  ASSUME ContextInvariant,
         \/ \E kind \in {"development", "other"} : ChooseKind(kind)
         \/ TypeProject \/ Search
         \/ \E division \in searches : SearchAnswered(division)
         \/ \E project \in DOMAIN Projects : Select(project)
  PROVE  ContextInvariant'
<1>1. /\ stored \in Form /\ draft.ctx \in Context /\ draft.ctx.division \in Divisions
  BY DEF ContextInvariant, ScreensHold, Context
<1>2. ASSUME NEW kind \in {"development", "other"}, ChooseKind(kind) \/ TypeProject
      PROVE  ContextInvariant'
  <2>1. \/ stored' = [stored EXCEPT !.kind = kind, !.project = Nobody]
        \/ stored' = [stored EXCEPT !.project = Nobody]
    BY <1>2 DEF ChooseKind, TypeProject
  <2>2. stored' \in Form /\ stored'.ctx = stored.ctx /\ stored'.locked = stored.locked
    BY <1>1, <2>1 DEF Form
  <2>3. sent' = NoForm /\ UNCHANGED <<draft, waiting, searches, menu, numbers>>
    BY <1>2 DEF ChooseKind, TypeProject, ChoiceMade
  <2> QED
    BY <2>2, <2>3 DEF ContextInvariant, ScreensHold, PreviewHolds
<1>3. CASE Search
  BY <1>1, <1>3 DEF Search, ContextInvariant, ScreensHold, PreviewHolds
<1>4. ASSUME NEW division \in searches, SearchAnswered(division)
      PROVE  ContextInvariant'
  BY <1>4 DEF SearchAnswered, ContextInvariant, ScreensHold, PreviewHolds
<1>5. ASSUME NEW project \in DOMAIN Projects, Select(project)
      PROVE  ContextInvariant'
  <2> DEFINE form == [stored EXCEPT !.ctx = draft.ctx]
             call == [kind |-> "select", form |-> form, project |-> project, at |-> 0]
  <2>1. form \in Form /\ form.ctx = draft.ctx
    BY <1>1 DEF Form
  <2>2. waiting' = waiting \cup {call} /\ UNCHANGED <<stored, draft, sent, searches, menu, numbers>>
    BY <1>5 DEF Select, CollectedContext
  <2>3. RequestHolds(call)
    <3>1. call.form = form /\ call.project = project /\ call.kind = "select"
      OBVIOUS
    <3> QED
      BY <2>1, <3>1 DEF RequestHolds, ContextInvariant, ScreensHold
  <2> HIDE DEF call
  <2>4. \A q \in waiting' : RequestHolds(q)
    BY <2>2, <2>3 DEF ContextInvariant
  <2> QED
    BY <2>2, <2>4 DEF ContextInvariant, ScreensHold, PreviewHolds
<1> QED
  BY <1>2, <1>3, <1>4, <1>5

(***************************************************************************)
(* Every step keeps the invariant.                                         *)
(***************************************************************************)
LEMMA ContextInvariantStep == ContextInvariant /\ [ContextNext]_contextVars => ContextInvariant'
<1> SUFFICES ASSUME ContextInvariant, [ContextNext]_contextVars
             PROVE  ContextInvariant'
  OBVIOUS
<1>1. ASSUME NEW f \in Fields, NEW v \in Options(draft.ctx, f), Choose(f, v)
      PROVE  ContextInvariant'
  BY <1>1, ChooseKeeps
<1>2. CASE Confirm \/ Unlock
  BY <1>2, ConfirmKeeps, UnlockKeeps
<1>3. ASSUME NEW s \in {1, 2}, GoTo(s)
      PROVE  ContextInvariant'
  BY <1>3 DEF GoTo, ContextInvariant, ScreensHold, PreviewHolds
<1>4. CASE SendPreview \/ ContextPreviewed
  BY <1>4, PreviewKeeps
<1>5. ASSUME NEW q \in waiting, ConfirmAnswered(q) \/ SelectAnswered(q)
      PROVE  ContextInvariant'
  BY <1>5, ConfirmAnsweredKeeps, SelectAnsweredKeeps
<1>6. CASE \/ \E kind \in {"development", "other"} : ChooseKind(kind)
           \/ TypeProject \/ Search
           \/ \E division \in searches : SearchAnswered(division)
           \/ \E project \in DOMAIN Projects : Select(project)
  BY <1>6, ProjectKeeps
<1>7. CASE UNCHANGED contextVars
  BY <1>7 DEF contextVars, ContextInvariant, ScreensHold, PreviewHolds
<1> QED
  BY <1>1, <1>2, <1>3, <1>4, <1>5, <1>6, <1>7 DEF ContextNext, Fields

(***************************************************************************)
(* In every reachable state, for every taxonomy whose ids are its own, an  *)
(* id that the page keeps, previews or sends belongs to the path it is     *)
(* kept with.                                                              *)
(***************************************************************************)
THEOREM ContextInvariantHolds == ContextSpec => []ContextInvariant
<1>1. ContextInit => ContextInvariant
  BY ContextInvariantInit
<1>2. ContextInvariant /\ [ContextNext]_contextVars => ContextInvariant'
  BY ContextInvariantStep
<1> QED
  BY <1>1, <1>2, PTL DEF ContextSpec

(***************************************************************************)
(* The page's two records of what is chosen agree but for a scope the      *)
(* server assumed, however late a preview is answered                      *)
(* (updateRequestContextDraft, invalidatePendingPreviewRefresh).           *)
(***************************************************************************)
THEOREM ContextTypesHold == ContextSpec => []ContextTypeOK
<1>1. ContextInvariant => ContextTypeOK
  <2> SUFFICES ASSUME ContextInvariant
               PROVE  ContextTypeOK
    OBVIOUS
  <2>1. /\ stored.kind \in {"", "development", "other"}
        /\ stored.project \in DOMAIN Projects \cup {Nobody}
        /\ draft.locked => stored.locked
    BY DEF ContextInvariant, ScreensHold, Form
  <2>2. menu \in {x.division : x \in Leaves} \cup {""}
    BY DEF ContextInvariant, Divisions
  <2>3. Same(draft.ctx, stored.ctx)
    BY DEF ContextInvariant, ScreensHold
  <2>4. \A f \in {"division", "lineup", "platform", "id", "type"} : stored.ctx[f] = draft.ctx[f]
    <3>1. /\ stored.ctx["division"] = draft.ctx["division"]
          /\ stored.ctx["lineup"] = draft.ctx["lineup"]
          /\ stored.ctx["platform"] = draft.ctx["platform"]
          /\ stored.ctx["id"] = draft.ctx["id"]
          /\ stored.ctx["type"] = draft.ctx["type"]
      BY <2>3 DEF Same
    <3> QED
      BY <3>1
  <2> QED
    BY <2>1, <2>2, <2>3, <2>4 DEF Same, ContextTypeOK
<1> QED
  BY <1>1, ContextInvariantHolds, PTL

(***************************************************************************)
(* Whatever the page sends to be confirmed the server confirms: what the   *)
(* page looks for (missingContextFields) is all that the server asks for   *)
(* (confirm_request_context_state).                                        *)
(***************************************************************************)
THEOREM ConfirmationsAlwaysSucceed == ContextSpec => []ConfirmationsSucceed
<1>1. ContextInvariant => ConfirmationsSucceed
  <2> SUFFICES ASSUME ContextInvariant, NEW q \in waiting, q.kind = "confirm"
               PROVE  Confirmed(q.form, numbers + 1) # {}
    BY DEF ConfirmationsSucceed
  <2>1. PICK form \in Form : form = q.form
    BY DEF ContextInvariant, RequestHolds
  <2>2. PICK number \in Nat : number = numbers + 1
    BY DEF ContextInvariant
  <2>3. Sound(form.ctx) /\ ~form.locked /\ form.ctx.id # 0 /\ form.ctx.type \in Types
    BY <2>1 DEF ContextInvariant, RequestHolds
  <2>4. Confirmed(form, number) # {}
    BY <2>3, ConfirmedForm
  <2> QED
    BY <2>1, <2>2, <2>4
<1> QED
  BY <1>1, ContextInvariantHolds, PTL
-----------------------------------------------------------------------------
(* The parts side by side.                                                 *)

\* Of the parts side by side, each does what it does on its own.
LEMMA PartsSideBySide ==
  PartsSpec => FormSpec /\ FactsSpec /\ ContextSpec /\ FenceSpec /\ CarriedSpec
<1>1. PartsInit => FormInit /\ FactsInit /\ ContextInit /\ FenceInit /\ CarriedInit
  BY DEF PartsInit
<1>2. [PartsNext]_partsVars => /\ [FormNext]_formVars /\ [FactsNext]_factVars
                               /\ [ContextNext]_contextVars /\ [FenceNext]_fenceVars
                               /\ [CarriedNext]_carriedVars
  BY DEF PartsNext, partsVars
<1> QED
  BY <1>1, <1>2, PTL DEF PartsSpec, FormSpec, FactsSpec, ContextSpec, FenceSpec, CarriedSpec

(***************************************************************************)
(* Every part keeps its types, whichever of them moves, for any values of  *)
(* the constants of all (the facts when requests are served one by one).   *)
(***************************************************************************)
THEOREM PartsTypes == PartsSpec /\ OneAtATime => []PartsTypeOK
<1>1. /\ FormTypeOK /\ FactsTypeOK /\ ContextTypeOK /\ WorkspaceTypeOK /\ CarriedTypeOK
      <=> PartsTypeOK
  BY DEF PartsTypeOK
<1> QED
  BY <1>1, PartsSideBySide, FormTypesHold, FactsTypesHold, ContextTypesHold, WorkspaceTypesHold,
     CarriedTypes, PTL
=============================================================================
