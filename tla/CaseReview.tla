----------------------------- MODULE CaseReview -----------------------------
(***************************************************************************)
(* The browser's review of the Case Matrix.  The user edits products and   *)
(* condition cards on SCREEN-03 and SCREEN-04; 650 ms later the editor's   *)
(* content is sent to the server, whose answer replaces the request held   *)
(* by the page unless the user has edited again meanwhile.  The page       *)
(* compares what it then holds with a baseline, the matrix as the user     *)
(* last confirmed it: a Case whose source changed must be looked at again  *)
(* (REVIEW), a Case whose source is gone must be chosen again (REBUILD).   *)
(* Looking means that the matrix of every affected scope is drawn on       *)
(* SCREEN-05; leaving the screen then makes the matrix the new baseline.   *)
(*                                                                         *)
(* A request revision is what decides whether an answer still counts.  It  *)
(* only ever grows and is only compared for equality, so an answer on its  *)
(* way carries here whether it is still of the current revision, and the   *)
(* timer's own answers are forgotten once they are not.                    *)
(***************************************************************************)
EXTENDS CaseMatrix, FiniteSets

CONSTANTS Values,     \* what a filled-in source may hold
          MaxEdits    \* bound on the user's changes to sources and selections

ASSUME ValuesAssumption == Values \subseteq Nat \ {Unfilled} /\ 1 \in Values /\ MaxEdits \in Nat

VARIABLES
  typed,      \* the sources as they stand in the editor
  held,       \* the request the page holds: content, the sources the last
              \* answer found usable, rows and verdict
  review,     \* what the page knows of the review
  screen,     \* the screen that is open, 3..6
  tab,        \* the scope of the matrix that is drawn
  cardTab,    \* the scope of the condition cards that are drawn
  timer,      \* a preview is due
  flight,     \* the previews on their way, by what waits for them
  failed,     \* history: the last preview of the current revision was lost
  edits       \* the user's changes so far

reviewVars == <<typed, held, review, screen, tab, cardTab, timer, flight, failed, edits>>

Both  == Len(Scopes) = 2
Waits == {"timer", "conditions", "case"}   \* who awaits the answer
Idle  == [on |-> FALSE]                    \* no preview on its way

Unaffected == ""   \* no Case needs to be looked at

NoReview == [status |-> Unaffected, affected |-> {}, key |-> None, rendered |-> {}, lost |-> {}]

Contents == [Sources -> Values \cup {Unfilled}]

-----------------------------------------------------------------------------
(* The impact of what the page holds on the Cases of the baseline.         *)

Live(h) == [s \in h.known |-> h.content[s]]

NamesIn(row, f, s) == row.pick[f] = s \/ (row.pick[f] = None /\ row.lost[f] = s)
Names(row, s) == \E f \in Fields : NamesIn(row, f, s)
Naming(rows, s) == {i \in 1..Len(rows) : Names(rows[i], s)}
CaseId(row) == <<row.scope, row.id>>

Gone(h)     == {s \in DOMAIN review.baseline.sources : s \notin h.known}
Modified(h) == {s \in DOMAIN review.baseline.sources :
                  s \in h.known /\ h.content[s] # review.baseline.sources[s]}

(* The rows the impact is computed on: those held or, when there are none, *)
(* those of the baseline.                                                  *)
ImpactRows(h) == IF h.rows = << >> THEN review.baseline.rows ELSE h.rows

AffectedBy(h, sources) ==
  {CaseId(ImpactRows(h)[i]) : i \in UNION {Naming(ImpactRows(h), s) : s \in sources}}

(* Selections that a deleted source leaves open. *)
LostSelections(h) ==
  {<<CaseId(ImpactRows(h)[x[1]]), x[2]>> :
     x \in {y \in (1..Len(ImpactRows(h))) \X Fields :
              \E s \in Gone(h) : NamesIn(ImpactRows(h)[y[1]], y[2], s)}}

Key(h) == [modified |-> {s \in Modified(h) : Naming(ImpactRows(h), s) # {}},
           cases    |-> AffectedBy(h, Gone(h) \cup Modified(h)),
           live     |-> Live(h)]

SameReview(h) == review.status = "REVIEW" /\ review.key = Key(h)

SideState(h) ==
  CASE AffectedBy(h, Gone(h)) # {} ->
         [status   |-> "REBUILD", affected |-> AffectedBy(h, Gone(h) \cup Modified(h)),
          key      |-> None, rendered |-> {}, lost |-> LostSelections(h)]
    [] AffectedBy(h, Gone(h)) = {} /\ AffectedBy(h, Modified(h)) # {} ->
         [status   |-> "REVIEW", affected |-> AffectedBy(h, Modified(h)), key |-> Key(h),
          rendered |-> IF SameReview(h) THEN review.rendered ELSE {}, lost |-> {}]
    [] OTHER -> NoReview

(* The scope a review opens on: that of the only changed condition scope   *)
(* when no product changed, the first one otherwise.                       *)
PreferredScope(h) ==
  LET changed == Gone(h) \cup Modified(h)
      scopes  == {CardScope[c] : c \in changed \cap Range(Cards)}
  IN  IF changed \cap Range(Products) = {} /\ Cardinality(scopes) = 1
      THEN CHOOSE s \in scopes : TRUE ELSE "indoor"

WithSide(side) ==
  [f \in DOMAIN review |-> IF f \in DOMAIN side THEN side[f] ELSE review[f]]

(* The scope of the error that decides where the user is taken. *)
BlockingScope(h) ==
  IF Both /\ Blocking(h.verdict) # {} THEN FirstBlocking(h.verdict) ELSE None

(* classifyCaseImpact: the review and the tab after h has been adopted,    *)
(* given what it does to the Cases and the scope that has an error.        *)
Reclassified(h, side, blocks) ==
  LET fresh == side.status # Unaffected /\ ~SameReview(h)
      freed == review.blocking # None /\ side.status = "REVIEW" /\ Both
      moved == [WithSide(side) EXCEPT !.blocking = blocks]
  IN  CASE blocks # None -> [review |-> moved, tab |-> blocks]
        [] blocks = None /\ freed -> [review |-> moved, tab |-> PreferredScope(h)]
        [] blocks = None /\ ~freed /\ fresh ->
             [review |-> [moved EXCEPT !.outdoorViewed = FALSE],
              tab    |-> IF Both THEN PreferredScope(h) ELSE tab]
        [] OTHER -> [review |-> moved, tab |-> tab]

Classified(h) ==
  IF review.baseline = None THEN [review |-> review, tab |-> tab]
  ELSE Reclassified(h, SideState(h), BlockingScope(h))

(* The matrix as it stands becomes the baseline. *)
Rebased(r, h) ==
  [f \in DOMAIN r |->
     CASE f = "baseline" -> [sources |-> Live(h), rows |-> h.rows]
       [] f = "blocking" -> None
       [] f \in DOMAIN NoReview -> NoReview[f]
       [] OTHER -> r[f]]

AffectedScopes(r, h) ==
  {h.rows[i].scope : i \in {j \in 1..Len(h.rows) : CaseId(h.rows[j]) \in r.affected}}

(* Drawing the matrix of a scope counts as looking at it when SCREEN-05 is *)
(* the one that is open.                                                   *)
Recorded(r, h, t, onScreen) ==
  IF onScreen /\ r.status = "REVIEW" /\ t \in AffectedScopes(r, h)
  THEN [r EXCEPT !.rendered = @ \cup {t}] ELSE r

Drawn(r, h, t, onScreen) ==
  LET based == IF onScreen /\ r.baseline = None THEN Rebased(r, h) ELSE r
      seen  == Recorded(based, h, t, onScreen)
  IN  IF onScreen /\ Both /\ t = "outdoor" THEN [seen EXCEPT !.outdoorViewed = TRUE] ELSE seen

(* Leaving SCREEN-05 settles a review whose scopes have all been drawn. *)
Settled(r, h) ==
  IF /\ r.status = "REVIEW"
     /\ AffectedScopes(r, h) # {}
     /\ AffectedScopes(r, h) \subseteq r.rendered
  THEN Rebased(r, h) ELSE r

-----------------------------------------------------------------------------
(* What the page collects and what the server answers.                     *)

Captured == [held EXCEPT !.content = typed]

Draft == [content |-> typed, rows |-> held.rows, known |-> held.known]

UsableIn(content) == {s \in Sources : content[s] # Unfilled}

Answered(draft) ==
  LET rows == Normal(draft.rows, draft.content, [s \in Range(Scopes) |-> draft.known])
  IN  [content |-> draft.content, known |-> UsableIn(draft.content), rows |-> rows,
       verdict |-> Verdict(rows, draft.content)]

(* The options the page has: those of the last answer. *)
Offered == [s \in Sources |-> IF s \in held.known THEN 1 ELSE Unfilled]

Sent(w)   == [flight EXCEPT ![w] = [on |-> TRUE, current |-> TRUE, draft |-> Draft]]
Landed(w) == [flight EXCEPT ![w] = Idle]

(* Scheduling a preview makes every answer on its way count for nothing. *)
Scheduled(fl) ==
  [w \in Waits |-> IF fl[w].on /\ w # "timer" THEN [on |-> TRUE, current |-> FALSE] ELSE Idle]

\* Mutant: no preview is scheduled while another is on its way.
ScheduleUnlessSent == /\ timer' = (\A w \in Waits : ~flight[w].on)
                      /\ flight' = Scheduled(flight)
                      /\ failed' = FALSE

Schedule == /\ timer' = TRUE
            /\ flight' = Scheduled(flight)
            /\ failed' = FALSE

Unresolved(r, rows) ==
  {l \in r.lost : \E i \in 1..Len(rows) :
                    CaseId(rows[i]) = l[1] /\ rows[i].pick[l[2]] = None}

Resolved(r, rows) ==
  IF r.status = "REBUILD" /\ Unresolved(r, rows) # {}
  THEN [r EXCEPT !.lost = Unresolved(r, rows)] ELSE r

-----------------------------------------------------------------------------
(* Moving between screens.  Going forward stops at the first screen that   *)
(* is incomplete; on SCREEN-04 and SCREEN-05 that is judged by what is     *)
(* drawn there, and on SCREEN-05 by the last verdict as well.              *)

\* Mutant: SCREEN-05 is judged by the rows that are drawn alone.
IncompleteAsDrawn(n, h, t, ct) ==
  CASE n = 3 -> \E p \in Range(Products) : typed[p] = Unfilled
    [] n = 4 -> \E c \in Range(Cards) : CardScope[c] = ct /\ typed[c] = Unfilled
    [] n = 5 -> LET mine == RowsOf(h.rows, t) IN
                mine = << >> \/ \E i \in 1..Len(mine), f \in Fields : mine[i].pick[f] = None

Incomplete(n, h, t, ct) ==
  CASE n = 3 -> \E p \in Range(Products) : typed[p] = Unfilled
    [] n = 4 -> \E c \in Range(Cards) : CardScope[c] = ct /\ typed[c] = Unfilled
    [] n = 5 -> LET mine == RowsOf(h.rows, t) IN
                \/ mine = << >>
                \/ \E i \in 1..Len(mine), f \in Fields : mine[i].pick[f] = None
                \/ Misconfigured(h.verdict) # {}

Stops(n, h, t, ct) == {m \in 3..(n - 1) : Incomplete(m, h, t, ct)}

(* navigateScreen: the screen and the review after trying to open n. *)
Navigated(n, r, h, t, ct) ==
  IF n > screen /\ Stops(n, h, t, ct) # {}
  THEN [screen |-> CHOOSE m \in Stops(n, h, t, ct) : \A k \in Stops(n, h, t, ct) : m <= k,
        review |-> r]
  ELSE LET left  == IF screen = 5 /\ n # 5 THEN Settled(r, h) ELSE r
           based == IF n = 5 /\ left.baseline = None THEN Rebased(left, h) ELSE left
       IN  [screen |-> n, review |-> Recorded(based, h, t, n = 5)]

-----------------------------------------------------------------------------
Filled == [s \in Sources |-> 1]

(* A request with its products and cards filled in and a Case for every    *)
(* condition, that the user has not yet opened on SCREEN-05.               *)
Everything(h) ==
  LET open == Kept(Cards, {k \in 1..Len(Cards) :
                             Cards[k] \notin Used(h.rows, CardScope[Cards[k]], "condition")})
  IN  h.rows \o [k \in 1..Len(open) |->
        [id |-> FreshIds(RowsOf(h.rows, CardScope[open[k]]), Len(open))[k],
         scope |-> CardScope[open[k]], auto |-> None, lost |-> NoPick,
         pick |-> [f \in Fields |-> IF f = "condition" THEN open[k] ELSE Products[1]]]]

ReviewInit ==
  /\ typed = Filled
  /\ \E first \in {Answered([content |-> Filled, rows |-> << >>, known |-> {}])} :
       held = Answered([content |-> Filled, rows |-> Everything(first), known |-> first.known])
  /\ review = [status |-> Unaffected, affected |-> {}, key |-> None, rendered |-> {}, lost |-> {},
               baseline |-> None, blocking |-> None, outdoorViewed |-> FALSE]
  /\ screen = 4
  /\ tab = Scopes[1]
  /\ cardTab = Scopes[1]
  /\ timer = FALSE
  /\ flight = [w \in Waits |-> Idle]
  /\ failed = FALSE
  /\ edits = 0

Edit(s, v) ==
  /\ edits < MaxEdits
  /\ typed[s] # v
  /\ typed' = [typed EXCEPT ![s] = v]
  /\ edits' = edits + 1
  /\ Schedule
  /\ UNCHANGED <<held, review, screen, tab, cardTab>>

EditProduct(p, v) == screen = 3 /\ Edit(p, v)
EditCard(c, v)    == screen = 4 /\ CardScope[c] = cardTab /\ Edit(c, v)

SwitchCards(s) ==
  /\ screen = 4 /\ Both /\ s # cardTab
  /\ cardTab' = s
  /\ held' = Captured
  /\ UNCHANGED <<typed, review, screen, tab, timer, flight, failed, edits>>

(* A selection in a row that is drawn, among the options it offers. *)
Select(i, f, o) ==
  /\ screen = 5 /\ edits < MaxEdits
  /\ i \in 1..Len(held.rows) /\ held.rows[i].scope = tab
  /\ o \in Range(Options(Offered, tab, f)) /\ o # held.rows[i].pick[f]
  /\ LET rows == [held.rows EXCEPT ![i].pick[f] = o] IN
     /\ held' = [held EXCEPT !.rows = rows]
     /\ review' = Resolved(review, rows)
  /\ edits' = edits + 1
  /\ Schedule
  /\ UNCHANGED <<typed, screen, tab, cardTab>>

AddCase ==
  /\ screen = 5 /\ edits < MaxEdits
  /\ FirstAvailable(held.rows, Offered, tab) # None
  /\ LET new  == [id |-> FreshIds(RowsOf(held.rows, tab), 1)[1], scope |-> tab, auto |-> None,
                  lost |-> NoPick,
                  pick |-> FirstAvailable(held.rows, Offered, tab)]
         next == [Captured EXCEPT !.rows = Append(@, new)]
     IN  /\ held' = next
         /\ review' = Drawn(review, next, tab, TRUE)
  /\ edits' = edits + 1
  /\ Schedule
  /\ UNCHANGED <<typed, screen, tab, cardTab>>

RemoveCase(i) ==
  /\ screen = 5 /\ edits < MaxEdits
  /\ i \in 1..Len(held.rows) /\ held.rows[i].scope = tab
  /\ Len(RowsOf(held.rows, tab)) > 1
  /\ LET next == [Captured EXCEPT !.rows = RemoveAt(@, i)]
     IN  /\ held' = next
         /\ review' = Drawn(review, next, tab, TRUE)
  /\ edits' = edits + 1
  /\ Schedule
  /\ UNCHANGED <<typed, screen, tab, cardTab>>

(* Switching the matrix to a scope stores the selections of the one that   *)
(* was drawn, which schedules a preview, and draws the other.              *)
Switched(r, h, s) == Drawn(Resolved(r, h.rows), h, s, screen = 5)

SwitchTab(s) ==
  /\ screen = 5 /\ Both
  /\ review' = Switched(review, held, s)
  /\ tab' = s
  /\ Schedule
  /\ UNCHANGED <<typed, held, screen, cardTab, edits>>

Open(n) ==
  /\ \E to \in {Navigated(n, review, held, tab, cardTab)} :
       screen' = to.screen /\ review' = to.review
  /\ UNCHANGED <<typed, held, tab, cardTab, timer, flight, failed, edits>>

-----------------------------------------------------------------------------
(* Previews: the timer's own, and those a button waits for.                *)

Fire ==
  /\ timer
  /\ timer' = FALSE
  /\ flight' = Sent("timer")
  /\ UNCHANGED <<typed, held, review, screen, tab, cardTab, failed, edits>>

(* Bound: one button waits for its preview at a time. *)
NoButtonWaits == \A w \in Waits \ {"timer"} : ~flight[w].on

ConfirmConditions ==
  /\ screen = 4 /\ NoButtonWaits
  /\ flight' = Sent("conditions")
  /\ UNCHANGED <<typed, held, review, screen, tab, cardTab, timer, failed, edits>>

ConfirmCase ==
  /\ screen = 5 /\ NoButtonWaits
  /\ flight' = Sent("case")
  /\ UNCHANGED <<typed, held, review, screen, tab, cardTab, timer, failed, edits>>

(* What the page holds after the answer that w waited for: an answer of an *)
(* older revision is thrown away, one of the current revision is adopted,  *)
(* compared with the baseline and drawn.                                   *)
DrawnAnswer(h, c) ==
  [held |-> h, review |-> Drawn(c.review, h, c.tab, screen = 5), tab |-> c.tab, failed |-> FALSE]

AdoptedAnswer(h) == DrawnAnswer(h, Classified(h))

Adopted(w) ==
  IF flight[w].current THEN AdoptedAnswer(Answered(flight[w].draft))
  ELSE [held |-> held, review |-> review, tab |-> tab, failed |-> failed]

AnswerTimer(a) ==
  /\ flight' = Landed("timer")
  /\ held' = a.held /\ review' = a.review /\ tab' = a.tab /\ failed' = a.failed
  /\ UNCHANGED <<typed, screen, cardTab, timer, edits>>

(* "다음" on SCREEN-04: with a condition missing the page stays and shows  *)
(* the scope of the first one, otherwise SCREEN-05 is opened.              *)
AnswerConditions(a) ==
  LET todo == Kept(Cards, {k \in 1..Len(Cards) : a.held.content[Cards[k]] = Unfilled})
      to   == Navigated(5, a.review, a.held, a.tab, cardTab)
  IN  /\ failed' = a.failed
      /\ flight' = Landed("conditions")
      /\ tab' = a.tab
      /\ IF todo # << >>
         THEN /\ cardTab' = IF Both THEN CardScope[todo[1]] ELSE cardTab
              /\ held' = IF cardTab' # cardTab
                         THEN [a.held EXCEPT !.content = typed]
                         ELSE a.held
              /\ review' = a.review
              /\ UNCHANGED screen
         ELSE /\ screen' = to.screen /\ review' = to.review
              /\ held' = a.held
              /\ UNCHANGED cardTab
      /\ UNCHANGED <<typed, timer, edits>>

(* The tab "다음" on SCREEN-05 turns to instead of going on: that of the   *)
(* first issue, or the outdoor one when it has not been looked at.         *)
Refusal(verdict, r) ==
  CASE Misconfigured(verdict) # {} -> FirstBlocking(verdict)
    [] Misconfigured(verdict) = {} /\ verdict.unused # {} -> FirstOf(verdict.unused)
    [] Blocking(verdict) = {} /\ Both /\ ~r.outdoorViewed -> "outdoor"
    [] OTHER -> None

TurnTo(r, a, s) ==
  /\ held' = a.held
  /\ review' = Switched(r, a.held, s)
  /\ tab' = s
  /\ timer' = TRUE /\ failed' = FALSE
  /\ flight' = [Scheduled(flight) EXCEPT !["case"] = Idle]
  /\ UNCHANGED screen

(* "다음" on SCREEN-05.  When nothing is in the way and no review is open  *)
(* the matrix becomes the baseline before SCREEN-06 is opened; r is the    *)
(* review after the answer has been drawn once more.                       *)
AnswerCase(a, r, why) ==
  LET settled == Unresolved(a.review, a.held.rows) = {} /\ a.review.status # "REVIEW"
      to      == Navigated(6, IF settled THEN Rebased(r, a.held) ELSE r, a.held, a.tab, cardTab)
  IN  /\ IF Both /\ why # None /\ (why # a.tab \/ Blocking(a.held.verdict) = {})
         THEN TurnTo(r, a, why)
         ELSE /\ held' = a.held /\ tab' = a.tab /\ failed' = a.failed
              /\ flight' = Landed("case")
              /\ IF why # None THEN review' = r /\ UNCHANGED screen
                 ELSE screen' = to.screen /\ review' = to.review
              /\ UNCHANGED timer
      /\ UNCHANGED <<typed, cardTab, edits>>

(* An answer may not come; nothing asks again.                             *)
Lose(w) ==
  /\ flight[w].on
  /\ flight' = Landed(w)
  /\ failed' = (failed \/ w = "timer")
  /\ UNCHANGED <<typed, held, review, screen, tab, cardTab, timer, edits>>

UserStep ==
  \/ \E p \in Range(Products), v \in Values \cup {Unfilled} : EditProduct(p, v)
  \/ \E c \in Range(Cards), v \in Values \cup {Unfilled} : EditCard(c, v)
  \/ \E s \in Range(Scopes) : SwitchCards(s)
  \/ \E i \in 1..Len(held.rows), f \in Fields, o \in Sources : Select(i, f, o)
  \/ AddCase
  \/ \E i \in 1..Len(held.rows) : RemoveCase(i)
  \/ \E s \in Range(Scopes) : SwitchTab(s)
  \/ \E n \in 3..6 : Open(n)
  \/ ConfirmConditions
  \/ ConfirmCase

PreviewStep ==
  \/ Fire
  \/ \E w \in Waits : Lose(w)
  \/ flight["timer"].on      /\ \E a \in {Adopted("timer")} : AnswerTimer(a)
  \/ flight["conditions"].on /\ \E a \in {Adopted("conditions")} : AnswerConditions(a)

CaseStep ==
  /\ flight["case"].on
  /\ \E a \in {Adopted("case")} : \E r \in {Drawn(a.review, a.held, a.tab, screen = 5)} :
       AnswerCase(a, r, Refusal(a.held.verdict, r))

ReviewNext == UserStep \/ PreviewStep \/ CaseStep

ReviewSpec == ReviewInit /\ [][ReviewNext]_reviewVars

-----------------------------------------------------------------------------
(* Properties.                                                             *)

Rows == [id : Nat \ {0}, scope : Range(Scopes),
         auto : Range(Products) \cup {None},
         pick : [Fields -> Sources \cup {None}], lost : [Fields -> Sources \cup {None}]]

CaseReviewTypeOK ==
  /\ typed \in Contents
  /\ held.content \in Contents /\ held.known \subseteq Sources
  /\ \A i \in 1..Len(held.rows) : held.rows[i] \in Rows
  /\ \A i, j \in 1..Len(held.rows) : i # j => CaseId(held.rows[i]) # CaseId(held.rows[j])
  /\ review.status \in {Unaffected, "REVIEW", "REBUILD"}
  /\ review.rendered \subseteq Range(Scopes)
  /\ screen \in 3..6 /\ tab \in Range(Scopes) /\ cardTab \in Range(Scopes)
  /\ timer \in BOOLEAN /\ failed \in BOOLEAN
  /\ \A w \in Waits : flight[w].on \in BOOLEAN
  /\ edits \in 0..MaxEdits

(* Normalization never answers for the user: a selection changes only when *)
(* its source is gone, when the user makes it, or where none was made; one *)
(* that was taken out is not replaced, not even by the first option.       *)
SelectionsAreTheUsers ==
  [][edits' = edits /\ held'.rows # held.rows =>
       \A i \in 1..Len(held.rows) : \A j \in 1..Len(held'.rows) : \A f \in Fields :
         CaseId(held'.rows[j]) = CaseId(held.rows[i]) =>
           \/ held'.rows[j].pick[f] \in {held.rows[i].pick[f], None}
           \/ held.rows[i].pick[f] = None /\ held.rows[i].lost[f] = None]_reviewVars

(* What the user has typed and the page does not hold is on its way: a     *)
(* preview is due, or one that carries it is under way, or the last one    *)
(* was lost.                                                               *)
NothingIsForgotten ==
  typed # held.content \/ UsableIn(typed) # held.known =>
    \/ timer \/ failed
    \/ \E w \in Waits : flight[w].on /\ flight[w].current /\ flight[w].draft.content = typed

(* SCREEN-06 is entered only with every Case of every scope complete, the  *)
(* scopes that were not drawn included (firstIncompleteScreenBefore).      *)
NoOpenCaseAtPreview ==
  [][screen # 6 /\ screen' = 6
       => \A i \in 1..Len(held'.rows), f \in Fields : held'.rows[i].pick[f] # None]_reviewVars

(* A Case that lost a selection keeps the review open until the user has   *)
(* chosen again, and blocks its scope as long as the page has not been     *)
(* told otherwise.                                                         *)
LostSelectionsBlock ==
  \A i \in 1..Len(held.rows), f \in Fields :
    held.rows[i].lost[f] # None /\ held.rows[i].pick[f] = None
      => held.rows[i].scope \in Misconfigured(held.verdict)
=============================================================================
