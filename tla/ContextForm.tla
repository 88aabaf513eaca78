----------------------------- MODULE ContextForm ----------------------------
(***************************************************************************)
(* The first two screens of the page: the product and the analysis are     *)
(* chosen step by step, confirmed by the server, which locks them, and     *)
(* unlocked again to be changed; of a development request the PMS project  *)
(* is then searched for and selected (ui.py, request_context_confirmation, *)
(* product_taxonomy, pms_project_master, app.py).  The server keeps        *)
(* nothing of it: every call carries the state of the page, and its answer *)
(* replaces it.                                                            *)
(*                                                                         *)
(* Left out: what a search looks for, the approved refresh of the page     *)
(* (FormSync) and the operation mode, whose control is never drawn.        *)
(***************************************************************************)
EXTENDS Integers, FiniteSets

CONSTANTS
  Leaves,       \* the product taxonomy: [id, division, lineup, platform, chassis]
  Derived,      \* the divisions in which the line-up is the platform
  WindowUnit,   \* the product that has scopes: [division, lineup, platform]
  Types,        \* the analysis types that can be chosen
  Projects,     \* the PMS projects: [project -> division]
  ChoiceLimit, WaitLimit   \* bounds

(* Every product has an id of its own (product_taxonomy.json).             *)
ASSUME TaxonomyAssumption ==
  /\ IsFiniteSet(Leaves)
  /\ \A x \in Leaves : x.id \in Nat \ {0}
  /\ \A x, y \in Leaves : x.id = y.id => x = y

VARIABLES
  stored,     \* requestState: [ctx, locked, kind, project, number]
  draft,      \* requestContextDraft: [ctx, locked]
  screen,     \* 1 or 2
  due,        \* the timer of the next preview runs
  sent,       \* the state the preview on its way carries, or NoForm
  waiting,    \* confirmations and selections on their way
  searches,   \* divisions whose projects are being searched
  menu,       \* the division whose projects are offered
  numbers,    \* request numbers given so far
  choices     \* what the user has done so far (bound)

contextVars == <<stored, draft, screen, due, sent, waiting, searches, menu, numbers, choices>>

Scopes == {"indoor", "outdoor", "both"}
Null   == "null"        \* the chassis of a product that has none
Nobody == "none"        \* no project
NoForm == [ctx |-> <<>>]
BlankContext  == [division |-> "", lineup |-> "", platform |-> "", chassis |-> Null, id |-> 0,
           type |-> "", scope |-> ""]

----------------------------------------------------------------------------
(* The taxonomy.                                                           *)
Path(c)     == <<c.division, c.lineup, c.platform>>
IsWindow(c) == Path(c) = Path(WindowUnit)
Below(c)    == {x \in Leaves : Path(x) = Path(c)}
IdAt(c)     == IF \E x \in Below(c) : x.chassis = c.chassis
               THEN (CHOOSE x \in Below(c) : x.chassis = c.chassis).id ELSE 0
Registered(c) == c.id # 0 /\ IdAt(c) = c.id

(* The values offered for a field, which depend on those chosen before it. *)
Options(c, f) ==
  CASE f = "division" -> {x.division : x \in Leaves}
    [] f = "lineup"   -> {x.lineup : x \in {y \in Leaves : y.division = c.division}}
    [] f = "platform" -> IF c.division \in Derived THEN {}
                         ELSE {x.platform : x \in {y \in Leaves :
                                 y.division = c.division /\ y.lineup = c.lineup}}
    [] f = "chassis"  -> LET all == {x.chassis : x \in Below(c)}
                         IN IF all = {Null} THEN {} ELSE all
    [] f = "type"     -> Types
    [] f = "scope"    -> IF IsWindow(c) THEN Scopes ELSE {}

----------------------------------------------------------------------------
(* What the server makes of a state.                                       *)

(* A path that is not registered under its id is dropped, a scope is kept  *)
(* for the product that has scopes and is the first one if none is chosen, *)
(* and a project stays only with a development request of its division.    *)
NormalContext(form) ==
  LET known == form.ctx.id = 0 \/ Registered(form.ctx)
      ctx   == IF known THEN form.ctx ELSE BlankContext
  IN [form EXCEPT
        !.ctx     = [ctx EXCEPT !.scope = IF ~IsWindow(ctx) THEN ""
                                          ELSE IF @ \in Scopes THEN @ ELSE "indoor"],
        !.locked  = known /\ @,
        !.project = IF /\ @ # Nobody /\ form.kind = "development"
                       /\ Projects[@] = ctx.division THEN @ ELSE Nobody]

(* A confirmation is refused for a locked state, without a type and        *)
(* without one registered product; the first one gives the request a       *)
(* number.                                                                 *)
Confirmed(form, number) ==
  LET f == NormalContext(form)
      matches == IF f.ctx.id # 0 THEN {x \in Leaves : x.id = f.ctx.id}
                 ELSE {x \in Below(f.ctx) : x.chassis = f.ctx.chassis}
  IN IF f.locked \/ f.ctx.type \notin Types \/ Cardinality(matches) # 1 THEN {}
     ELSE {[f EXCEPT !.ctx.id = (CHOOSE x \in matches : TRUE).id,
                     !.locked = TRUE,
                     !.number = IF @ = 0 THEN number ELSE @]}

Selected(form, project) ==
  IF form.kind # "development" \/ Projects[project] # form.ctx.division THEN {}
  ELSE {NormalContext([form EXCEPT !.project = project])}

----------------------------------------------------------------------------
(* What the page sends: its choices, with the lock of the state it keeps.  *)
CollectedContext == [stored EXCEPT !.ctx = draft.ctx]

(* Every edit discards the preview on its way and asks for a new one.      *)
ChoiceMade ==
  /\ choices < ChoiceLimit
  /\ choices' = choices + 1
  /\ due' = TRUE /\ sent' = NoForm
  /\ UNCHANGED <<screen, waiting, searches, menu, numbers>>

(* A choice empties the ones that depend on it; a product without further  *)
(* choices is complete.                                                    *)
Completed(c) ==
  IF c.platform # "" /\ Cardinality(Below(c)) = 1
  THEN LET x == CHOOSE y \in Below(c) : TRUE IN [c EXCEPT !.chassis = x.chassis, !.id = x.id]
  ELSE c

Unnamed(c) == [c EXCEPT !.chassis = Null, !.id = 0]

Choice(c, f, v) ==
  CASE f = "division" -> Unnamed([c EXCEPT !.division = v, !.lineup = "", !.platform = ""])
    [] f = "lineup"   -> Completed(Unnamed([c EXCEPT !.lineup = v,
                                    !.platform = IF c.division \in Derived THEN v ELSE ""]))
    [] f = "platform" -> Completed(Unnamed([c EXCEPT !.platform = v]))
    [] f = "chassis"  -> [c EXCEPT !.chassis = v, !.id = IdAt([c EXCEPT !.chassis = v])]
    [] f = "type"     -> [c EXCEPT !.type = v]
    [] f = "scope"    -> [c EXCEPT !.scope = v]
Scoped(c) == [c EXCEPT !.scope = IF IsWindow(c) THEN @ ELSE ""]

(* Another division clears the project.                                    *)
ProjectAfter(f) == IF f = "division" THEN Nobody ELSE stored.project

(* The page's own lock wins over the one it was sent meanwhile.            *)
Choose(f, v) ==
  /\ screen = 1 /\ ~draft.locked
  /\ v \in Options(draft.ctx, f)
  /\ v # draft.ctx[f] \/ (f = "chassis" /\ draft.ctx.id = 0)
  /\ LET next == Scoped(Choice(draft.ctx, f, v))
     IN /\ draft'  = [draft EXCEPT !.ctx = next]
        /\ stored' = [stored EXCEPT !.ctx = next, !.locked = draft.locked,
                                    !.project = ProjectAfter(f)]
  /\ ChoiceMade

Unchosen(c) ==
  \/ "" \in {c.division, c.lineup, c.platform, c.type}
  \/ c.id = 0
  \/ IsWindow(c) /\ c.scope \notin Scopes

\* Mutant: the lock is the one the server sent last.
WithDraftLocked(shown) == [stored EXCEPT !.ctx = shown]

WithDraft(shown) == [stored EXCEPT !.ctx = shown, !.locked = draft.locked]

(* What is shown is read once more; a chassis not chosen yet reads "".     *)
Confirm ==
  /\ screen = 1 /\ ~draft.locked
  /\ choices < ChoiceLimit /\ Cardinality(waiting) < WaitLimit
  /\ choices' = choices + 1
  /\ LET chassis == IF draft.ctx.id = 0 /\ draft.ctx.chassis = Null THEN "" ELSE draft.ctx.chassis
         shown   == [draft.ctx EXCEPT !.chassis = chassis]
     IN /\ draft'  = [draft EXCEPT !.ctx = shown]
        /\ stored' = WithDraft(shown)
        /\ IF Unchosen(shown)
           THEN UNCHANGED waiting
           ELSE waiting' = waiting \union
                     {[kind |-> "confirm", form |-> WithDraft(shown), project |-> Nobody,
                       at |-> Cardinality(waiting)]}
  /\ UNCHANGED <<screen, due, sent, searches, menu, numbers>>

Adopted(form) ==
  /\ stored' = form
  /\ draft'  = [ctx |-> form.ctx, locked |-> form.locked]

ConfirmAnswered(q) ==
  /\ q.kind = "confirm"
  /\ waiting' = waiting \ {q}
  /\ \E form \in Confirmed(q.form, numbers + 1) :
       /\ Adopted(form)
       /\ numbers' = IF form.number > numbers THEN numbers + 1 ELSE numbers
  /\ due' = FALSE /\ sent' = NoForm
  /\ screen' = 2
  /\ UNCHANGED <<searches, menu, choices>>

(* To change what is confirmed it is unlocked on the page; the preview on  *)
(* its way is left alone.                                                  *)
Unlock ==
  /\ draft.locked
  /\ draft'   = [ctx |-> stored.ctx, locked |-> FALSE]
  /\ stored'  = [stored EXCEPT !.locked = FALSE]
  /\ UNCHANGED <<screen, due, sent, waiting, searches, menu, numbers, choices>>

(* Forward only with what is confirmed.                                    *)
GoTo(s) ==
  /\ s # screen
  /\ s = 2 => stored.locked
  /\ screen' = s
  /\ UNCHANGED <<stored, draft, due, sent, waiting, searches, menu, numbers, choices>>

SendPreview ==
  /\ due
  /\ due' = FALSE /\ sent' = CollectedContext
  /\ UNCHANGED <<stored, draft, screen, waiting, searches, menu, numbers, choices>>

ContextPreviewed ==
  /\ sent # NoForm
  /\ stored' = NormalContext(sent) /\ sent' = NoForm
  /\ UNCHANGED <<draft, screen, due, waiting, searches, menu, numbers, choices>>

----------------------------------------------------------------------------
(* The second screen: the kind of the request and its project.             *)
ChooseKind(kind) ==
  /\ screen = 2 /\ kind # stored.kind
  /\ stored' = [stored EXCEPT !.kind = kind, !.project = Nobody]
  /\ ChoiceMade
  /\ UNCHANGED draft

TypeProject ==
  /\ screen = 2 /\ stored.kind = "development"
  /\ stored' = [stored EXCEPT !.project = Nobody]
  /\ ChoiceMade
  /\ UNCHANGED draft

Search ==
  /\ screen = 2 /\ stored.kind = "development"
  /\ searches' = searches \union {draft.ctx.division}
  /\ UNCHANGED <<stored, draft, screen, due, sent, waiting, menu, numbers, choices>>

SearchAnswered(division) ==
  /\ division \in searches
  /\ searches' = searches \ {division}
  /\ menu' = division
  /\ UNCHANGED <<stored, draft, screen, due, sent, waiting, numbers, choices>>

Select(project) ==
  /\ screen = 2 /\ stored.kind = "development"
  /\ Projects[project] = menu
  /\ Cardinality(waiting) < WaitLimit
  /\ waiting' = waiting \union
       {[kind |-> "select", form |-> CollectedContext, project |-> project,
         at |-> 0]}
  /\ UNCHANGED <<stored, draft, screen, due, sent, searches, menu, numbers, choices>>

SelectAnswered(q) ==
  /\ q.kind = "select"
  /\ waiting' = waiting \ {q}
  /\ \/ \E form \in Selected(q.form, q.project) :
          Adopted(form) /\ due' = TRUE /\ sent' = NoForm
     \/ /\ Selected(q.form, q.project) = {}
        /\ UNCHANGED <<stored, draft, due, sent>>
  /\ UNCHANGED <<screen, searches, menu, numbers, choices>>

----------------------------------------------------------------------------
ContextInit ==
  /\ stored    = [ctx |-> BlankContext, locked |-> FALSE, kind |-> "", project |-> Nobody, number |-> 0]
  /\ draft     = [ctx |-> BlankContext, locked |-> FALSE]
  /\ screen    = 1
  /\ due       = FALSE
  /\ sent      = NoForm
  /\ waiting   = {}
  /\ searches  = {}
  /\ menu      = ""
  /\ numbers   = 0
  /\ choices   = 0

ContextNext ==
  \/ \E f \in {"division", "lineup", "platform", "chassis", "type", "scope"} :
       \E v \in Options(draft.ctx, f) : Choose(f, v)
  \/ Confirm \/ Unlock
  \/ \E s \in {1, 2} : GoTo(s)
  \/ SendPreview \/ ContextPreviewed
  \/ \E q \in waiting : ConfirmAnswered(q) \/ SelectAnswered(q)
  \/ \E kind \in {"development", "other"} : ChooseKind(kind)
  \/ TypeProject \/ Search
  \/ \E division \in searches : SearchAnswered(division)
  \/ \E project \in DOMAIN Projects : Select(project)

ContextSpec == ContextInit /\ [][ContextNext]_contextVars

----------------------------------------------------------------------------
(* Type invariant; the page's two records of what is chosen agree but for  *)
(* a scope the server assumed, and for a lock that came back with a late   *)
(* preview and is without effect.                                          *)
ContextTypeOK ==
  /\ stored.kind \in {"", "development", "other"}
  /\ stored.project \in DOMAIN Projects \union {Nobody}
  /\ menu \in {x.division : x \in Leaves} \union {""}
  /\ \A f \in {"division", "lineup", "platform", "id", "type"} : stored.ctx[f] = draft.ctx[f]
  /\ stored.ctx.scope # draft.ctx.scope => draft.ctx.scope = "" /\ stored.ctx.scope = "indoor"
  /\ draft.locked => stored.locked

(* Whatever the page sends to be confirmed the server confirms: what the   *)
(* page looks for before it sends is all that the server asks for.         *)
ConfirmationsSucceed ==
  \A q \in waiting : q.kind = "confirm" => Confirmed(q.form, numbers + 1) # {}

=============================================================================
