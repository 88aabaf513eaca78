----------------------------- MODULE CaseMatrix -----------------------------
(***************************************************************************)
(* The rules of the manual Case Matrix: how the server brings its rows in  *)
(* line with the products and the condition cards they refer to, what the  *)
(* validator says of the result, which combination a new Case is given and *)
(* when a Word file may be made of it.                                     *)
(*                                                                         *)
(* A row picks one product and one condition card of its own scope.  The   *)
(* program has one column per card type and treats them alike, so one      *)
(* column stands for them.  A source is a product or a card; what it holds *)
(* is a number, and Unfilled is a required value that is missing, which    *)
(* takes the source out of the options a row may pick.                     *)
(***************************************************************************)
EXTENDS Integers, SequencesExt

CONSTANTS Products,        \* the products, in the order of their cards
          Cards,           \* the condition cards, in their order
          CardScope,       \* the scope of each card
          Scopes,          \* the requested scopes in order: <<"indoor","outdoor">> or <<"">>
          None             \* no selection

Whole == ""   \* the one scope of a request that is not divided into scopes

ASSUME SourcesAssumption == /\ Products \in Seq(Range(Products)) /\ Cards \in Seq(Range(Cards))
                            /\ Products # << >>
                            /\ None \notin Range(Products) \cup Range(Cards)

ASSUME ScopesAssumption == /\ Scopes \in {<<Whole>>, <<"indoor">>, <<"outdoor">>,
                                          <<"indoor", "outdoor">>}
                           /\ CardScope \in [Range(Cards) -> Range(Scopes)]

Sources  == Range(Products) \cup Range(Cards)
Fields   == {"geometry", "condition"}
Unfilled == 0

(* The numbers of a finite set in their order, and what a sequence keeps   *)
(* at the positions of a set: SelectSeq without its recursion, so that     *)
(* what is kept can be reasoned about.                                     *)
Ascending(I) ==
  [k \in 1..Cardinality(I) |-> CHOOSE i \in I : Cardinality({j \in I : j <= i}) = k]
Kept(s, I) == [k \in 1..Cardinality(I) |-> s[Ascending(I)[k]]]

(* The options of a field's drop-down list: the usable sources, in order. *)
Options(content, scope, field) ==
  IF field = "geometry"
  THEN Kept(Products, {k \in 1..Len(Products) : content[Products[k]] # Unfilled})
  ELSE Kept(Cards, {k \in 1..Len(Cards) : /\ CardScope[Cards[k]] = scope
                                          /\ content[Cards[k]] # Unfilled})

UsableProducts(content) == {p \in Range(Products) : content[p] # Unfilled}

NoPick == [f \in Fields |-> None]

(* A row that the server adds for a product it has not seen before: the    *)
(* product and the first option of the condition column.                   *)
AutoRow(id, scope, product, content) ==
  LET conditions == Options(content, scope, "condition")
  IN  [id |-> id, scope |-> scope, auto |-> product, lost |-> NoPick,
       pick |-> [f \in Fields |-> IF f = "geometry" THEN product
                                  ELSE IF conditions = << >> THEN None
                                  ELSE conditions[1]]]

RowsOf(rows, scope) == Kept(rows, {i \in 1..Len(rows) : rows[i].scope = scope})

\* Mutant: a row is named by the number of rows.
FreshIdsByCount(rows, n) == [k \in 1..n |-> Len(rows) + k]

(* The names of the next n rows: row names are unique within a scope, and  *)
(* a new one counts the rows there are unless another has that name.       *)
FreshIds(rows, n) ==
  Ascending({m \in (Len(rows) + 1)..(2 * Len(rows) + n) :
               \A i \in 1..Len(rows) : rows[i].id # m})

\* Mutant: a selection that is gone is replaced by the first option.
NormalRowRefilled(row, content) ==
  LET options(f) == Options(content, row.scope, f)
  IN  [row EXCEPT
        !.lost = NoPick,
        !.pick  = [f \in Fields |->
                     IF row.pick[f] \in Range(options(f)) THEN row.pick[f]
                     ELSE IF options(f) # << >> THEN options(f)[1] ELSE None]]

(* One row after normalization.  A selection that is still an option is    *)
(* kept and no longer counted as lost; one that is not is taken out and    *)
(* remembered as lost, and never replaced.  A row in which nothing was     *)
(* ever chosen gets the first options, and an automatic row the first      *)
(* condition.  Every answer has been through two passes: a column sent     *)
(* along left open is left so by the first and filled in by the second.    *)
NormalRow(row, content) ==
  LET options(f) == Options(content, row.scope, f)
      valid(f)   == row.pick[f] \in Range(options(f))
      auto       == IF row.auto \in UsableProducts(content) THEN row.auto ELSE None
      untouched  == row.pick = NoPick /\ row.lost = NoPick
      unanswered(f) == /\ f = "condition" /\ auto # None
                       /\ row.pick[f] = None /\ row.lost[f] = None
  IN  [row EXCEPT
        !.auto  = auto,
        !.pick  = [f \in Fields |->
                     CASE valid(f) -> row.pick[f]
                       [] ~valid(f) /\ options(f) # << >> /\ (untouched \/ unanswered(f)) ->
                            options(f)[1]
                       [] OTHER -> None],
        !.lost  = [f \in Fields |->
                     CASE valid(f)           -> None
                       [] ~valid(f) /\ row.pick[f] # None -> row.pick[f]
                       [] OTHER              -> row.lost[f]]]

WithAutoRows(rows, scope, content, known) ==
  LET new == Kept(Products, {k \in 1..Len(Products) :
                               Products[k] \in UsableProducts(content) \ known})
  IN  rows \o [k \in 1..Len(new) |->
                 AutoRow(FreshIds(rows, Len(new))[k], scope, new[k], content)]

(* The rows of one scope: those that were there, then one for every usable *)
(* product that was not in the scope's snapshot.                           *)
NormalScope(rows, scope, content, known) ==
  WithAutoRows([i \in 1..Len(rows) |-> NormalRow(rows[i], content)], scope, content, known)

(* Rows of a scope that is not requested are dropped; a row without a      *)
(* scope belongs to the first one.  A request without scopes keeps only    *)
(* rows without one, and forgets its snapshot when it drops any.           *)
InScope(rows, scope) ==
  LET kept == Kept(rows, {i \in 1..Len(rows) :
                            \/ rows[i].scope = scope
                            \/ rows[i].scope = Whole /\ scope = Scopes[1]})
  IN  [i \in 1..Len(kept) |-> [kept[i] EXCEPT !.scope = scope]]

KnownIn(rows, known) ==
  IF Scopes = <<Whole>> /\ \E i \in 1..Len(rows) : rows[i].scope # Whole THEN {} ELSE known

Normal(rows, content, known) ==
  LET of(s) == NormalScope(InScope(rows, s), s, content, KnownIn(rows, known[s]))
  IN  IF Len(Scopes) = 1 THEN of(Scopes[1]) ELSE of(Scopes[1]) \o of(Scopes[2])

-----------------------------------------------------------------------------
(* What the validator reports of the matrix: the scopes with a row that    *)
(* cannot be used (none at all, a selection missing, two equal Cases), the *)
(* scopes in which some product has no Case although another scope is      *)
(* requested too, and the scopes with an option no Case uses.              *)

Complete(row, content) ==
  \A f \in Fields : row.pick[f] \in Range(Options(content, row.scope, f))

\* Mutant: rows with a selection missing are skipped.
BrokenRowsIfComplete(rows, content, scope) ==
  LET mine == Kept(rows, {i \in 1..Len(rows) : rows[i].scope = scope /\ Complete(rows[i], content)})
  IN  \/ RowsOf(rows, scope) = << >>
      \/ \E i, j \in 1..Len(mine) : i < j /\ mine[i].pick = mine[j].pick

BrokenRows(rows, content, scope) ==
  LET mine == RowsOf(rows, scope) IN
  \/ mine = << >>
  \/ \E i \in 1..Len(mine) : ~Complete(mine[i], content)
  \/ \E i, j \in 1..Len(mine) :
       /\ i < j /\ mine[i].pick = mine[j].pick
       /\ Complete(mine[i], content) /\ Complete(mine[j], content)

Used(rows, scope, field) ==
  {RowsOf(rows, scope)[i].pick[field] : i \in 1..Len(RowsOf(rows, scope))} \ {None}

LacksProduct(rows, content, scope) ==
  Len(Scopes) > 1 /\ ~(UsableProducts(content) \subseteq Used(rows, scope, "geometry"))

Uncovered(rows, content, scope) ==
  \E f \in Fields : ~(Range(Options(content, scope, f)) \subseteq Used(rows, scope, f))

Verdict(rows, content) ==
  [rows     |-> {s \in Range(Scopes) : BrokenRows(rows, content, s)},
   products |-> {s \in Range(Scopes) : LacksProduct(rows, content, s)},
   unused   |-> {s \in Range(Scopes) : Uncovered(rows, content, s)}]

Misconfigured(verdict) == verdict.rows \cup verdict.products
Blocking(verdict)      == Misconfigured(verdict) \cup verdict.unused

FirstOf(scopes) == Kept(Scopes, {k \in 1..Len(Scopes) : Scopes[k] \in scopes})[1]

(* The scope of the first blocking issue, in the order they are reported. *)
FirstBlocking(verdict) ==
  CASE verdict.rows # {}     -> FirstOf(verdict.rows)
    [] verdict.rows = {} /\ verdict.products # {} -> FirstOf(verdict.products)
    [] verdict.rows = {} /\ verdict.products = {} /\ verdict.unused # {} ->
         FirstOf(verdict.unused)
    [] OTHER -> None

(* The combination "Case 추가" gives a new row: the first, with products   *)
(* before conditions, that no row of the scope has; None when there is     *)
(* none.                                                                   *)
FirstAvailable(rows, content, scope) ==
  LET ps == Options(content, scope, "geometry")
      cs == Options(content, scope, "condition")
      pickAt(x) == [f \in Fields |-> IF f = "geometry" THEN ps[x[1]] ELSE cs[x[2]]]
      taken == {RowsOf(rows, scope)[i].pick : i \in 1..Len(RowsOf(rows, scope))}
      free  == {x \in (1..Len(ps)) \X (1..Len(cs)) : pickAt(x) \notin taken}
      first == CHOOSE x \in free : \A y \in free : x[1] < y[1] \/ (x[1] = y[1] /\ x[2] <= y[2])
  IN  IF free = {} THEN None ELSE pickAt(first)
=============================================================================
