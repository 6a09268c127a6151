----------------------------- MODULE DecisionTree -----------------------------
(***************************************************************************)
(* Compiling a match to a decision tree                                    *)
(* (src/src/thir_to_mir/decision_tree.rs), and executing the tree on a     *)
(* value, against what a match means: the first branch whose pattern       *)
(* covers the value, its locals bound to the parts of it they stand for.   *)
(*                                                                         *)
(*   type     [kind : "Int" | "Enum" | "Tuple" | "Struct",                 *)
(*             parts : the types of the elements or fields,                *)
(*             variants : for an enum, the parts of each variant]          *)
(*   pattern  [pat : "Any" | "Bind" | "IntLit" | "Ctor" | "Tuple" |        *)
(*             "Struct", local, tag : the literal or the variant,          *)
(*             subs : the sub-patterns, fields : for a struct, which field *)
(*             each sub-pattern is for]                                    *)
(*   value    [tag : the integer or the variant, parts]                    *)
(*   place    the path from the scrutinee: the parts to take in turn, each *)
(*            with the variant its base is downcast to, 0 for none         *)
(* References are left out: the code peels them at every step.             *)
(***************************************************************************)
EXTENDS Naturals, Sequences, SequencesExt, FiniteSets, Functions

CONSTANTS
  Scrutinee,   \* the type that is matched
  Matches,     \* sequences of patterns, one for each branch
  Values,      \* the values of the type
  FieldOrders  \* for the fields of a struct, the orders a HashMap may list them in

VARIABLES branches, field_order, tree, value, outcome

vars == <<branches, field_order, tree, value, outcome>>

Pattern(pat, local, tag, subs) ==
  [pat |-> pat, local |-> local, tag |-> tag, subs |-> subs, fields |-> <<>>]
Wild == Pattern("Any", "", 0, <<>>)
Bind(l) == Pattern("Bind", l, 0, <<>>)
IntLit(n) == Pattern("IntLit", "", n, <<>>)
Ctor(variant, subs) == Pattern("Ctor", "", variant, subs)
TuplePat(subs) == Pattern("Tuple", "", 0, subs)
StructPat(fields, subs) == [Pattern("Struct", "", 0, subs) EXCEPT !.fields = fields]

IsWildcardLike(p) == p.pat \in {"Any", "Bind"}

HasConstructor(p) == p.pat \in {"IntLit", "Ctor"}

-----------------------------------------------------------------------------
\* The columns are [place, ty], the rows [pats, branch, bindings]; the empty
\* tails make TLC evaluate the two sequences here, once.
Matrix(cols, rows) == [cols |-> cols \o <<>>, rows |-> rows \o <<>>]

Fail == [node |-> "Fail"]
Leaf(branch, bindings) == [node |-> "Leaf", branch |-> branch, bindings |-> bindings]
Switch(place, cases, default) ==
  [node |-> "Switch", place |-> place, cases |-> cases, default |-> default]

Splice(s, i, new) == SubSeq(s, 1, i - 1) \o new \o SubSeq(s, i + 1, Len(s))

Wildcards(n) == [i \in 1 .. n |-> Wild]

BoundHere(p, col) == IF p.pat = "Bind" THEN <<[local |-> p.local, place |-> col.place]>> ELSE <<>>

BindingsOfColumns(row, cols) ==
  FlattenSeq([i \in DOMAIN cols |-> BoundHere(row.pats[i], cols[i])])

\* collect_bindings.
BindingsOf(row, cols) ==
  row.bindings \o FlattenSeq([i \in DOMAIN cols |-> BoundHere(row.pats[i], cols[i])])

\* choose_col: the first column the first row tests.
ChooseCol(m) ==
  CHOOSE i \in DOMAIN m.cols :
    /\ ~ IsWildcardLike(m.rows[1].pats[i])
    /\ \A j \in 1 .. (i - 1) : IsWildcardLike(m.rows[1].pats[j])

\* collect_constructors.
Signature(m, col) ==
  {m.rows[r].pats[col].tag : r \in {k \in DOMAIN m.rows : HasConstructor(m.rows[k].pats[col])}}

PayloadOf(ty, tag) == IF ty.kind = "Enum" THEN ty.variants[tag] ELSE <<>>

SubColumnsOfFirst(col, variant, parts, order) ==
  [i \in DOMAIN order |-> [place |-> Append(col.place, [variant |-> IF variant = 0 THEN 0 ELSE 1, part |-> order[i]]),
                           ty |-> parts[order[i]]]]

\* The columns for the parts of column col, downcast to a variant or not.
SubColumns(col, variant, parts, order) ==
  [i \in DOMAIN order |-> [place |-> Append(col.place, [variant |-> variant, part |-> order[i]]),
                           ty |-> parts[order[i]]]]

InOrder(parts) == [i \in DOMAIN parts |-> i]

\* specialize: the rows that accept the constructor, with its payload in place
\* of the column.
Specialize(m, col, tag) ==
  LET payload == PayloadOf(m.cols[col].ty, tag)
      accepts(row) == \/ HasConstructor(row.pats[col]) /\ row.pats[col].tag = tag
                      \/ IsWildcardLike(row.pats[col])
      narrowed(row) ==
        [ branch |-> row.branch,
          pats |-> Splice(row.pats, col, IF HasConstructor(row.pats[col]) THEN row.pats[col].subs
                                         ELSE Wildcards(Len(payload))),
          bindings |-> row.bindings \o BoundHere(row.pats[col], m.cols[col]) ]
      kept == SelectSeq(m.rows, accepts)
  IN  Matrix(Splice(m.cols, col, SubColumns(m.cols[col], tag, payload, InOrder(payload))),
             [i \in DOMAIN kept |-> narrowed(kept[i])])

\* default: the rows that do not test the column, without it.
Default(m, col) ==
  LET kept == SelectSeq(m.rows, LAMBDA row : IsWildcardLike(row.pats[col]))
  IN  Matrix(RemoveAt(m.cols, col),
             [i \in DOMAIN kept |->
                [ branch |-> kept[i].branch,
                  pats |-> RemoveAt(kept[i].pats, col),
                  bindings |-> kept[i].bindings \o BoundHere(kept[i].pats[col], m.cols[col]) ]])

\* expand_irrefutable: the parts of a tuple or struct in place of it.  The places
\* of a struct come in the order of the map get_fields_ty returns, the
\* sub-patterns in the order they are written.
ExpandIrrefutable(m, col, order) ==
  LET ty == m.cols[col].ty
      subs(p) == IF p.pat \in {"Tuple", "Struct"} THEN p.subs ELSE Wildcards(Len(ty.parts))
  IN  Matrix(Splice(m.cols, col,
                    SubColumns(m.cols[col], 0, ty.parts,
                               IF ty.kind = "Struct" THEN order ELSE InOrder(ty.parts))),
             [r \in DOMAIN m.rows |->
                [m.rows[r] EXCEPT !.pats = Splice(@, col, subs(m.rows[r].pats[col]))]])

IsCompleteForEnums(sig, ty) == ty.kind = "Enum"

\* is_complete.
IsComplete(sig, ty) == ty.kind = "Enum" /\ Cardinality(sig) = Len(ty.variants)

RECURSIVE Compile(_, _)
\* Matrix::compile; a missing default goes to the block that diverges.
Compile(m, order) ==
  IF m.rows = <<>> THEN Fail
  ELSE IF \A i \in DOMAIN m.cols : IsWildcardLike(m.rows[1].pats[i])
  THEN Leaf(m.rows[1].branch, BindingsOf(m.rows[1], m.cols))
  ELSE LET col == ChooseCol(m)
           ty == m.cols[col].ty
           sig == Signature(m, col)
       IN  IF ty.kind \in {"Tuple", "Struct"} THEN Compile(ExpandIrrefutable(m, col, order), order)
           ELSE Switch(m.cols[col].place,
                       [tag \in sig |-> Compile(Specialize(m, col, tag), order)],
                       IF IsComplete(sig, ty) THEN Fail ELSE Compile(Default(m, col), order))

\* build_match_matrix.
MatrixOf(patterns) ==
  Matrix(<< [place |-> <<>>, ty |-> Scrutinee] >>,
         [i \in DOMAIN patterns |-> [pats |-> <<patterns[i]>>, branch |-> i, bindings |-> <<>>]])

-----------------------------------------------------------------------------
\* The value at a place, and whether the place exists in the value.
ValueAt(v, place) == FoldLeft(LAMBDA w, step : w.parts[step.part], v, place)

Exists(v, place) ==
  \A i \in DOMAIN place :
    LET base == ValueAt(v, SubSeq(place, 1, i - 1))
    IN  place[i].variant \in {0, base.tag} /\ place[i].part \in DOMAIN base.parts

NoValue == <<>>
Pending == [what |-> "pending"]
Diverged == [what |-> "diverged"]
BadRead == [what |-> "bad read"]
Took(branch, env) == [what |-> "branch", branch |-> branch, env |-> env]

Init ==
  /\ branches \in Matches
  /\ field_order \in FieldOrders
  /\ tree = Fail
  /\ value = NoValue
  /\ outcome = Pending

\* MatchLowerer::lower, and a value to run the result on.
CompileMatch ==
  /\ value = NoValue
  /\ tree' = Compile(MatrixOf(branches), field_order)
  /\ value' \in Values
  /\ UNCHANGED <<branches, field_order, outcome>>

\* The switch of a node: its case for the tag at the place, or the default.
TakeSwitch ==
  /\ value # NoValue /\ outcome = Pending
  /\ tree.node = "Switch"
  /\ IF Exists(value, tree.place)
     THEN LET tag == ValueAt(value, tree.place).tag
          IN  /\ tree' = IF tag \in DOMAIN tree.cases THEN tree.cases[tag] ELSE tree.default
              /\ UNCHANGED outcome
     ELSE outcome' = BadRead /\ UNCHANGED tree
  /\ UNCHANGED <<branches, field_order, value>>

\* A leaf assigns the bindings and goes to the branch; a failure diverges.
Arrive ==
  /\ value # NoValue /\ outcome = Pending
  /\ tree.node \in {"Leaf", "Fail"}
  /\ outcome' =
       IF tree.node = "Fail" THEN Diverged
       ELSE IF \E b \in ToSet(tree.bindings) : ~ Exists(value, b.place) THEN BadRead
       ELSE Took(tree.branch, {<<b.local, ValueAt(value, b.place)>> : b \in ToSet(tree.bindings)})
  /\ UNCHANGED <<branches, field_order, tree, value>>

Next == CompileMatch \/ TakeSwitch \/ Arrive

Spec == Init /\ [][Next]_vars

-----------------------------------------------------------------------------
RECURSIVE Covers(_, _), Env(_, _)
PartFor(p, i) == IF p.pat = "Struct" THEN p.fields[i] ELSE i

\* What a pattern means: the values it covers and what it binds in one.
Covers(p, v) ==
  /\ HasConstructor(p) => v.tag = p.tag
  /\ \A i \in DOMAIN p.subs : Covers(p.subs[i], v.parts[PartFor(p, i)])

Env(p, v) ==
  (IF p.pat = "Bind" THEN {<<p.local, v>>} ELSE {})
    \cup UNION {Env(p.subs[i], v.parts[PartFor(p, i)]) : i \in DOMAIN p.subs}

Covering == {i \in DOMAIN branches : Covers(branches[i], value)}

\* The tree takes the first branch that covers the value, and diverges only on a
\* value no branch covers.
TakesTheFirstCoveringBranch ==
  /\ outcome.what = "branch" =>
       outcome.branch \in Covering /\ \A i \in Covering : outcome.branch <= i
  /\ outcome = Diverged => Covering = {}

\* The branch gets all its locals, each with the part of the value its pattern
\* stands for.
BindsWhatThePatternSays ==
  outcome.what = "branch" => outcome.env = Env(branches[outcome.branch], value)

\* The payload of a variant is read only in a value of that variant.
ReadsOnlyWhatIsThere == outcome # BadRead
==============================================================================
