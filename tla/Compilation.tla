------------------------------ MODULE Compilation ------------------------------
(***************************************************************************)
(* Pipeline with what stands in front of it: the return check, which keeps *)
(* a function it rejects from going further (src/src/check/fundef.rs).     *)
(*                                                                         *)
(* check_return (src/src/check/thir/return_check.rs) answers: does a       *)
(* function that must return a value return on every path, and which       *)
(* statements are unreachable.                                             *)
(***************************************************************************)
EXTENDS Pipeline

CONSTANT SyntheticLabels   \* of the statements the front end wrote itself

VARIABLES
  verdict,    \* of the return check: "unchecked", "NotRequired" for a function
              \* that returns no value, "AlwaysReturns" or "MayFallthrough"
  warnings    \* the statements it reports as unreachable

checkVars == <<verdict, warnings>>
compilationVars == <<pipelineVars, checkVars>>

-----------------------------------------------------------------------------
\* The return check.
RECURSIVE StmtsReturn(_), StmtReturns(_)
\* check_stmts: some statement always returns.
StmtsReturn(stmts) == \E i \in DOMAIN stmts : StmtReturns(stmts[i])

StmtReturnsOnSomeBranch(s) ==
  CASE s.stmt \in {"Never", "Return"} -> TRUE
    [] s.stmt = "Block" -> StmtsReturn(s.stmts)
    [] s.stmt = "IfElse" -> StmtsReturn(s.then) \/ StmtsReturn(s.else)
    [] s.stmt = "While" -> StmtsReturn(s.setup)
    [] OTHER -> FALSE

StmtReturnsByReturn(s) ==
  CASE s.stmt = "Return" -> TRUE
    [] s.stmt = "IfElse" -> StmtsReturn(s.then) /\ StmtsReturn(s.else)
    [] OTHER -> FALSE

\* check_stmt, a call of a never function being what expr_contains_never finds.
StmtReturns(s) ==
  CASE s.stmt \in {"Never", "Return"} -> TRUE
    [] s.stmt = "Block" -> StmtsReturn(s.stmts)
    [] s.stmt = "IfElse" -> StmtsReturn(s.then) /\ StmtsReturn(s.else)
    [] s.stmt = "While" -> StmtsReturn(s.setup)
    [] s.stmt = "Match" -> \E arm \in ToSet(s.arms) : StmtsReturn(arm)
    [] OTHER -> FALSE

RECURSIVE StmtsWarnings(_), StmtWarnings(_)
StmtsWarningsAtReturn(stmts) ==
  {stmts[i] : i \in {k \in DOMAIN stmts : StmtReturns(stmts[k])}}

IsSynthetic(s) == "label" \in DOMAIN s /\ s.label \in SyntheticLabels

\* The warnings of check_stmts: the statement after the first that always
\* returns, unless it is synthetic, and those inside the statements up to that
\* first one.
StmtsWarnings(stmts) ==
  LET checked == {i \in DOMAIN stmts : \A j \in 1 .. (i - 1) : ~ StmtReturns(stmts[j])}
  IN  UNION {StmtWarnings(stmts[i]) : i \in checked}
        \cup {stmts[i + 1] : i \in {k \in checked : /\ StmtReturns(stmts[k]) /\ k < Len(stmts)
                                               /\ ~ IsSynthetic(stmts[k + 1])}}

\* A match is left at its first branch that always returns.
StmtWarnings(s) ==
  CASE s.stmt = "Block" -> StmtsWarnings(s.stmts)
    [] s.stmt = "If" -> StmtsWarnings(s.then)
    [] s.stmt = "IfElse" -> StmtsWarnings(s.then) \cup StmtsWarnings(s.else)
    [] s.stmt = "While" -> StmtsWarnings(s.setup) \cup StmtsWarnings(s.body)
    [] s.stmt = "Match" ->
         UNION {StmtsWarnings(s.arms[i]) :
                  i \in {k \in DOMAIN s.arms : \A j \in 1 .. (k - 1) : ~ StmtsReturn(s.arms[j])}}
    [] OTHER -> {}

-----------------------------------------------------------------------------
SourceInit ==
  /\ FromSource
  /\ verdict = "unchecked"
  /\ warnings = {}

BodyInit ==
  /\ FromBody
  /\ verdict = "NotRequired"
  /\ warnings = {}

CompilationInit == SourceInit \/ BodyInit

\* checked_thir_body: a function returning void or never is not checked.
CheckReturns ==
  /\ verdict = "unchecked"
  /\ verdict' = IF program.void THEN "NotRequired"
                ELSE IF StmtsReturn(program.root) THEN "AlwaysReturns" ELSE "MayFallthrough"
  /\ warnings' = IF program.void THEN {} ELSE StmtsWarnings(program.root)
  /\ UNCHANGED pipelineVars

\* thir_is_valid: a function with an error gets no MIR.
IsValid == verdict \in {"NotRequired", "AlwaysReturns"}

Compile == IsValid /\ (Lower \/ HandOver \/ Optimise) /\ UNCHANGED checkVars

Execute == Run /\ UNCHANGED checkVars

CompilationNext == CheckReturns \/ Compile \/ Execute

CompilationSpec == CompilationInit /\ [][CompilationNext]_compilationVars

-----------------------------------------------------------------------------
RECURSIVE Within(_)
\* The statements among stmts, at any depth.
Within(stmts) ==
  ToSet(stmts) \cup
  UNION {CASE s.stmt = "Block" -> Within(s.stmts)
           [] s.stmt = "If" -> Within(s.then)
           [] s.stmt = "IfElse" -> Within(s.then) \cup Within(s.else)
           [] s.stmt = "While" -> Within(s.setup) \cup Within(s.body)
           [] s.stmt = "Match" -> UNION {Within(arm) : arm \in ToSet(s.arms)}
           [] OTHER -> {} : s \in ToSet(stmts)}

\* A match in which some branches always return and some do not: the check takes
\* it to return.
HasPartialMatch ==
  \E s \in Within(program.root) :
    s.stmt = "Match" /\ \E t, e \in ToSet(s.arms) : StmtsReturn(t) /\ ~ StmtsReturn(e)

\* A function the check accepts, and that has no such match, never runs past its
\* last statement: it returns, diverges or goes on for ever.
AcceptedFunctionsReturnButForMatches ==
  Runs /\ verdict = "AlwaysReturns" /\ ~ HasPartialMatch => rest # <<>>

RECURSIVE CanFallThrough(_)
CanFallThrough(from) ==
  \/ from = <<>>
  \/ IF IsSilent(from) THEN CanFallThrough(Unfolded(from))
     ELSE \E way \in 1 .. SourceOffer(FALSE, from).ways : CanFallThrough(SourceAfter(from, way))

\* A function that is rejected does fall through for some values of its
\* conditions: the error is never spurious, but for loops that never end and for
\* matches that cover nothing.
ReportedFunctionsFallThrough ==
  verdict = "MayFallthrough" =>
    \/ \E s \in Within(program.root) : s.stmt = "While" \/ (s.stmt = "Match" /\ s.arms = <<>>)
    \/ CanFallThrough(program.root)

\* A statement reported as unreachable is never the next to be executed.
UnreachableStatementsDoNotRun ==
  Runs /\ rest # <<>> /\ ~ HasPartialMatch => Head(rest) \notin warnings
==============================================================================
