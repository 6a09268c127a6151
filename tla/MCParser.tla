------------------------------- MODULE MCParser -------------------------------
(***************************************************************************)
(* Files of every form of expression over two smaller ones, of every kind  *)
(* of statement and item, and such with one token replaced.                *)
(***************************************************************************)
EXTENDS Parser

P == INSTANCE Phrases

MCIdents == {"a", "b", "f", "x", "T", "_", "self"}
MCInts == {"1"}
MCLits == {"true"}


File(damaged, parts) == [tokens |-> P!AllToks(parts), items |-> P!AllTrees(parts), damaged |-> damaged]
Whole(parts) == File("nothing", parts)
ExprFiles == {Whole(<<P!Fun(<<P!Let(e)>>)>>) : e \in UNION {P!OverTwo(d, e) : d \in P!Small, e \in P!Right}}
StmtFiles == {Whole(<<P!Fun(<<stmt, P!Break, stmt>>)>>) : stmt \in P!Stmts}
ItemFiles == {Whole(<<P!Include, item, P!Fun(<<>>)>>) : item \in P!Items \cup P!Mods}

\* One token that is not a closing bracket or the end of a statement is
\* replaced by another, neither a bracket nor the end of a statement.
Strays == {"a", "1", "let", "mut", "if", "else", "for", "match", "return", "break", "defer", "=", "+", "&", "<", "..",
           "as", ".", "::", ":", ",", "=>", "$"}
Damaged(phrase, places, strays) ==
  {[toks |-> [phrase.toks EXCEPT ![k] = tok], trees |-> <<>>] : k \in places, tok \in strays}
Places(phrase, firm) == {k \in DOMAIN phrase.toks : phrase.toks[k] \notin firm}
DamagedStmts ==
  UNION {Damaged(stmt, Places(stmt, Closing \cup {";"}), Strays \cup {"fun"}) : stmt \in P!Sturdy}
DamagedItems ==
  UNION {Damaged(item, Places(item, {"}", ";"}), Strays) : item \in P!SturdyItems}
DamagedFiles ==
  {File("statement", <<P!Fun(<<P!Let(P!A), stmt, P!Break>>)>>) : stmt \in DamagedStmts}
  \cup {File("item", <<P!Fun(<<>>), item, P!Fun(<<P!Break>>)>>) : item \in DamagedItems}

MCFiles == ExprFiles \cup StmtFiles \cup ItemFiles \cup DamagedFiles

-----------------------------------------------------------------------------
(***************************************************************************)
(* What is written is read as it was meant, by every form of expression    *)
(* next to every other, in every statement and item: the binding powers of *)
(* parse_binop, the speculation on `<`, turbofishes, paths and struct      *)
(* literals in front of blocks.                                            *)
(***************************************************************************)
ReadsBack == Done /\ file.damaged = "nothing" => errors = 0 /\ ast = file.items

(***************************************************************************)
(* One wrong token costs at most one diagnostic and the statement or item  *)
(* it is in: synchronize and the handlers around it lose neither neighbour.*)
(***************************************************************************)
Parts(items) == IF Len(items) = 1 /\ items[1].node = "Fundef" THEN items[1].kids[6].kids[1].kids ELSE items
AnErrorCostsOnePart ==
  Done /\ file.damaged # "nothing" =>
    /\ errors <= 1
    /\ LET read == Parts(ast)
           meant == Parts(file.items)
       IN  Len(read) = 3 /\ read[1] = meant[1] /\ read[3] = meant[2]

\* Every round of parse_file's loop consumes a token, so that it ends.
ParsingAdvances == [][position' > position]_vars
=============================================================================
