--------------------------- MODULE MCFilterBuilder ---------------------------
(* Instance of FilterBuilder: conditions of several sorts of value, one that *)
(* is negated and one whose attribute is not one; filters with a group of    *)
(* one, a disjunction, a negation, an escaped value, and stars where they    *)
(* are no wildcards.                                                         *)
EXTENDS FilterBuilder

SomeTyped ==
    { Expr(FALSE, "cn", "=", Special), Expr(TRUE, "cn", "=", Pattern), Expr(FALSE, "bad", "=", Word) }

SomeTexts ==
    { Broken,
      << Text("or", 0), Item("cn", "=", [Special EXCEPT !.esc = 1], 1),
         Text("not", 1), Item("uid", "=", Star, 2) >>,
      << Text("or", 0), Item("cn", ">=", Pattern, 1) >> }
=============================================================================
