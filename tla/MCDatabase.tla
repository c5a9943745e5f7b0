----------------------------- MODULE MCDatabase -----------------------------
(***************************************************************************)
(* Two first arguments that share the only bucket of the smallest hash     *)
(* table and are apart when it has grown.                                  *)
(***************************************************************************)
EXTENDS Database

CONSTANTS a, b

MCHash(k) == IF k = a THEN 1 ELSE 2

Clause(key, front) == [key |-> key, front |-> front]
AllClauses == [key : {a, b, Var}, front : BOOLEAN]

\* Every three clauses up to exchanging a and b, in every order; and four clauses.
Short == {<<Clause(k, FALSE), c, d>> : k \in {a, Var}, c \in AllClauses, d \in AllClauses}
Long == {<<Clause(a, FALSE), Clause(Var, FALSE), Clause(b, FALSE), Clause(a, FALSE)>>}
MCPrograms == Short \cup Long
GrowPrograms == {<<Clause(a, FALSE), Clause(a, FALSE), Clause(b, FALSE)>>}
=============================================================================
