--------------------------- MODULE MCDiagnostics ---------------------------
(***************************************************************************)
(* A session that edits a file and asks about it, twice at once, while a   *)
(* hand changes it too; and a child that reads in the session's checkout.  *)
(***************************************************************************)
EXTENDS Diagnostics

CONSTANTS s1, s2, k, f

MCCalls == [c \in Callers |->
  IF c = s1 THEN {<<"edit", f>>, <<"diagnose", f>>, <<"other", f>>}
            ELSE {<<"diagnose", f>>, <<"navigate", f>>, <<"all", f>>}]

MCAsks == [c \in Callers |-> IF c = s1 THEN 2 ELSE 1]

\* A child calls some other tool.
ChildReads == [c \in Callers |-> {<<IF c = s1 THEN "edit" ELSE "other", f>>}]

\* A child asks about the session's file.
ChildAsks == [c \in Callers |->
  IF c = s1 THEN {<<"edit", f>>, <<"other", f>>} ELSE {<<"diagnose", f>>}]
=============================================================================
