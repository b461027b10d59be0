--------------------------- MODULE MCResultView ---------------------------
(***************************************************************************)
(* Instances of ResultView for TLC: rows are numbers, filters let all of   *)
(* them or the even ones through; "huge" is one the backend refuses.       *)
(***************************************************************************)
EXTENDS ResultView, TLC

TaskSymmetry == Permutations(Tasks)

TwoRows    == 1 .. 2
ThreeRows  == 1 .. 3
EvenOrHuge == {"", "even", "huge"}

\* Every sort but the base order turns the rows around.
RowOrder == [s \in Sorts |-> {<<q, r>> \in Rows \X Rows : IF s = "" THEN q < r ELSE q > r}]

MatchingRows == [f \in Filters |-> {r \in Rows : f = "even" => r = 2}]

=============================================================================
