----------------------------- MODULE ViewRegister -----------------------------
(***************************************************************************)
(* What a result's view promises its users: one register that holds a spec *)
(* (sort and filter) and the rows deleted so far.  Every change is atomic, *)
(* gets the next version, keeps what the changes before it did, and the    *)
(* rows in view are those the spec selects among the rows that are left.   *)
(***************************************************************************)
EXTENDS Naturals

CONSTANTS Specs,           \* what a user can ask for
          Rows,            \* base indices of the result
          Selected(_)      \* the rows a spec lets through

VARIABLES version, spec, removed, view

registerVars == <<version, spec, removed, view>>

Init ==
    /\ version = 1
    /\ spec \in Specs
    /\ removed = {}
    /\ view = Selected(spec)

Change(s, gone) ==
    /\ version' = version + 1
    /\ spec' = s
    /\ removed' = gone
    /\ view' = Selected(s) \ gone

SetView == \E s \in Specs : Change(s, removed)

Remove == \E rows \in (SUBSET Rows) \ {{}} : Change(spec, removed \cup rows)

Next == SetView \/ Remove

Spec == Init /\ [][Next]_registerVars
=============================================================================
