----------------------------- MODULE FifoSession -----------------------------
(***************************************************************************)
(* What the editor session promises the tasks that use it: they wait in    *)
(* line, the session is used by one of them at a time, and the turn goes   *)
(* to whoever asked first.  A waiting task may give up (its acquire        *)
(* failed); nobody else loses a place by that.                             *)
(***************************************************************************)
EXTENDS Sequences, Naturals

CONSTANT Actors

VARIABLES line,   \* tasks in the order they asked; the first one is served
          using   \* the first one is using the session

fifoVars == <<line, using>>

InLine(a) == \E i \in 1 .. Len(line) : line[i] = a

Init == line = << >> /\ using = FALSE

Ask(a) == ~InLine(a) /\ line' = Append(line, a) /\ UNCHANGED using

Begin == line # << >> /\ ~using /\ using' = TRUE /\ UNCHANGED line

End == using /\ line' = Tail(line) /\ using' = FALSE

GiveUp(a) ==
    /\ \E i \in 1 .. Len(line) :
          /\ line[i] = a
          /\ using => i # 1
          /\ line' = [k \in 1 .. Len(line) - 1 |-> line[IF k < i THEN k ELSE k + 1]]
    /\ UNCHANGED using

Next == Begin \/ End \/ \E a \in Actors : Ask(a) \/ GiveUp(a)

Spec == Init /\ [][Next]_fifoVars
=============================================================================
