----------------------------- MODULE TabProofs -----------------------------
(***************************************************************************)
(* Proofs about the two components that belong to one query tab: QueryTab, *)
(* for any number of calls and of results, and, in the second half, AiChat,*)
(* for any numbers of messages, schema chunks, memories and statements and *)
(* any budget.                                                             *)
(*                                                                         *)
(* QueryTab: its type invariant and CancelBlamesItsRun, that only a failed *)
(* validation makes a closed tab again and that no timer takes the rows on *)
(* screen.                                                                 *)
(* CancelBlamesItsRun is not inductive: that a result blamed on the user   *)
(* was one the user cancelled rests on every run in flight being asked for *)
(* while the flag is set, and the flag on one of them, or the reply that   *)
(* takes it back, being still to come.                                     *)
(*                                                                         *)
(* AiChat: ConversationInv and PromptIsComplete.  Neither is inductive: a  *)
(* conversation keeps its order because a late context goes in before the  *)
(* question its flow is of, so the question is told by its id and every    *)
(* answer is known to stand behind its own; a prompt leaves nothing out    *)
(* because a chain stands for what was asked up to the last answer.  The   *)
(* editor's lock is an invariant of its own, next to that of the tab.      *)
(***************************************************************************)
EXTENDS QueryTab, AiChat, FiniteSetTheorems, SequenceTheorems, TLAPS

Answers == {"available", "expired", "missing", "failed"}

\* The calls in flight are finitely many and numbered in the order they were issued.
CallsInv == IsFiniteSet(calls) /\ \A c \in calls : c.id <= issued

\* While the cancel flag is set every run in flight was to be cancelled, and one of
\* them, or the reply that found none, will reset it.
CancelInv ==
    tab.open /\ tab.wasCancelled =>
        /\ \A c \in InFlight : c.id \in asked
        /\ \/ \E c \in InFlight : c.id \in asked
           \/ \E c \in calls : c.kind = "cancel" /\ c.index = 0

\* A result is blamed on the user only if its run was one to be cancelled.
BlameInv == \A i \in DOMAIN results : results[i].outcome = "cancelled" => tab.error \in asked

\* The result on screen is marked active, unless it has no rows; only a result alone
\* may be one that failed, so a retried result has an id.
ScreenInv ==
    /\ Len(results) > 1 => \A i \in DOMAIN results : results[i].id # 0
    /\ \A c \in calls : c.kind = "rerun" => c.of # 0
    /\ results # <<>> => tab.active <= Len(results)
    /\ tab.open /\ visible /\ tab.panel = "result" =>
          \A i \in DOMAIN results : i = tab.active /\ results[i].id # 0 => results[i].active

\* A tab the store has lost was closed, has no results, and is never shown again.
GoneInv ==
    /\ ~tab.open => tab.shut /\ results = <<>>
    /\ tab.shut => ~visible

----------
(* The actions one step can be.                                            *)
LEMMA StepCases ==
  ASSUME [Next]_vars
  PROVE 
    \/ \E c \in calls : ExecuteReply(c)
    \/ \E c \in calls : RunFailed(c)
    \/ \E c \in calls, n \in Indices : BatchReply(c, n)
    \/ \E c \in calls : RerunReply(c)
    \/ \E c \in calls : RerunFailed(c)
    \/ \E c \in calls, killed \in BOOLEAN : CancelReply(c, killed)
    \/ \E c \in calls, answer \in Answers : TouchReply(c, answer)
    \/ \E c \in calls, answer \in Answers : RestoreTouched(c, answer)
    \/ \E c \in calls, answer \in {"ok", "failed", "expired"} : WindowReply(c, answer)
    \/ ExecuteQuery
    \/ ExecuteBatch
    \/ RetryOneOfSeveral
    \/ CancelQuery
    \/ Hide
    \/ Show
    \/ EditRow
    \/ Cleanup
    \/ \E i \in Indices : SetActiveResultIndex(i)
    \/ \E item \in {"result", "table-data"} : SetActiveBottomPanelItem(item)
    \/ AiSend
    \/ AiEnd
    \/ OpenDiff
    \/ CloseDiff
    \/ \E i \in Indices : EvictInactive(i)
    \/ UNCHANGED vars
  BY DEF Next, Reply, User, AiPanel, Answers

(* The parts of TypeOK.                                                    *)
TabOK ==
    /\ tab \in TabType
    /\ visible \in BOOLEAN
    /\ ai \in [generating : BOOLEAN, reviewing : BOOLEAN]

ResultsOK == results \in Seq(ResultType) /\ Len(results) <= MaxResults

TimersOK == timers \subseteq Indices

CallsOK ==
    /\ calls \subseteq CallType /\ issued \in ById
    /\ asked \subseteq 1 .. MaxCalls
    /\ CallsInv

----------
(* Sequences of results.                                                   *)
SameShape(rs, ss) == ss \in Seq(ResultType) /\ Len(ss) = Len(rs) /\ DOMAIN ss = DOMAIN rs

LEMMA EachResult ==
  ASSUME NEW rs \in Seq(ResultType), NEW ss \in [DOMAIN rs -> ResultType]
  PROVE  SameShape(rs, ss)
<1>1. DOMAIN rs = 1 .. Len(rs) /\ Len(rs) \in Nat
  OBVIOUS
<1>2. ss \in [1 .. Len(rs) -> ResultType]
  BY <1>1
<1>3. ss \in Seq(ResultType) /\ DOMAIN ss = 1 .. Len(rs)
  BY <1>1, <1>2
<1>4. Len(ss) = Len(rs)
  BY <1>1, <1>3
<1>. QED BY <1>1, <1>3, <1>4 DEF SameShape

LEMMA MarkedResults ==
  ASSUME NEW rs \in Seq(ResultType)
  PROVE  /\ SameShape(rs, MarkExpired(rs)) /\ SameShape(rs, ClearExpired(rs))
         /\ \A i \in Nat : SameShape(rs, MarkActive(rs, i)) /\ SameShape(rs, MarkInactive(rs, i))
         /\ \A i \in Nat, state \in {"resident", "evicted", "restoring"} :
               SameShape(rs, Residency(rs, i, state))
<1>1. MarkExpired(rs) \in [DOMAIN rs -> ResultType] /\ ClearExpired(rs) \in [DOMAIN rs -> ResultType]
  <2>. ASSUME NEW i \in DOMAIN rs
       PROVE  /\ [rs[i] EXCEPT !.expired = TRUE] \in ResultType
              /\ [rs[i] EXCEPT !.expired = FALSE] \in ResultType
    <3>. rs[i] \in ResultType
      OBVIOUS
    <3>. QED BY DEF ResultType
  <2>. QED BY DEF MarkExpired, ClearExpired
<1>2. rs \in [DOMAIN rs -> ResultType]
  OBVIOUS
<1>3. ASSUME NEW i \in Nat
      PROVE  /\ MarkActive(rs, i) \in [DOMAIN rs -> ResultType]
             /\ MarkInactive(rs, i) \in [DOMAIN rs -> ResultType]
  BY <1>2 DEF MarkActive, MarkInactive, ResultType
<1>4. ASSUME NEW i \in Nat, NEW state \in {"resident", "evicted", "restoring"}
      PROVE  Residency(rs, i, state) \in [DOMAIN rs -> ResultType]
  BY <1>2 DEF Residency, ResultType
<1>. QED BY <1>1, <1>3, <1>4, EachResult

LEMMA EnteredResults ==
  ASSUME NEW rs \in Seq(ResultType), NEW i \in Nat
  PROVE  SameShape(rs, Entered(rs, i))
<1>1. SameShape(rs, MarkActive(rs, i))
  BY MarkedResults
<1>2. MarkActive(rs, i) \in Seq(ResultType)
  BY <1>1 DEF SameShape
<1>3. /\ SameShape(MarkActive(rs, i), MarkExpired(MarkActive(rs, i)))
      /\ SameShape(MarkActive(rs, i), Residency(MarkActive(rs, i), i, "restoring"))
  BY <1>2, MarkedResults
<1>. QED BY <1>1, <1>3 DEF SameShape, Entered

LEMMA NewResults ==
  /\ \A id \in ById, active \in BOOLEAN : Result(id, active) \in ResultType
  /\ \A run : ErrorResult(run) \in ResultType
<1>1. ASSUME NEW id \in ById, NEW active \in BOOLEAN  PROVE Result(id, active) \in ResultType
  BY DEF Result, ResultType
<1>2. ASSUME NEW run  PROVE ErrorResult(run) \in ResultType
  <2>1. Result(0, FALSE) \in ResultType
    BY QueryTabAssumption DEF Result, ResultType, ById
  <2>2. ErrorResult(run) = [Result(0, FALSE) EXCEPT
                              !.outcome = IF tab.wasCancelled THEN "cancelled" ELSE "failed"]
    BY DEF ErrorResult
  <2>. QED BY <2>1, <2>2 DEF ResultType
<1>. QED BY <1>1, <1>2

LEMMA ActiveIsAnIndex ==
  ASSUME TabOK, ResultsOK
  PROVE  Active \in 0 .. Len(results) /\ (results # <<>> => Active \in DOMAIN results)
  BY EmptySeq, QueryTabAssumption DEF TabOK, TabType, ResultsOK, Active, Indices

LEMMA CallTyped ==
  ASSUME CallsOK, NEW c \in calls
  PROVE  /\ c.id \in ById /\ c.id \in 1 .. MaxCalls /\ c.index \in Nat /\ c.of \in ById
         /\ c.saved \in Executing \cup AiLocks /\ c.id <= issued
  BY QueryTabAssumption DEF CallsOK, CallsInv, CallType, ById

LEMMA KeptResults ==
  ASSUME ResultsOK, SameShape(results, results')
  PROVE  ResultsOK'
  BY DEF ResultsOK, SameShape

LEMMA OneResult ==
  ASSUME NEW r \in ResultType, results' = <<r>>
  PROVE  ResultsOK'
  BY QueryTabAssumption DEF ResultsOK

LEMMA PatchedResult ==
  ASSUME NEW rs \in Seq(ResultType), NEW i, NEW r, i \in DOMAIN rs => r \in ResultType
  PROVE  SameShape(rs, PatchResult(rs, i, r))
<1>1. PatchResult(rs, i, r) \in [DOMAIN rs -> ResultType]
  BY DEF PatchResult
<1>. QED BY <1>1, EachResult

(* What a reply leaves of the rows: marks, and the state of the rows of one *)
(* result.                                                                 *)
LEMMA RepliedResults ==
  ASSUME NEW rs \in Seq(ResultType), NEW i \in Nat
  PROVE  /\ SameShape(rs, rs) /\ SameShape(rs, MarkExpired(rs))
         /\ SameShape(rs, Residency(rs, i, "evicted"))
         /\ SameShape(rs, Residency(MarkExpired(rs), i, "evicted"))
         /\ SameShape(rs, MarkExpired(Residency(rs, i, "evicted")))
         /\ i \in DOMAIN rs =>
               SameShape(rs, [rs EXCEPT ![i].rows = "resident", ![i].expired = FALSE])
<1>1. /\ SameShape(rs, rs) /\ SameShape(rs, MarkExpired(rs))
      /\ SameShape(rs, Residency(rs, i, "evicted"))
  BY MarkedResults DEF SameShape
<1>2. SameShape(MarkExpired(rs), Residency(MarkExpired(rs), i, "evicted"))
  BY <1>1, MarkedResults DEF SameShape
<1>3. SameShape(Residency(rs, i, "evicted"), MarkExpired(Residency(rs, i, "evicted")))
  BY <1>1, MarkedResults DEF SameShape
<1>4. ASSUME i \in DOMAIN rs
      PROVE  SameShape(rs, [rs EXCEPT ![i].rows = "resident", ![i].expired = FALSE])
  <2>1. rs[i] \in ResultType
    BY <1>4
  <2>2. [rs[i] EXCEPT !.rows = "resident", !.expired = FALSE] \in ResultType
    BY <2>1 DEF ResultType
  <2>3. [rs EXCEPT ![i].rows = "resident", ![i].expired = FALSE] \in [DOMAIN rs -> ResultType]
    BY <2>2, <1>4
  <2>. QED BY <2>3, EachResult
<1>. QED BY <1>1, <1>2, <1>3, <1>4 DEF SameShape

LEMMA UnchangedResults == ASSUME ResultsOK, results' = results  PROVE ResultsOK'
  BY DEF ResultsOK

(* Every step keeps the types of the results.                              *)
LEMMA ResultsStep ==
  ASSUME TabOK, ResultsOK, CallsOK, [Next]_vars
  PROVE  ResultsOK'
<1>1. CASE \E c \in calls : ExecuteReply(c)
  <2>0. PICK c \in calls : ExecuteReply(c)
    BY <1>1
  <2>1. CASE ~tab.open
    BY <2>0, <2>1, UnchangedResults DEF ExecuteReply
  <2>2. CASE tab.open
    <3>1. results' = <<Result(c.id, OnScreen)>>
      BY <2>0, <2>2 DEF ExecuteReply
    <3>2. Result(c.id, OnScreen) \in ResultType
      BY <2>0, CallTyped, NewResults DEF TabOK, OnScreen
    <3>. QED BY <3>1, <3>2, OneResult
  <2>. QED BY <2>1, <2>2
<1>2. CASE \E c \in calls : RunFailed(c)
  <2>0. PICK c \in calls : RunFailed(c)
    BY <1>2
  <2>1. CASE ~tab.open
    BY <2>0, <2>1, UnchangedResults DEF RunFailed
  <2>2. CASE tab.open
    <3>1. results' = <<ErrorResult(c.id)>>
      BY <2>0, <2>2 DEF RunFailed
    <3>2. ErrorResult(c.id) \in ResultType
      BY NewResults
    <3>. QED BY <3>1, <3>2, OneResult
  <2>. QED BY <2>1, <2>2
<1>3. CASE \E c \in calls, n \in Indices : BatchReply(c, n)
  <2>0. PICK c \in calls, n \in Indices : BatchReply(c, n)
    BY <1>3
  <2>1. CASE ~tab.open
    BY <2>0, <2>1, UnchangedResults DEF BatchReply
  <2>2. CASE tab.open
    <3>1. results' = [i \in 1 .. n |-> Result(c.id, i = 1 /\ OnScreen)]
      BY <2>0, <2>2 DEF BatchReply
    <3>2. \A i \in 1 .. n : Result(c.id, i = 1 /\ OnScreen) \in ResultType
      BY <2>0, CallTyped, NewResults
    <3>3. n \in Nat /\ n <= MaxResults
      BY <2>0, QueryTabAssumption DEF Indices
    <3>4. results' \in Seq(ResultType) /\ Len(results') = n
      BY <3>1, <3>2, <3>3
    <3>. QED BY <3>3, <3>4 DEF ResultsOK
  <2>. QED BY <2>1, <2>2
<1>4. CASE \E c \in calls : RerunReply(c)
  <2>0. PICK c \in calls : RerunReply(c)
    BY <1>4
  <2>1. CASE results' = results
    BY <2>1, UnchangedResults
  <2>2. CASE results' # results
    <3>1. c.index \in DOMAIN results
      BY <2>0, <2>2 DEF RerunReply
    <3>2. results' = [results EXCEPT ![c.index] = Result(c.id, results[c.index].active)]
      BY <2>0, <2>2 DEF RerunReply
    <3>3. results[c.index] \in ResultType
      BY <3>1 DEF ResultsOK
    <3>4. results[c.index].active \in BOOLEAN
      BY <3>3 DEF ResultType
    <3>5. Result(c.id, results[c.index].active) \in ResultType
      BY <2>0, <3>4, CallTyped, NewResults
    <3>. QED BY <3>1, <3>2, <3>5 DEF ResultsOK
  <2>. QED BY <2>1, <2>2
<1>5. CASE \E c \in calls : RerunFailed(c)
  <2>0. PICK c \in calls : RerunFailed(c)
    BY <1>5
  <2>1. \/ results' = results
        \/ results' = MarkExpired(results)
    BY <2>0 DEF RerunFailed
  <2>2. results \in Seq(ResultType) /\ SameShape(results, results)
    BY DEF ResultsOK, SameShape
  <2>3. SameShape(results, results')
    BY <2>1, <2>2, MarkedResults
  <2>. QED BY <2>3, KeptResults
<1>6. CASE \E c \in calls, killed \in BOOLEAN : CancelReply(c, killed)
  <2>0. PICK c \in calls, killed \in BOOLEAN : CancelReply(c, killed)
    BY <1>6
  <2>. QED BY <2>0 DEF CancelReply, Settle, FinalizeExecution, Patch, ResultsOK
<1>7. CASE \E c \in calls, answer \in Answers : TouchReply(c, answer)
  <2>0. PICK c \in calls, answer \in Answers : TouchReply(c, answer)
    BY <1>7
  <2>1. \/ results' = results
        \/ results' = MarkExpired(results)
    BY <2>0 DEF TouchReply
  <2>2. results \in Seq(ResultType) /\ SameShape(results, results)
    BY DEF ResultsOK, SameShape
  <2>3. SameShape(results, results')
    BY <2>1, <2>2, MarkedResults
  <2>. QED BY <2>3, KeptResults
<1>8. CASE \E c \in calls, answer \in Answers : RestoreTouched(c, answer)
  <2>0. PICK c \in calls, answer \in Answers : RestoreTouched(c, answer)
    BY <1>8
  <2>1. results \in Seq(ResultType) /\ c.index \in Nat
    BY <2>0, CallTyped DEF ResultsOK
  <2>2. \/ results' = results
        \/ results' = MarkExpired(results)
        \/ results' = Residency(results, c.index, "evicted")
        \/ results' = Residency(MarkExpired(results), c.index, "evicted")
        \/ results' = MarkExpired(Residency(results, c.index, "evicted"))
        \/ /\ c.index \in DOMAIN results
           /\ results' = [results EXCEPT ![c.index].rows = "resident",
                                         ![c.index].expired = FALSE]
    BY <2>0 DEF RestoreTouched, Answers
  <2>3. SameShape(results, results')
    BY <2>1, <2>2, RepliedResults
  <2>. QED BY <2>3, KeptResults
<1>9. CASE \E c \in calls, answer \in {"ok", "failed", "expired"} : WindowReply(c, answer)
  <2>0. PICK c \in calls, answer \in {"ok", "failed", "expired"} : WindowReply(c, answer)
    BY <1>9
  <2>1. results \in Seq(ResultType) /\ c.index \in Nat
    BY <2>0, CallTyped DEF ResultsOK
  <2>2. \/ results' = results
        \/ results' = MarkExpired(results)
        \/ results' = Residency(results, c.index, "evicted")
        \/ results' = Residency(MarkExpired(results), c.index, "evicted")
        \/ results' = MarkExpired(Residency(results, c.index, "evicted"))
        \/ /\ c.index \in DOMAIN results
           /\ results' = [results EXCEPT ![c.index].rows = "resident",
                                         ![c.index].expired = FALSE]
    BY <2>0 DEF WindowReply, Answers
  <2>3. SameShape(results, results')
    BY <2>1, <2>2, RepliedResults
  <2>. QED BY <2>3, KeptResults
<1>10. CASE ExecuteQuery
  <2>. DEFINE cleared == ClearExpired(results)
              r       == [cleared[Active] EXCEPT !.dirty = FALSE]
  <2>1. results' = PatchResult(cleared, Active, r)
    BY <1>10 DEF ExecuteQuery, Run
  <2>2. SameShape(results, cleared)
    BY MarkedResults DEF ResultsOK
  <2>3. Active \in DOMAIN cleared => r \in ResultType
    <3>. SUFFICES ASSUME Active \in DOMAIN cleared  PROVE r \in ResultType
      OBVIOUS
    <3>1. cleared[Active] \in ResultType
      BY <2>2 DEF SameShape
    <3>. QED BY <3>1 DEF ResultType
  <2>. HIDE DEF cleared, r
  <2>4. SameShape(cleared, PatchResult(cleared, Active, r))
    BY <2>2, <2>3, PatchedResult DEF SameShape
  <2>5. SameShape(results, results')
    BY <2>1, <2>2, <2>4 DEF SameShape
  <2>. QED BY <2>5, KeptResults
<1>11. CASE ExecuteBatch
  <2>. DEFINE cleared == ClearExpired(results)
              r       == [cleared[Active] EXCEPT !.dirty = FALSE]
  <2>1. results' = PatchResult(cleared, Active, r)
    BY <1>11 DEF ExecuteBatch, Run
  <2>2. SameShape(results, cleared)
    BY MarkedResults DEF ResultsOK
  <2>3. Active \in DOMAIN cleared => r \in ResultType
    <3>. SUFFICES ASSUME Active \in DOMAIN cleared  PROVE r \in ResultType
      OBVIOUS
    <3>1. cleared[Active] \in ResultType
      BY <2>2 DEF SameShape
    <3>. QED BY <3>1 DEF ResultType
  <2>. HIDE DEF cleared, r
  <2>4. SameShape(cleared, PatchResult(cleared, Active, r))
    BY <2>2, <2>3, PatchedResult DEF SameShape
  <2>5. SameShape(results, results')
    BY <2>1, <2>2, <2>4 DEF SameShape
  <2>. QED BY <2>5, KeptResults
<1>12. CASE RetryOneOfSeveral
  <2>1. results' = ClearExpired(results)
    BY <1>12 DEF RetryOneOfSeveral
  <2>2. results \in Seq(ResultType) /\ SameShape(results, results)
    BY DEF ResultsOK, SameShape
  <2>3. SameShape(results, results')
    BY <2>1, <2>2, MarkedResults
  <2>. QED BY <2>3, KeptResults
<1>13. CASE CancelQuery
  BY <1>13 DEF CancelQuery, Issue, NewCall, Patch, ResultsOK
<1>14. CASE Hide
  <2>1. results' = results \/ results' = MarkInactive(results, Active)
    BY <1>14 DEF Hide
  <2>2. results \in Seq(ResultType) /\ Active \in Nat /\ SameShape(results, results)
    BY ActiveIsAnIndex DEF ResultsOK, SameShape
  <2>3. SameShape(results, results')
    BY <2>1, <2>2, MarkedResults
  <2>. QED BY <2>3, KeptResults
<1>15. CASE Show
  <2>1. results' = results \/ results' = Entered(results, Active)
    BY <1>15 DEF Show
  <2>2. results \in Seq(ResultType) /\ Active \in Nat /\ SameShape(results, results)
    BY ActiveIsAnIndex DEF ResultsOK, SameShape
  <2>3. SameShape(results, results')
    BY <2>1, <2>2, EnteredResults
  <2>. QED BY <2>3, KeptResults
<1>16. CASE EditRow
  <2>1. Active \in DOMAIN results /\ results' = [results EXCEPT ![Active].dirty = ~results[Active].dirty]
    BY <1>16, ActiveIsAnIndex, EmptySeq DEF EditRow
  <2>2. results[Active] \in ResultType
    BY <2>1 DEF ResultsOK
  <2>3. [results[Active] EXCEPT !.dirty = ~results[Active].dirty] \in ResultType
    BY <2>2 DEF ResultType
  <2>. QED BY <2>1, <2>3 DEF ResultsOK
<1>17. CASE Cleanup
  <2>1. results' = << >>
    BY <1>17 DEF Cleanup
  <2>. QED BY <2>1, QueryTabAssumption DEF ResultsOK
<1>18. CASE \E i \in Indices : SetActiveResultIndex(i)
  <2>0. PICK i \in Indices : SetActiveResultIndex(i)
    BY <1>18
  <2>. DEFINE left == IF visible /\ tab.panel = "result" THEN MarkInactive(results, Active)
                      ELSE results
  <2>1. results' = left \/ results' = Entered(left, i)
    BY <2>0 DEF SetActiveResultIndex, Switch
  <2>2. results \in Seq(ResultType) /\ Active \in Nat /\ i \in Nat
    BY <2>0, ActiveIsAnIndex, QueryTabAssumption DEF ResultsOK, TabOK, TabType, Indices
  <2>3. SameShape(results, left)
    BY <2>2, MarkedResults DEF SameShape
  <2>. HIDE DEF left
  <2>4. SameShape(left, Entered(left, i))
    BY <2>2, <2>3, EnteredResults DEF SameShape
  <2>5. SameShape(results, results')
    BY <2>1, <2>3, <2>4 DEF SameShape
  <2>. QED BY <2>5, KeptResults
<1>19. CASE \E item \in {"result", "table-data"} : SetActiveBottomPanelItem(item)
  <2>0. PICK item \in {"result", "table-data"} : SetActiveBottomPanelItem(item)
    BY <1>19
  <2>. DEFINE left == IF visible /\ tab.panel = "result" THEN MarkInactive(results, Active)
                      ELSE results
  <2>1. results' = left \/ results' = Entered(left, tab.active)
    BY <2>0 DEF SetActiveBottomPanelItem, Switch
  <2>2. results \in Seq(ResultType) /\ Active \in Nat /\ tab.active \in Nat
    BY <2>0, ActiveIsAnIndex, QueryTabAssumption DEF ResultsOK, TabOK, TabType, Indices
  <2>3. SameShape(results, left)
    BY <2>2, MarkedResults DEF SameShape
  <2>. HIDE DEF left
  <2>4. SameShape(left, Entered(left, tab.active))
    BY <2>2, <2>3, EnteredResults DEF SameShape
  <2>5. SameShape(results, results')
    BY <2>1, <2>3, <2>4 DEF SameShape
  <2>. QED BY <2>5, KeptResults
<1>20. CASE AiSend
  BY <1>20 DEF AiSend, Lock, ResultsOK
<1>21. CASE AiEnd
  BY <1>21 DEF AiEnd, RestoreTabStatus, ResultsOK
<1>22. CASE OpenDiff
  BY <1>22 DEF OpenDiff, Lock, ResultsOK
<1>23. CASE CloseDiff
  BY <1>23 DEF CloseDiff, RestoreTabStatus, ResultsOK
<1>24. CASE \E i \in Indices : EvictInactive(i)
  <2>0. PICK i \in Indices : EvictInactive(i)
    BY <1>24
  <2>1. results' = results \/ results' = Residency(results, i, "evicted")
    BY <2>0 DEF EvictInactive
  <2>2. results \in Seq(ResultType) /\ i \in Nat /\ SameShape(results, results)
    BY <2>0, QueryTabAssumption DEF ResultsOK, Indices, SameShape
  <2>3. SameShape(results, results')
    BY <2>1, <2>2, MarkedResults
  <2>. QED BY <2>3, KeptResults
<1>25. CASE UNCHANGED vars
  BY <1>25 DEF vars, ResultsOK
<1>. QED BY StepCases, <1>1, <1>2, <1>3, <1>4, <1>5, <1>6, <1>7, <1>8, <1>9, <1>10,
    <1>11, <1>12, <1>13, <1>14, <1>15, <1>16, <1>17, <1>18, <1>19, <1>20, <1>21,
    <1>22, <1>23, <1>24, <1>25

(* The values the store puts into the tab.                                *)
LEMMA Typed ==
  /\ 1 \in Indices /\ Indices \subseteq Nat /\ 0 \in ById
  /\ \A s \in {"idle", "running", "success", "error", "restoring"} :
        s \in Executing /\ s \in Executing \cup AiLocks
  /\ \A s \in {"ai-pending", "ai-reviewing"} : s \in Executing \cup AiLocks
  BY QueryTabAssumption DEF Indices, ById, Executing, AiLocks

LEMMA TimerTyped ==
  ASSUME TabOK, ResultsOK
  PROVE  TimerFor(results, Active) \subseteq Indices
  BY ActiveIsAnIndex, QueryTabAssumption DEF TimerFor, ResultsOK, Indices

LEMMA DefaultTyped == \A shut \in BOOLEAN : Default(shut) \in TabType
  BY Typed DEF Default, TabType

(* The tab a validation leaves: another status, or the tab it brings back. *)
LEMMA TouchedIs ==
  ASSUME TabOK, NEW c \in calls, NEW answer, TouchReply(c, answer)
  PROVE  \/ tab' = tab
         \/ tab.open /\ tab' = [tab EXCEPT !.status = c.saved]
         \/ /\ ~tab.open /\ c.saved # "success"
            /\ tab' = [Default(TRUE) EXCEPT !.status = c.saved]
  BY DEF TouchReply, Patch

(* Every step keeps the types of the tab and of its timers.                *)
LEMMA TabStep ==
  ASSUME TabOK, ResultsOK, TimersOK, CallsOK, [Next]_vars
  PROVE  TabOK' /\ TimersOK'
<1>. USE DEF TabOK, TimersOK
<1>1. CASE \E c \in calls : ExecuteReply(c)
  <2>0. PICK c \in calls : ExecuteReply(c)
    BY <1>1
  <2>1. tab' \in TabType
    BY <2>0, Typed, CallTyped DEF ExecuteReply, Finished, FinalizeExecution, Patch, TabType, Indices
  <2>2. timers' \subseteq Indices
    BY <2>0, Typed DEF ExecuteReply, OnScreen
  <2>3. visible' \in BOOLEAN /\ ai' \in [generating : BOOLEAN, reviewing : BOOLEAN]
    BY <2>0 DEF ExecuteReply, OnScreen
  <2>. QED BY <2>1, <2>2, <2>3
<1>2. CASE \E c \in calls : RunFailed(c)
  <2>0. PICK c \in calls : RunFailed(c)
    BY <1>2
  <2>1. tab' \in TabType
    BY ZenonT(40), <2>0, Typed, CallTyped DEF RunFailed, Finished, FinalizeExecution, Patch,
       TabType, Indices
  <2>2. timers' \subseteq Indices
    BY <2>0, Typed DEF RunFailed
  <2>3. visible' \in BOOLEAN /\ ai' \in [generating : BOOLEAN, reviewing : BOOLEAN]
    BY <2>0 DEF RunFailed
  <2>. QED BY <2>1, <2>2, <2>3
<1>3. CASE \E c \in calls, n \in Indices : BatchReply(c, n)
  <2>0. PICK c \in calls, n \in Indices : BatchReply(c, n)
    BY <1>3
  <2>1. tab' \in TabType
    BY ZenonT(40), <2>0, Typed, CallTyped DEF BatchReply, Finished, FinalizeExecution, Patch,
       TabType, Indices
  <2>2. timers' \subseteq Indices
    BY <2>0, Typed DEF BatchReply, OnScreen
  <2>3. visible' \in BOOLEAN /\ ai' \in [generating : BOOLEAN, reviewing : BOOLEAN]
    BY <2>0 DEF BatchReply, OnScreen
  <2>. QED BY <2>1, <2>2, <2>3
<1>4. CASE \E c \in calls : RerunReply(c)
  <2>0. PICK c \in calls : RerunReply(c)
    BY <1>4
  <2>1. tab' \in TabType
    BY <2>0, Typed, CallTyped DEF RerunReply, FinalizeExecution, Patch, TabType, Indices
  <2>2. timers' \subseteq Indices
    BY <2>0, Typed DEF RerunReply
  <2>3. visible' \in BOOLEAN /\ ai' \in [generating : BOOLEAN, reviewing : BOOLEAN]
    BY <2>0 DEF RerunReply
  <2>. QED BY <2>1, <2>2, <2>3
<1>5. CASE \E c \in calls : RerunFailed(c)
  <2>0. PICK c \in calls : RerunFailed(c)
    BY <1>5
  <2>1. tab' \in TabType
    BY <2>0, Typed, CallTyped DEF RerunFailed, FinalizeExecution, Patch, TabType, Indices
  <2>2. timers' \subseteq Indices
    BY <2>0, Typed DEF RerunFailed
  <2>3. visible' \in BOOLEAN /\ ai' \in [generating : BOOLEAN, reviewing : BOOLEAN]
    BY <2>0 DEF RerunFailed
  <2>. QED BY <2>1, <2>2, <2>3
<1>6. CASE \E c \in calls, killed \in BOOLEAN : CancelReply(c, killed)
  <2>0. PICK c \in calls, killed \in BOOLEAN : CancelReply(c, killed)
    BY <1>6
  <2>1. tab' \in TabType
    BY <2>0, Typed, CallTyped DEF CancelReply, FinalizeExecution, Patch, TabType, Indices
  <2>2. timers' \subseteq Indices
    BY <2>0, Typed DEF CancelReply
  <2>3. visible' \in BOOLEAN /\ ai' \in [generating : BOOLEAN, reviewing : BOOLEAN]
    BY <2>0 DEF CancelReply
  <2>. QED BY <2>1, <2>2, <2>3
<1>7. CASE \E c \in calls, answer \in Answers : TouchReply(c, answer)
  <2>0. PICK c \in calls, answer \in Answers : TouchReply(c, answer)
    BY <1>7
  <2>1. tab' \in TabType
    <3>1. c.saved \in Executing \cup AiLocks
      BY CallTyped
    <3>2. \A t \in TabType : [t EXCEPT !.status = c.saved] \in TabType
      BY <3>1 DEF TabType
    <3>3. tab \in TabType /\ Default(TRUE) \in TabType
      BY DefaultTyped
    <3>. QED BY <2>0, <3>2, <3>3, TouchedIs
  <2>2. timers' \subseteq Indices
    BY <2>0, Typed DEF TouchReply
  <2>3. visible' \in BOOLEAN /\ ai' \in [generating : BOOLEAN, reviewing : BOOLEAN]
    BY <2>0 DEF TouchReply
  <2>. QED BY <2>1, <2>2, <2>3
<1>8. CASE \E c \in calls, answer \in Answers : RestoreTouched(c, answer)
  <2>0. PICK c \in calls, answer \in Answers : RestoreTouched(c, answer)
    BY <1>8
  <2>1. tab' \in TabType
    BY <2>0, Typed, CallTyped DEF RestoreTouched, PutBack, TabType, Indices
  <2>2. timers' \subseteq Indices
    BY <2>0, Typed DEF RestoreTouched
  <2>3. visible' \in BOOLEAN /\ ai' \in [generating : BOOLEAN, reviewing : BOOLEAN]
    BY <2>0 DEF RestoreTouched
  <2>. QED BY <2>1, <2>2, <2>3
<1>9. CASE \E c \in calls, answer \in {"ok", "failed", "expired"} : WindowReply(c, answer)
  <2>0. PICK c \in calls, answer \in {"ok", "failed", "expired"} : WindowReply(c, answer)
    BY <1>9
  <2>1. tab' \in TabType
    BY <2>0, Typed, CallTyped DEF WindowReply, PutBack, TabType, Indices
  <2>2. timers' \subseteq Indices
    BY <2>0, Typed DEF WindowReply
  <2>3. visible' \in BOOLEAN /\ ai' \in [generating : BOOLEAN, reviewing : BOOLEAN]
    BY <2>0 DEF WindowReply
  <2>. QED BY <2>1, <2>2, <2>3
<1>10. CASE ExecuteQuery
  <2>1. tab' \in TabType
    BY <1>10, Typed DEF ExecuteQuery, Run, BeginExecution, Patch, TabType, Indices
  <2>2. timers' \subseteq Indices
    BY <1>10, Typed DEF ExecuteQuery, Run
  <2>3. visible' \in BOOLEAN /\ ai' \in [generating : BOOLEAN, reviewing : BOOLEAN]
    BY <1>10 DEF ExecuteQuery, Run
  <2>. QED BY <2>1, <2>2, <2>3
<1>11. CASE ExecuteBatch
  <2>1. tab' \in TabType
    BY <1>11, Typed DEF ExecuteBatch, Run, BeginExecution, Patch, TabType, Indices
  <2>2. timers' \subseteq Indices
    BY <1>11, Typed DEF ExecuteBatch, Run
  <2>3. visible' \in BOOLEAN /\ ai' \in [generating : BOOLEAN, reviewing : BOOLEAN]
    BY <1>11 DEF ExecuteBatch, Run
  <2>. QED BY <2>1, <2>2, <2>3
<1>12. CASE RetryOneOfSeveral
  <2>1. tab' \in TabType
    BY <1>12, Typed DEF RetryOneOfSeveral, BeginExecution, Patch, TabType, Indices
  <2>2. timers' \subseteq Indices
    BY <1>12, Typed DEF RetryOneOfSeveral
  <2>3. visible' \in BOOLEAN /\ ai' \in [generating : BOOLEAN, reviewing : BOOLEAN]
    BY <1>12 DEF RetryOneOfSeveral
  <2>. QED BY <2>1, <2>2, <2>3
<1>13. CASE CancelQuery
  <2>1. tab' \in TabType
    BY <1>13, Typed DEF CancelQuery, Patch, TabType, Indices
  <2>2. timers' \subseteq Indices
    BY <1>13, Typed DEF CancelQuery
  <2>3. visible' \in BOOLEAN /\ ai' \in [generating : BOOLEAN, reviewing : BOOLEAN]
    BY <1>13 DEF CancelQuery
  <2>. QED BY <2>1, <2>2, <2>3
<1>14. CASE Hide
  <2>1. tab' \in TabType
    BY <1>14, Typed DEF Hide, TabType, Indices
  <2>2. timers' \subseteq Indices
    BY <1>14, Typed, TimerTyped DEF Hide
  <2>3. visible' \in BOOLEAN /\ ai' \in [generating : BOOLEAN, reviewing : BOOLEAN]
    BY <1>14 DEF Hide
  <2>. QED BY <2>1, <2>2, <2>3
<1>15. CASE Show
  <2>1. tab' \in TabType
    BY <1>15, Typed DEF Show, TabType, Indices
  <2>2. timers' \subseteq Indices
    BY <1>15, Typed DEF Show
  <2>3. visible' \in BOOLEAN /\ ai' \in [generating : BOOLEAN, reviewing : BOOLEAN]
    BY <1>15 DEF Show
  <2>. QED BY <2>1, <2>2, <2>3
<1>16. CASE EditRow
  <2>1. tab' \in TabType
    BY <1>16, Typed DEF EditRow, TabType, Indices
  <2>2. timers' \subseteq Indices
    BY <1>16, Typed DEF EditRow
  <2>3. visible' \in BOOLEAN /\ ai' \in [generating : BOOLEAN, reviewing : BOOLEAN]
    BY <1>16 DEF EditRow
  <2>. QED BY <2>1, <2>2, <2>3
<1>17. CASE Cleanup
  <2>1. tab' \in TabType
    BY <1>17, Typed DEF Cleanup, TabType, Indices
  <2>2. timers' \subseteq Indices
    BY <1>17, Typed DEF Cleanup
  <2>3. visible' \in BOOLEAN /\ ai' \in [generating : BOOLEAN, reviewing : BOOLEAN]
    BY <1>17 DEF Cleanup
  <2>. QED BY <2>1, <2>2, <2>3
<1>18. CASE \E i \in Indices : SetActiveResultIndex(i)
  <2>0. PICK i \in Indices : SetActiveResultIndex(i)
    BY <1>18
  <2>1. tab' \in TabType
    BY <2>0, Typed DEF SetActiveResultIndex, Switch, TabType, Indices
  <2>2. timers' \subseteq Indices
    BY <2>0, Typed, TimerTyped DEF SetActiveResultIndex, Switch
  <2>3. visible' \in BOOLEAN /\ ai' \in [generating : BOOLEAN, reviewing : BOOLEAN]
    BY <2>0 DEF SetActiveResultIndex, Switch
  <2>. QED BY <2>1, <2>2, <2>3
<1>19. CASE \E item \in {"result", "table-data"} : SetActiveBottomPanelItem(item)
  <2>0. PICK item \in {"result", "table-data"} : SetActiveBottomPanelItem(item)
    BY <1>19
  <2>1. tab' \in TabType
    BY <2>0, Typed DEF SetActiveBottomPanelItem, Switch, TabType, Indices
  <2>2. timers' \subseteq Indices
    BY <2>0, Typed, TimerTyped DEF SetActiveBottomPanelItem, Switch
  <2>3. visible' \in BOOLEAN /\ ai' \in [generating : BOOLEAN, reviewing : BOOLEAN]
    BY <2>0 DEF SetActiveBottomPanelItem, Switch
  <2>. QED BY <2>1, <2>2, <2>3
<1>20. CASE AiSend
  <2>1. tab' \in TabType
    BY <1>20, Typed DEF AiSend, Lock, TabType, Indices
  <2>2. timers' \subseteq Indices
    BY <1>20, Typed DEF AiSend
  <2>3. visible' \in BOOLEAN /\ ai' \in [generating : BOOLEAN, reviewing : BOOLEAN]
    BY <1>20 DEF AiSend
  <2>. QED BY <2>1, <2>2, <2>3
<1>21. CASE AiEnd
  <2>1. tab' \in TabType
    BY <1>21, Typed DEF AiEnd, RestoreTabStatus, TabType, Indices
  <2>2. timers' \subseteq Indices
    BY <1>21, Typed DEF AiEnd
  <2>3. visible' \in BOOLEAN /\ ai' \in [generating : BOOLEAN, reviewing : BOOLEAN]
    BY <1>21 DEF AiEnd
  <2>. QED BY <2>1, <2>2, <2>3
<1>22. CASE OpenDiff
  <2>1. tab' \in TabType
    BY <1>22, Typed DEF OpenDiff, Lock, TabType, Indices
  <2>2. timers' \subseteq Indices
    BY <1>22, Typed DEF OpenDiff
  <2>3. visible' \in BOOLEAN /\ ai' \in [generating : BOOLEAN, reviewing : BOOLEAN]
    BY <1>22 DEF OpenDiff
  <2>. QED BY <2>1, <2>2, <2>3
<1>23. CASE CloseDiff
  <2>1. tab' \in TabType
    BY <1>23, Typed DEF CloseDiff, RestoreTabStatus, TabType, Indices
  <2>2. timers' \subseteq Indices
    BY <1>23, Typed DEF CloseDiff
  <2>3. visible' \in BOOLEAN /\ ai' \in [generating : BOOLEAN, reviewing : BOOLEAN]
    BY <1>23 DEF CloseDiff
  <2>. QED BY <2>1, <2>2, <2>3
<1>24. CASE \E i \in Indices : EvictInactive(i)
  <2>0. PICK i \in Indices : EvictInactive(i)
    BY <1>24
  <2>1. tab' \in TabType
    BY <2>0, Typed DEF EvictInactive, TabType, Indices
  <2>2. timers' \subseteq Indices
    BY <2>0, Typed DEF EvictInactive
  <2>3. visible' \in BOOLEAN /\ ai' \in [generating : BOOLEAN, reviewing : BOOLEAN]
    BY <2>0 DEF EvictInactive
  <2>. QED BY <2>1, <2>2, <2>3
<1>25. CASE UNCHANGED vars
  BY <1>25 DEF vars, Indices
<1>. QED BY StepCases, <1>1, <1>2, <1>3, <1>4, <1>5, <1>6, <1>7, <1>8, <1>9, <1>10,
    <1>11, <1>12, <1>13, <1>14, <1>15, <1>16, <1>17, <1>18, <1>19, <1>20, <1>21,
    <1>22, <1>23, <1>24, <1>25

(* A call takes the next number, and is over once it is settled.           *)
LEMMA IssueKeepsCalls ==
  ASSUME CallsOK, NEW c \in CallType, c.id = issued + 1, Issue(c), asked' = asked
  PROVE  CallsOK'
<1>1. issued' = issued + 1 /\ issued' \in ById /\ issued \in Nat
  BY QueryTabAssumption DEF CallsOK, Issue, ById
<1>2. \A d \in calls : d.id \in Nat /\ d.id <= issued
  BY QueryTabAssumption DEF CallsOK, CallsInv, CallType
<1>3. calls' = calls \cup {c} /\ IsFiniteSet(calls')
  BY FS_AddElement DEF CallsOK, CallsInv, Issue
<1>4. \A d \in calls' : d.id <= issued'
  BY <1>1, <1>2, <1>3
<1>. QED BY <1>1, <1>3, <1>4 DEF CallsOK, CallsInv

LEMMA SettleKeepsCalls ==
  ASSUME CallsOK, NEW c, Settle(c), asked' = asked
  PROVE  CallsOK'
<1>1. calls' \subseteq calls /\ issued' = issued /\ IsFiniteSet(calls')
  BY FS_Subset DEF CallsOK, CallsInv, Settle
<1>. QED BY <1>1 DEF CallsOK, CallsInv

LEMMA SameCalls ==
  ASSUME CallsOK, calls' = calls, issued' = issued, asked' = asked
  PROVE  CallsOK'
  BY DEF CallsOK, CallsInv

LEMMA NewCallTyped ==
  ASSUME TabOK, CallsOK, issued < MaxCalls,
         NEW kind \in RunKinds \cup {"cancel", "touch", "restore", "window"},
         NEW index \in Nat, NEW of \in ById, NEW saved \in Executing \cup AiLocks
  PROVE  NewCall(kind, index, of, saved) \in CallType /\ NewCall(kind, index, of, saved).id = issued + 1
<1>1. issued + 1 \in 1 .. MaxCalls
  BY QueryTabAssumption DEF CallsOK, ById
<1>. QED BY <1>1 DEF NewCall, CallType

LEMMA Known ==
  ASSUME TabOK, ResultsOK
  PROVE  /\ tab.status \in Executing \cup AiLocks /\ 0 \in ById /\ 0 \in Nat
         /\ Active \in Nat /\ Len(results) \in Nat
         /\ \A i \in DOMAIN results : results[i].id \in ById /\ results[i].active \in BOOLEAN
         /\ tab.active \in Nat
<1>1. \A i \in DOMAIN results : results[i] \in ResultType
  BY DEF ResultsOK
<1>2. \A i \in DOMAIN results : results[i].id \in ById /\ results[i].active \in BOOLEAN
  BY <1>1 DEF ResultType
<1>3. Active \in Nat
  BY ActiveIsAnIndex
<1>. QED BY <1>2, <1>3, QueryTabAssumption DEF TabOK, TabType, ResultsOK, ById, Indices

LEMMA FiniteInFlight ==
  ASSUME CallsOK
  PROVE  /\ IsFiniteSet(InFlight) /\ Cardinality(InFlight) \in Nat
         /\ Cardinality(InFlight) = 0 <=> InFlight = {}
  BY FS_Subset, FS_CardinalityType, FS_EmptySet DEF InFlight, CallsOK, CallsInv

(* Every step keeps the calls finite and numbered.                         *)
LEMMA CallsStep ==
  ASSUME TabOK, ResultsOK, CallsOK, [Next]_vars
  PROVE  CallsOK'
<1>1. CASE \E c \in calls : ExecuteReply(c)
  <2>0. PICK c \in calls : ExecuteReply(c)
    BY <1>1
  <2>. QED BY <2>0, SettleKeepsCalls DEF ExecuteReply
<1>2. CASE \E c \in calls : RunFailed(c)
  <2>0. PICK c \in calls : RunFailed(c)
    BY <1>2
  <2>. QED BY <2>0, SettleKeepsCalls DEF RunFailed
<1>3. CASE \E c \in calls, n \in Indices : BatchReply(c, n)
  <2>0. PICK c \in calls, n \in Indices : BatchReply(c, n)
    BY <1>3
  <2>. QED BY <2>0, SettleKeepsCalls DEF BatchReply
<1>4. CASE \E c \in calls : RerunReply(c)
  <2>0. PICK c \in calls : RerunReply(c)
    BY <1>4
  <2>. QED BY <2>0, SettleKeepsCalls DEF RerunReply
<1>5. CASE \E c \in calls : RerunFailed(c)
  <2>0. PICK c \in calls : RerunFailed(c)
    BY <1>5
  <2>. QED BY <2>0, SettleKeepsCalls DEF RerunFailed
<1>6. CASE \E c \in calls, killed \in BOOLEAN : CancelReply(c, killed)
  <2>0. PICK c \in calls, killed \in BOOLEAN : CancelReply(c, killed)
    BY <1>6
  <2>. QED BY <2>0, SettleKeepsCalls DEF CancelReply
<1>7. CASE \E c \in calls, answer \in Answers : TouchReply(c, answer)
  <2>0. PICK c \in calls, answer \in Answers : TouchReply(c, answer)
    BY <1>7
  <2>. QED BY <2>0, SettleKeepsCalls DEF TouchReply
<1>8. CASE \E c \in calls, answer \in Answers : RestoreTouched(c, answer)
  <2>0. PICK c \in calls, answer \in Answers : RestoreTouched(c, answer)
    BY <1>8
  <2>1. CASE Settle(c)
    BY <2>0, <2>1, SettleKeepsCalls DEF RestoreTouched
  <2>2. CASE ~Settle(c)
    <3>. DEFINE d == [c EXCEPT !.kind = "window", !.of = results[c.index].id]
    <3>1. calls' = (calls \ {c}) \cup {d} /\ issued' = issued /\ asked' = asked
      BY <2>0, <2>2 DEF RestoreTouched
    <3>2. c.index \in DOMAIN results
      BY <2>0, <2>2 DEF RestoreTouched
    <3>3. c \in CallType /\ c.id <= issued /\ results[c.index].id \in ById
      BY <2>0, <3>2, Known DEF CallsOK, CallsInv
    <3>4. d \in CallType /\ d.id = c.id
      BY <3>3 DEF CallType
    <3>. HIDE DEF d
    <3>5. IsFiniteSet(calls')
      BY <3>1, FS_AddElement, FS_RemoveElement DEF CallsOK, CallsInv
    <3>. QED BY <3>1, <3>3, <3>4, <3>5 DEF CallsOK, CallsInv
  <2>. QED BY <2>1, <2>2
<1>9. CASE \E c \in calls, answer \in {"ok", "failed", "expired"} : WindowReply(c, answer)
  <2>0. PICK c \in calls, answer \in {"ok", "failed", "expired"} : WindowReply(c, answer)
    BY <1>9
  <2>. QED BY <2>0, SettleKeepsCalls DEF WindowReply
<1>10. CASE ExecuteQuery
  <2>. DEFINE d == NewCall("execute", 0, 0, tab.status)
  <2>1. issued < MaxCalls /\ Issue(d) /\ asked' = asked
    BY <1>10 DEF ExecuteQuery, Run, Issue
  <2>2. d \in CallType /\ d.id = issued + 1
    BY <2>1, Known, NewCallTyped DEF RunKinds
  <2>. HIDE DEF d
  <2>. QED BY <2>1, <2>2, IssueKeepsCalls
<1>11. CASE ExecuteBatch
  <2>. DEFINE d == NewCall("batch", Len(results), 0, tab.status)
  <2>1. issued < MaxCalls /\ Issue(d) /\ asked' = asked
    BY <1>11 DEF ExecuteBatch, Run, Issue
  <2>2. d \in CallType /\ d.id = issued + 1
    BY <2>1, Known, NewCallTyped DEF RunKinds
  <2>. HIDE DEF d
  <2>. QED BY <2>1, <2>2, IssueKeepsCalls
<1>12. CASE RetryOneOfSeveral
  <2>. DEFINE d == NewCall("rerun", Active, results[Active].id, tab.status)
  <2>1. issued < MaxCalls /\ Issue(d) /\ asked' = asked
    BY <1>12 DEF RetryOneOfSeveral, Issue
  <2>3. Active \in DOMAIN results
    BY <1>12, ActiveIsAnIndex, EmptySeq DEF RetryOneOfSeveral, ResultsOK
  <2>2. d \in CallType /\ d.id = issued + 1
    BY <2>1, Known, NewCallTyped, <2>3 DEF RunKinds
  <2>. HIDE DEF d
  <2>. QED BY <2>1, <2>2, IssueKeepsCalls
<1>13. CASE CancelQuery
  <2>. DEFINE d == NewCall("cancel", Cardinality(InFlight), 0, tab.status)
  <2>1. issued < MaxCalls /\ issued' = issued + 1 /\ calls' = calls \cup {d}
    BY <1>13 DEF CancelQuery, Issue
  <2>2. d \in CallType /\ d.id = issued + 1
    BY <2>1, Known, FiniteInFlight, NewCallTyped
  <2>. HIDE DEF d
  <2>3. asked' \subseteq 1 .. MaxCalls
    BY <1>13 DEF CancelQuery, InFlight, CallsOK, CallType
  <2>4. IsFiniteSet(calls') /\ issued' \in ById
    BY <2>1, FS_AddElement, QueryTabAssumption DEF CallsOK, CallsInv, ById
  <2>5. \A c \in calls' : c.id <= issued'
    BY <2>1, <2>2, QueryTabAssumption DEF CallsOK, CallsInv, CallType, ById
  <2>. QED BY <2>1, <2>2, <2>3, <2>4, <2>5 DEF CallsOK, CallsInv
<1>14. CASE Hide
  BY <1>14, SameCalls DEF Hide
<1>15. CASE Show
  <2>1. CASE UNCHANGED <<calls, issued>>
    BY <1>15, <2>1, SameCalls DEF Show
  <2>2. CASE ~UNCHANGED <<calls, issued>>
    <3>1. Active \in DOMAIN results
      BY <1>15, <2>2, ActiveIsAnIndex, EmptySeq DEF Show, ResultsOK
    <3>. DEFINE restores == NeedsRestore(Active)
                midway   == IF restores THEN "restoring" ELSE tab.status
                restore  == IF restores THEN {RestoreCall(Active)} ELSE {}
                t        == [NewCall("touch", 0, 0, midway) EXCEPT
                                !.id = issued + Cardinality(restore) + 1]
                touch    == IF results[Active].id # 0 THEN {t} ELSE {}
                new      == restore \cup touch
    <3>2. /\ issued + Cardinality(new) <= MaxCalls
          /\ issued' = issued + Cardinality(new) /\ calls' = calls \cup new /\ asked' = asked
      BY <1>15, <2>2 DEF Show
    <3>3. Cardinality(restore) = (IF restores THEN 1 ELSE 0) /\ IsFiniteSet(restore)
      BY FS_EmptySet, FS_Singleton
    <3>4. issued \in Nat /\ MaxCalls \in Nat
      BY QueryTabAssumption DEF CallsOK, ById
    <3>5. restores => RestoreCall(Active).id = issued + 1
      BY DEF RestoreCall, NewCall
    <3>6. t.id = issued + Cardinality(restore) + 1
      BY DEF NewCall
    <3>7. Cardinality(touch) = (IF results[Active].id # 0 THEN 1 ELSE 0) /\ IsFiniteSet(touch)
      BY FS_EmptySet, FS_Singleton
    <3>8. restores => results[Active].id # 0
      BY DEF NeedsRestore
    <3>9. restore \cap touch = {}
      <4>1. \A d \in restore : d.id = issued + 1 /\ Cardinality(restore) = 1
        BY <3>3, <3>5
      <4>2. \A d \in touch : d.id = issued + Cardinality(restore) + 1
        BY <3>6
      <4>. HIDE DEF restore, touch
      <4>. QED BY <4>1, <4>2, <3>4
    <3>10. /\ IsFiniteSet(new)
           /\ Cardinality(new) = Cardinality(restore) + Cardinality(touch)
      BY <3>3, <3>7, <3>9, FS_Union, FS_EmptySet
    <3>11. results[Active].id # 0
      BY <2>2, <3>2, <3>3, <3>4, <3>7, <3>8, <3>10
    <3>12. /\ issued' \in ById /\ IsFiniteSet(calls')
      <4>. HIDE DEF new, restore, touch
      <4>1. Cardinality(new) \in Nat
        BY <3>10, FS_CardinalityType
      <4>2. IsFiniteSet(calls')
        BY <3>2, <3>10, FS_Union DEF CallsOK, CallsInv
      <4>. QED BY <4>1, <4>2, <3>2, <3>4 DEF ById
    <3>13. t \in CallType /\ t.id <= issued'
      <4>1. t.id <= issued' /\ t.id \in 1 .. MaxCalls
        BY <3>2, <3>3, <3>4, <3>6, <3>7, <3>10, <3>11
      <4>2. midway \in Executing \cup AiLocks
        BY Known DEF Executing
      <4>3. t = [kind |-> "touch", id |-> t.id, index |-> 0, of |-> 0, saved |-> midway]
        BY <3>6 DEF NewCall
      <4>. HIDE DEF t, midway
      <4>. QED BY <4>1, <4>2, <4>3, Known DEF CallType
    <3>14. restores => RestoreCall(Active) \in CallType /\ RestoreCall(Active).id <= issued'
      <4>. SUFFICES ASSUME restores
                    PROVE  RestoreCall(Active) \in CallType /\ RestoreCall(Active).id <= issued'
        OBVIOUS
      <4>1. issued < MaxCalls /\ issued + 1 <= issued'
        BY <3>2, <3>3, <3>4, <3>7, <3>10, <3>11
      <4>2. results[Active].id \in ById
        BY <3>1, Known
      <4>. QED BY <4>1, <4>2, <3>5, Known, NewCallTyped DEF RestoreCall
    <3>15. new \subseteq CallType /\ \A d \in new : d.id <= issued'
      BY <3>13, <3>14
    <3>16. \A d \in calls : d.id <= issued'
      BY <3>2, <3>3, <3>4, <3>7, <3>10, QueryTabAssumption DEF CallsOK, CallsInv, CallType
    <3>. HIDE DEF new
    <3>. QED BY <3>2, <3>12, <3>15, <3>16 DEF CallsOK, CallsInv
  <2>. QED BY <2>1, <2>2
<1>16. CASE EditRow
  BY <1>16, SameCalls DEF EditRow
<1>17. CASE Cleanup
  BY <1>17, SameCalls DEF Cleanup
<1>18. CASE \E i \in Indices : SetActiveResultIndex(i)
  <2>0. PICK i \in Indices : SetActiveResultIndex(i)
    BY <1>18
  <2>1. CASE UNCHANGED <<calls, issued>>
    BY <2>0, <2>1, SameCalls DEF SetActiveResultIndex, Switch
  <2>2. CASE ~UNCHANGED <<calls, issued>>
    <3>. DEFINE d == NewCall("restore", i, results[i].id, tab.status)
    <3>1. i \in DOMAIN results /\ Issue(d) /\ asked' = asked
      BY <2>0, <2>2 DEF SetActiveResultIndex, Switch, RestoreCall, NeedsRestore, Evicted
    <3>2. issued < MaxCalls /\ i \in Nat
      BY <3>1, Known DEF ResultsOK, Issue
    <3>3. d \in CallType /\ d.id = issued + 1
      BY <3>1, <3>2, Known, NewCallTyped
    <3>. HIDE DEF d
    <3>. QED BY <3>1, <3>3, IssueKeepsCalls
  <2>. QED BY <2>1, <2>2
<1>19. CASE \E item \in {"result", "table-data"} : SetActiveBottomPanelItem(item)
  <2>0. PICK item \in {"result", "table-data"} : SetActiveBottomPanelItem(item)
    BY <1>19
  <2>1. CASE UNCHANGED <<calls, issued>>
    BY <2>0, <2>1, SameCalls DEF SetActiveBottomPanelItem, Switch
  <2>2. CASE ~UNCHANGED <<calls, issued>>
    <3>. DEFINE d == NewCall("restore", tab.active, results[tab.active].id, tab.status)
    <3>1. tab.active \in DOMAIN results /\ Issue(d) /\ asked' = asked
      BY <2>0, <2>2 DEF SetActiveBottomPanelItem, Switch, RestoreCall, NeedsRestore, Evicted
    <3>2. issued < MaxCalls /\ tab.active \in Nat
      BY <3>1, Known DEF ResultsOK, Issue
    <3>3. d \in CallType /\ d.id = issued + 1
      BY <3>1, <3>2, Known, NewCallTyped
    <3>. HIDE DEF d
    <3>. QED BY <3>1, <3>3, IssueKeepsCalls
  <2>. QED BY <2>1, <2>2
<1>20. CASE AiSend
  BY <1>20, SameCalls DEF AiSend
<1>21. CASE AiEnd
  BY <1>21, SameCalls DEF AiEnd
<1>22. CASE OpenDiff
  BY <1>22, SameCalls DEF OpenDiff
<1>23. CASE CloseDiff
  BY <1>23, SameCalls DEF CloseDiff
<1>24. CASE \E i \in Indices : EvictInactive(i)
  <2>0. PICK i \in Indices : EvictInactive(i)
    BY <1>24
  <2>. QED BY <2>0, SameCalls DEF EvictInactive
<1>25. CASE UNCHANGED vars
  BY <1>25 DEF vars, CallsOK, CallsInv
<1>. QED BY StepCases, <1>1, <1>2, <1>3, <1>4, <1>5, <1>6, <1>7, <1>8, <1>9, <1>10,
    <1>11, <1>12, <1>13, <1>14, <1>15, <1>16, <1>17, <1>18, <1>19, <1>20, <1>21,
    <1>22, <1>23, <1>24, <1>25

----------
(* The cancel flag.                                                        *)
NoBackendRun(c) == c.kind = "cancel" /\ c.index = 0

LEMMA FlagReset == ASSUME tab'.open => ~tab'.wasCancelled  PROVE CancelInv'
  BY DEF CancelInv

LEMMA FlagKept ==
  ASSUME CancelInv, tab'.open => tab.open, tab'.wasCancelled = tab.wasCancelled,
         asked' = asked,
         \A c \in calls' : c.kind \in RunKinds => c \in calls,
         \A c \in calls : c.kind \in RunKinds \/ NoBackendRun(c) => c \in calls'
  PROVE  CancelInv'
<1>1. InFlight' = InFlight
  BY DEF InFlight
<1>2. \A c \in calls : c.kind = "cancel" /\ c.index = 0 => c \in calls'
  BY DEF NoBackendRun
<1>. QED BY <1>1, <1>2 DEF CancelInv

(* Every step keeps the flag true to the runs.                             *)
LEMMA CancelStep ==
  ASSUME TabOK, ResultsOK, CallsOK, CancelInv, [Next]_vars
  PROVE  CancelInv'
<1>1. CASE \E c \in calls : ExecuteReply(c)
  <2>0. PICK c \in calls : ExecuteReply(c)
    BY <1>1
  <2>1. CASE tab.open
    <3>1. ~tab'.wasCancelled
      BY <2>0, <2>1 DEF ExecuteReply, Finished, FinalizeExecution, Patch, TabOK, TabType
    <3>. QED BY <3>1, FlagReset
  <2>2. CASE ~tab.open
    <3>1. ~tab'.open
      BY <2>0, <2>2 DEF ExecuteReply
    <3>. QED BY <3>1, FlagReset
  <2>. QED BY <2>1, <2>2
<1>2. CASE \E c \in calls : RunFailed(c)
  <2>0. PICK c \in calls : RunFailed(c)
    BY <1>2
  <2>1. CASE tab.open
    <3>1. ~tab'.wasCancelled
      BY <2>0, <2>1 DEF RunFailed, Finished, FinalizeExecution, Patch, TabOK, TabType
    <3>. QED BY <3>1, FlagReset
  <2>2. CASE ~tab.open
    <3>1. ~tab'.open
      BY <2>0, <2>2 DEF RunFailed
    <3>. QED BY <3>1, FlagReset
  <2>. QED BY <2>1, <2>2
<1>3. CASE \E c \in calls, n \in Indices : BatchReply(c, n)
  <2>0. PICK c \in calls, n \in Indices : BatchReply(c, n)
    BY <1>3
  <2>1. CASE tab.open
    <3>1. ~tab'.wasCancelled
      BY <2>0, <2>1 DEF BatchReply, Finished, FinalizeExecution, Patch, TabOK, TabType
    <3>. QED BY <3>1, FlagReset
  <2>2. CASE ~tab.open
    <3>1. ~tab'.open
      BY <2>0, <2>2 DEF BatchReply
    <3>. QED BY <3>1, FlagReset
  <2>. QED BY <2>1, <2>2
<1>4. CASE \E c \in calls : RerunReply(c)
  <2>0. PICK c \in calls : RerunReply(c)
    BY <1>4
  <2>1. CASE tab.open
    <3>1. ~tab'.wasCancelled
      BY <2>0, <2>1 DEF RerunReply, FinalizeExecution, Patch, TabOK, TabType
    <3>. QED BY <3>1, FlagReset
  <2>2. CASE ~tab.open
    <3>1. ~tab'.open
      BY <2>0, <2>2 DEF RerunReply
    <3>. QED BY <3>1, FlagReset
  <2>. QED BY <2>1, <2>2
<1>5. CASE \E c \in calls : RerunFailed(c)
  <2>0. PICK c \in calls : RerunFailed(c)
    BY <1>5
  <2>1. CASE tab.open
    <3>1. ~tab'.wasCancelled
      BY <2>0, <2>1 DEF RerunFailed, FinalizeExecution, Patch, TabOK, TabType
    <3>. QED BY <3>1, FlagReset
  <2>2. CASE ~tab.open
    <3>1. ~tab'.open
      BY <2>0, <2>2 DEF RerunFailed
    <3>. QED BY <3>1, FlagReset
  <2>. QED BY <2>1, <2>2
<1>6. CASE \E c \in calls, killed \in BOOLEAN : CancelReply(c, killed)
  <2>0. PICK c \in calls, killed \in BOOLEAN : CancelReply(c, killed)
    BY <1>6
  <2>1. CASE ~killed
    <3>1. tab'.open => ~tab'.wasCancelled
      BY <2>0, <2>1 DEF CancelReply, FinalizeExecution, Patch, TabOK, TabType
    <3>. QED BY <3>1, FlagReset
  <2>2. CASE killed
    <3>1. tab' = tab /\ asked' = asked /\ calls' = calls \ {c} /\ c.kind = "cancel" /\ c.index > 0
      BY <2>0, <2>2 DEF CancelReply, Settle
    <3>2. c.index # 0
      BY <3>1, CallTyped
    <3>3. \A d \in calls : d.kind \in RunKinds \/ NoBackendRun(d) => d \in calls'
      BY <3>1, <3>2 DEF RunKinds, NoBackendRun
    <3>. QED BY <3>1, <3>3, FlagKept
  <2>. QED BY <2>1, <2>2
<1>7. CASE \E c \in calls, answer \in Answers : TouchReply(c, answer)
  <2>0. PICK c \in calls, answer \in Answers : TouchReply(c, answer)
    BY <1>7
  <2>1. asked' = asked
    BY <2>0 DEF TouchReply
  <2>2. \A d \in calls' : d.kind \in RunKinds => d \in calls
    BY <2>0 DEF TouchReply, Settle, Issue, RestoreCall, NewCall, RunKinds
  <2>3. \A d \in calls : d.kind \in RunKinds \/ NoBackendRun(d) => d \in calls'
    BY <2>0 DEF TouchReply, Settle, Issue, RunKinds, NoBackendRun
  <2>4. CASE (tab'.open => tab.open) /\ tab'.wasCancelled = tab.wasCancelled
    BY <2>1, <2>2, <2>3, <2>4, FlagKept
  <2>5. CASE ~tab'.wasCancelled
    BY <2>5, FlagReset
  <2>6. tab' = tab \/ tab' = [tab EXCEPT !.status = c.saved]
        \/ tab' = [Default(TRUE) EXCEPT !.status = c.saved]
    BY <2>0, TouchedIs
  <2>. QED BY <2>4, <2>5, <2>6 DEF TabOK, TabType, Default
<1>8. CASE \E c \in calls, answer \in Answers : RestoreTouched(c, answer)
  <2>0. PICK c \in calls, answer \in Answers : RestoreTouched(c, answer)
    BY <1>8
  <2>1. /\ tab'.open => tab.open
        /\ tab'.wasCancelled = tab.wasCancelled
        /\ asked' = asked
    BY <2>0 DEF RestoreTouched, PutBack, TabOK, TabType
  <2>. DEFINE w == [c EXCEPT !.kind = "window", !.of = results[c.index].id]
  <2>2. calls' = calls \ {c} \/ calls' = (calls \ {c}) \cup {w}
    BY <2>0 DEF RestoreTouched, Settle
  <2>3. w.kind = "window" /\ c.kind = "restore"
    BY <2>0 DEF RestoreTouched, CallsOK, CallType
  <2>. HIDE DEF w
  <2>4. \A d \in calls' : d.kind \in RunKinds => d \in calls
    BY <2>2, <2>3 DEF RunKinds
  <2>5. \A d \in calls : d.kind \in RunKinds \/ NoBackendRun(d) => d \in calls'
    BY <2>2, <2>3 DEF RunKinds, NoBackendRun
  <2>. QED BY <2>1, <2>4, <2>5, FlagKept
<1>9. CASE \E c \in calls, answer \in {"ok", "failed", "expired"} : WindowReply(c, answer)
  <2>0. PICK c \in calls, answer \in {"ok", "failed", "expired"} : WindowReply(c, answer)
    BY <1>9
  <2>1. /\ tab'.open => tab.open
        /\ tab'.wasCancelled = tab.wasCancelled
        /\ asked' = asked
    BY <2>0 DEF WindowReply, PutBack, TabOK, TabType
  <2>2. \A d \in calls' : d.kind \in RunKinds => d \in calls
    BY <2>0 DEF WindowReply, PutBack, Settle, Issue, RestoreCall, NewCall, RunKinds
  <2>3. \A d \in calls : d.kind \in RunKinds \/ NoBackendRun(d) => d \in calls'
    BY <2>0 DEF WindowReply, PutBack, Settle, Issue, RunKinds, NoBackendRun
  <2>. QED BY <2>1, <2>2, <2>3, FlagKept
<1>10. CASE ExecuteQuery
  <2>1. CASE tab.open
    <3>1. ~tab'.wasCancelled
      BY <1>10, <2>1 DEF ExecuteQuery, Run, BeginExecution, Patch, TabOK, TabType
    <3>. QED BY <3>1, FlagReset
  <2>2. CASE ~tab.open
    <3>1. ~tab'.open
      BY <1>10, <2>2 DEF ExecuteQuery, Run
    <3>. QED BY <3>1, FlagReset
  <2>. QED BY <2>1, <2>2
<1>11. CASE ExecuteBatch
  <2>1. CASE tab.open
    <3>1. ~tab'.wasCancelled
      BY <1>11, <2>1 DEF ExecuteBatch, Run, BeginExecution, Patch, TabOK, TabType
    <3>. QED BY <3>1, FlagReset
  <2>2. CASE ~tab.open
    <3>1. ~tab'.open
      BY <1>11, <2>2 DEF ExecuteBatch, Run
    <3>. QED BY <3>1, FlagReset
  <2>. QED BY <2>1, <2>2
<1>12. CASE RetryOneOfSeveral
  <2>1. CASE tab.open
    <3>1. ~tab'.wasCancelled
      BY <1>12, <2>1 DEF RetryOneOfSeveral, BeginExecution, Patch, TabOK, TabType
    <3>. QED BY <3>1, FlagReset
  <2>2. CASE ~tab.open
    <3>1. ~tab'.open
      BY <1>12, <2>2 DEF RetryOneOfSeveral
    <3>. QED BY <3>1, FlagReset
  <2>. QED BY <2>1, <2>2
<1>13. CASE CancelQuery
  <2>. DEFINE d == NewCall("cancel", Cardinality(InFlight), 0, tab.status)
  <2>1. calls' = calls \cup {d} /\ asked' = asked \cup {c.id : c \in InFlight}
    BY <1>13 DEF CancelQuery, Issue
  <2>2. d.kind = "cancel" /\ d.index = Cardinality(InFlight)
    BY DEF NewCall
  <2>. HIDE DEF d
  <2>3. InFlight' = InFlight
    BY <2>1, <2>2 DEF InFlight, RunKinds
  <2>4. \A c \in InFlight : c.id \in asked'
    BY <2>1
  <2>5. CASE InFlight = {}
    <3>1. d \in calls' /\ d.index = 0
      BY <2>1, <2>2, <2>5, FiniteInFlight
    <3>. QED BY <2>2, <2>3, <2>4, <3>1 DEF CancelInv
  <2>6. CASE InFlight # {}
    BY <2>3, <2>4, <2>6 DEF CancelInv
  <2>. QED BY <2>5, <2>6
<1>14. CASE Hide
  <2>1. /\ tab'.open => tab.open
        /\ tab'.wasCancelled = tab.wasCancelled
        /\ asked' = asked
    BY <1>14 DEF Hide, TabOK, TabType
  <2>2. \A d \in calls' : d.kind \in RunKinds => d \in calls
    BY <1>14 DEF Hide, Settle, Issue, RestoreCall, NewCall, RunKinds
  <2>3. \A d \in calls : d.kind \in RunKinds \/ NoBackendRun(d) => d \in calls'
    BY <1>14 DEF Hide, Settle, Issue, RunKinds, NoBackendRun
  <2>. QED BY <2>1, <2>2, <2>3, FlagKept
<1>15. CASE Show
  <2>1. tab'.open = tab.open /\ tab'.wasCancelled = tab.wasCancelled /\ asked' = asked
    BY <1>15 DEF Show, TabOK, TabType
  <2>2. calls \subseteq calls' /\ \A d \in calls' \ calls : d.kind \in {"restore", "touch"}
    <3>1. CASE calls' = calls
      BY <3>1
    <3>2. CASE calls' # calls
      <4>. DEFINE midway  == IF NeedsRestore(Active) THEN "restoring" ELSE tab.status
                  restore == IF NeedsRestore(Active) THEN {RestoreCall(Active)} ELSE {}
                  t       == [NewCall("touch", 0, 0, midway) EXCEPT
                                !.id = issued + Cardinality(restore) + 1]
                  touch   == IF results[Active].id # 0 THEN {t} ELSE {}
      <4>1. calls' = calls \cup (restore \cup touch)
        BY <1>15, <3>2 DEF Show
      <4>2. \A d \in restore : d.kind = "restore"
        BY DEF RestoreCall, NewCall
      <4>3. \A d \in touch : d.kind = "touch"
        BY DEF NewCall
      <4>. HIDE DEF restore, touch
      <4>. QED BY <4>1, <4>2, <4>3
    <3>. QED BY <3>1, <3>2
  <2>3. \A d \in calls' : d.kind \in RunKinds => d \in calls
    BY <2>2 DEF RunKinds
  <2>4. calls \subseteq calls'
    BY <2>2
  <2>. QED BY <2>1, <2>3, <2>4, FlagKept
<1>16. CASE EditRow
  <2>1. /\ tab'.open => tab.open
        /\ tab'.wasCancelled = tab.wasCancelled
        /\ asked' = asked
    BY <1>16 DEF EditRow, TabOK, TabType
  <2>2. \A d \in calls' : d.kind \in RunKinds => d \in calls
    BY <1>16 DEF EditRow, Settle, Issue, RestoreCall, NewCall, RunKinds
  <2>3. \A d \in calls : d.kind \in RunKinds \/ NoBackendRun(d) => d \in calls'
    BY <1>16 DEF EditRow, Settle, Issue, RunKinds, NoBackendRun
  <2>. QED BY <2>1, <2>2, <2>3, FlagKept
<1>17. CASE Cleanup
  <2>1. ~tab'.open
    BY <1>17 DEF Cleanup, TabOK, TabType
  <2>. QED BY <2>1, FlagReset
<1>18. CASE \E i \in Indices : SetActiveResultIndex(i)
  <2>0. PICK i \in Indices : SetActiveResultIndex(i)
    BY <1>18
  <2>1. /\ tab'.open => tab.open
        /\ tab'.wasCancelled = tab.wasCancelled
        /\ asked' = asked
    BY <2>0 DEF SetActiveResultIndex, Switch, TabOK, TabType
  <2>2. \A d \in calls' : d.kind \in RunKinds => d \in calls
    BY <2>0 DEF SetActiveResultIndex, Switch, Settle, Issue, RestoreCall, NewCall, RunKinds
  <2>3. \A d \in calls : d.kind \in RunKinds \/ NoBackendRun(d) => d \in calls'
    BY <2>0 DEF SetActiveResultIndex, Switch, Settle, Issue, RunKinds, NoBackendRun
  <2>. QED BY <2>1, <2>2, <2>3, FlagKept
<1>19. CASE \E item \in {"result", "table-data"} : SetActiveBottomPanelItem(item)
  <2>0. PICK item \in {"result", "table-data"} : SetActiveBottomPanelItem(item)
    BY <1>19
  <2>1. /\ tab'.open => tab.open
        /\ tab'.wasCancelled = tab.wasCancelled
        /\ asked' = asked
    BY <2>0 DEF SetActiveBottomPanelItem, Switch, TabOK, TabType
  <2>2. \A d \in calls' : d.kind \in RunKinds => d \in calls
    BY <2>0 DEF SetActiveBottomPanelItem, Switch, Settle, Issue, RestoreCall, NewCall, RunKinds
  <2>3. \A d \in calls : d.kind \in RunKinds \/ NoBackendRun(d) => d \in calls'
    BY <2>0 DEF SetActiveBottomPanelItem, Switch, Settle, Issue, RunKinds, NoBackendRun
  <2>. QED BY <2>1, <2>2, <2>3, FlagKept
<1>20. CASE AiSend
  <2>1. /\ tab'.open => tab.open
        /\ tab'.wasCancelled = tab.wasCancelled
        /\ asked' = asked
    BY <1>20 DEF AiSend, Lock, TabOK, TabType
  <2>2. \A d \in calls' : d.kind \in RunKinds => d \in calls
    BY <1>20 DEF AiSend, Lock, Settle, Issue, RestoreCall, NewCall, RunKinds
  <2>3. \A d \in calls : d.kind \in RunKinds \/ NoBackendRun(d) => d \in calls'
    BY <1>20 DEF AiSend, Lock, Settle, Issue, RunKinds, NoBackendRun
  <2>. QED BY <2>1, <2>2, <2>3, FlagKept
<1>21. CASE AiEnd
  <2>1. /\ tab'.open => tab.open
        /\ tab'.wasCancelled = tab.wasCancelled
        /\ asked' = asked
    BY <1>21 DEF AiEnd, RestoreTabStatus, TabOK, TabType
  <2>2. \A d \in calls' : d.kind \in RunKinds => d \in calls
    BY <1>21 DEF AiEnd, RestoreTabStatus, Settle, Issue, RestoreCall, NewCall, RunKinds
  <2>3. \A d \in calls : d.kind \in RunKinds \/ NoBackendRun(d) => d \in calls'
    BY <1>21 DEF AiEnd, RestoreTabStatus, Settle, Issue, RunKinds, NoBackendRun
  <2>. QED BY <2>1, <2>2, <2>3, FlagKept
<1>22. CASE OpenDiff
  <2>1. /\ tab'.open => tab.open
        /\ tab'.wasCancelled = tab.wasCancelled
        /\ asked' = asked
    BY <1>22 DEF OpenDiff, Lock, TabOK, TabType
  <2>2. \A d \in calls' : d.kind \in RunKinds => d \in calls
    BY <1>22 DEF OpenDiff, Lock, Settle, Issue, RestoreCall, NewCall, RunKinds
  <2>3. \A d \in calls : d.kind \in RunKinds \/ NoBackendRun(d) => d \in calls'
    BY <1>22 DEF OpenDiff, Lock, Settle, Issue, RunKinds, NoBackendRun
  <2>. QED BY <2>1, <2>2, <2>3, FlagKept
<1>23. CASE CloseDiff
  <2>1. /\ tab'.open => tab.open
        /\ tab'.wasCancelled = tab.wasCancelled
        /\ asked' = asked
    BY <1>23 DEF CloseDiff, RestoreTabStatus, TabOK, TabType
  <2>2. \A d \in calls' : d.kind \in RunKinds => d \in calls
    BY <1>23 DEF CloseDiff, RestoreTabStatus, Settle, Issue, RestoreCall, NewCall, RunKinds
  <2>3. \A d \in calls : d.kind \in RunKinds \/ NoBackendRun(d) => d \in calls'
    BY <1>23 DEF CloseDiff, RestoreTabStatus, Settle, Issue, RunKinds, NoBackendRun
  <2>. QED BY <2>1, <2>2, <2>3, FlagKept
<1>24. CASE \E i \in Indices : EvictInactive(i)
  <2>0. PICK i \in Indices : EvictInactive(i)
    BY <1>24
  <2>1. /\ tab'.open => tab.open
        /\ tab'.wasCancelled = tab.wasCancelled
        /\ asked' = asked
    BY <2>0 DEF EvictInactive, TabOK, TabType
  <2>2. \A d \in calls' : d.kind \in RunKinds => d \in calls
    BY <2>0 DEF EvictInactive, Settle, Issue, RestoreCall, NewCall, RunKinds
  <2>3. \A d \in calls : d.kind \in RunKinds \/ NoBackendRun(d) => d \in calls'
    BY <2>0 DEF EvictInactive, Settle, Issue, RunKinds, NoBackendRun
  <2>. QED BY <2>1, <2>2, <2>3, FlagKept
<1>25. CASE UNCHANGED vars
  BY <1>25 DEF vars, CancelInv, InFlight
<1>. QED BY StepCases, <1>1, <1>2, <1>3, <1>4, <1>5, <1>6, <1>7, <1>8, <1>9, <1>10,
    <1>11, <1>12, <1>13, <1>14, <1>15, <1>16, <1>17, <1>18, <1>19, <1>20, <1>21,
    <1>22, <1>23, <1>24, <1>25

----------
(* What the store's helpers leave of a result: its id and outcome; and, but for *)
(* the helpers that set it, its active mark.                               *)
SameIds(rs, ss) ==
    /\ DOMAIN ss = DOMAIN rs
    /\ \A i \in DOMAIN rs : ss[i].id = rs[i].id /\ ss[i].outcome = rs[i].outcome

SameMarks(rs, ss) == SameIds(rs, ss) /\ \A i \in DOMAIN rs : ss[i].active = rs[i].active

LEMMA HelpersKeep ==
  ASSUME NEW rs \in Seq(ResultType)
  PROVE  /\ SameMarks(rs, rs) /\ SameMarks(rs, MarkExpired(rs)) /\ SameMarks(rs, ClearExpired(rs))
         /\ \A i \in Nat, state \in {"resident", "evicted", "restoring"} :
               SameMarks(rs, Residency(rs, i, state))
         /\ \A i \in Nat : SameIds(rs, MarkActive(rs, i)) /\ SameIds(rs, MarkInactive(rs, i))
<1>1. \A i \in DOMAIN rs : rs[i] \in ResultType
  OBVIOUS
<1>2. SameMarks(rs, rs) /\ SameMarks(rs, MarkExpired(rs)) /\ SameMarks(rs, ClearExpired(rs))
  BY <1>1 DEF SameMarks, SameIds, MarkExpired, ClearExpired, ResultType
<1>3. ASSUME NEW i \in Nat, NEW state \in {"resident", "evicted", "restoring"}
      PROVE  SameMarks(rs, Residency(rs, i, state))
  BY <1>1 DEF SameMarks, SameIds, Residency, ResultType
<1>4. ASSUME NEW i \in Nat
      PROVE  SameIds(rs, MarkActive(rs, i)) /\ SameIds(rs, MarkInactive(rs, i))
  BY <1>1 DEF SameIds, MarkActive, MarkInactive, ResultType
<1>. QED BY <1>2, <1>3, <1>4

LEMMA EnteredKeeps ==
  ASSUME NEW rs \in Seq(ResultType), NEW i \in Nat
  PROVE  SameIds(rs, Entered(rs, i)) /\ (i \in DOMAIN rs => Entered(rs, i)[i].active)
<1>. DEFINE ms == MarkActive(rs, i)
<1>1. SameIds(rs, ms) /\ ms \in Seq(ResultType)
  BY HelpersKeep, MarkedResults DEF SameShape
<1>2. i \in DOMAIN rs => ms[i].active
  <2>. SUFFICES ASSUME i \in DOMAIN rs  PROVE ms[i].active
    OBVIOUS
  <2>1. rs[i] \in ResultType
    OBVIOUS
  <2>. QED BY <2>1 DEF MarkActive, ResultType
<1>3. Entered(rs, i) = ms \/ Entered(rs, i) = MarkExpired(ms)
        \/ Entered(rs, i) = Residency(ms, i, "restoring")
  BY DEF Entered
<1>. HIDE DEF ms
<1>4. SameMarks(ms, Entered(rs, i))
  BY <1>1, <1>3, HelpersKeep
<1>. QED BY <1>1, <1>2, <1>4 DEF SameMarks, SameIds

(* A call that returns rows marks results, or moves the rows of one.       *)
LEMMA ReplyKeeps ==
  ASSUME ResultsOK, CallsOK, NEW c \in calls, NEW answer,
         TouchReply(c, answer) \/ RestoreTouched(c, answer) \/ WindowReply(c, answer)
  PROVE  SameMarks(results, results')
<1>1. results \in Seq(ResultType) /\ c.index \in Nat
  BY CallTyped DEF ResultsOK
<1>2. \/ results' = results
      \/ results' = MarkExpired(results)
      \/ results' = Residency(results, c.index, "evicted")
      \/ results' = Residency(MarkExpired(results), c.index, "evicted")
      \/ results' = MarkExpired(Residency(results, c.index, "evicted"))
      \/ /\ c.index \in DOMAIN results
         /\ results' = [results EXCEPT ![c.index].rows = "resident",
                                       ![c.index].expired = FALSE]
  BY DEF TouchReply, RestoreTouched, WindowReply
<1>3. MarkExpired(results) \in Seq(ResultType) /\ Residency(results, c.index, "evicted") \in Seq(ResultType)
  BY <1>1, RepliedResults DEF SameShape
<1>4. SameMarks(results, MarkExpired(results)) /\ SameMarks(results, Residency(results, c.index, "evicted"))
  BY <1>1, HelpersKeep
<1>5. /\ SameMarks(MarkExpired(results), Residency(MarkExpired(results), c.index, "evicted"))
      /\ SameMarks(Residency(results, c.index, "evicted"),
                   MarkExpired(Residency(results, c.index, "evicted")))
  BY <1>1, <1>3, HelpersKeep
<1>6. CASE /\ c.index \in DOMAIN results
           /\ results' = [results EXCEPT ![c.index].rows = "resident",
                                         ![c.index].expired = FALSE]
  <2>1. \A i \in DOMAIN results : results[i] \in ResultType
    BY <1>1
  <2>. QED BY <1>6, <2>1 DEF SameMarks, SameIds, ResultType
<1>. QED BY <1>1, <1>2, <1>4, <1>5, <1>6, HelpersKeep DEF SameMarks, SameIds

(* A run that starts clears marks, and so does one that is retried.        *)
LEMMA RunKeeps ==
  ASSUME TabOK, ResultsOK, ExecuteQuery \/ ExecuteBatch \/ RetryOneOfSeveral
  PROVE  SameMarks(results, results')
<1>. DEFINE cleared == ClearExpired(results)
            r       == [cleared[Active] EXCEPT !.dirty = FALSE]
<1>1. results' = cleared \/ results' = PatchResult(cleared, Active, r)
  BY DEF ExecuteQuery, ExecuteBatch, RetryOneOfSeveral, Run
<1>2. SameMarks(results, cleared) /\ cleared \in Seq(ResultType)
  BY HelpersKeep, MarkedResults DEF ResultsOK, SameShape
<1>. HIDE DEF cleared
<1>3. \A i \in DOMAIN cleared : cleared[i] \in ResultType
  BY <1>2
<1>4. SameMarks(cleared, PatchResult(cleared, Active, r))
  BY <1>3 DEF PatchResult, SameMarks, SameIds, ResultType
<1>. HIDE DEF r
<1>. QED BY <1>1, <1>2, <1>4 DEF SameMarks, SameIds

LEMMA OthersKeep ==
  ASSUME TabOK, ResultsOK
  PROVE  /\ EditRow => SameMarks(results, results')
         /\ \A i \in Indices : EvictInactive(i) => SameMarks(results, results')
         /\ \A c \in calls : RerunFailed(c) => SameMarks(results, results')
<1>1. ASSUME EditRow  PROVE SameMarks(results, results')
  <2>1. /\ Active \in DOMAIN results
        /\ results' = [results EXCEPT ![Active].dirty = ~results[Active].dirty]
    BY <1>1, ActiveIsAnIndex, EmptySeq DEF EditRow
  <2>2. \A i \in DOMAIN results : results[i] \in ResultType
    BY <1>1 DEF ResultsOK
  <2>. QED BY <2>1, <2>2 DEF SameMarks, SameIds, ResultType
<1>2. ASSUME NEW i \in Indices, EvictInactive(i)  PROVE SameMarks(results, results')
  <2>1. results' = results \/ results' = Residency(results, i, "evicted")
    BY <1>2 DEF EvictInactive
  <2>2. results \in Seq(ResultType) /\ i \in Nat
    BY <1>2, QueryTabAssumption DEF ResultsOK, Indices
  <2>. QED BY <2>1, <2>2, HelpersKeep
<1>3. ASSUME NEW c \in calls, RerunFailed(c)  PROVE SameMarks(results, results')
  BY <1>3, HelpersKeep DEF RerunFailed, ResultsOK
<1>. QED BY <1>1, <1>2, <1>3

(* Showing and hiding hand the active mark on, and nothing else.           *)
LEMMA SwitchKeeps ==
  ASSUME TabOK, ResultsOK, NEW item, NEW i \in Nat, Switch(item, i)
  PROVE  /\ SameIds(results, results')
         /\ visible /\ item = "result" /\ i \in DOMAIN results => results'[i].active
<1>. DEFINE left == IF visible /\ tab.panel = "result" THEN MarkInactive(results, Active)
                    ELSE results
<1>1. results' = IF visible /\ item = "result" THEN Entered(left, i) ELSE left
  BY DEF Switch
<1>2. results \in Seq(ResultType) /\ Active \in Nat
  BY Known DEF ResultsOK
<1>3. left \in Seq(ResultType) /\ SameIds(results, left)
  BY <1>2, MarkedResults, HelpersKeep DEF SameShape, SameMarks
<1>. HIDE DEF left
<1>4. SameIds(left, Entered(left, i)) /\ (i \in DOMAIN left => Entered(left, i)[i].active)
  BY <1>2, <1>3, EnteredKeeps
<1>. QED BY <1>1, <1>3, <1>4 DEF SameIds

LEMMA SurfaceKeeps ==
  ASSUME TabOK, ResultsOK, Hide \/ Show
  PROVE  /\ SameIds(results, results')
         /\ Show /\ tab.panel = "result" /\ Active \in DOMAIN results => results'[Active].active
<1>1. results \in Seq(ResultType) /\ Active \in Nat
  BY Known DEF ResultsOK
<1>2. results' \in {results, MarkInactive(results, Active), Entered(results, Active)}
  BY DEF Hide, Show
<1>3. SameIds(results, results')
  BY <1>1, <1>2, HelpersKeep, EnteredKeeps DEF SameMarks
<1>4. Show /\ tab.panel = "result" /\ Active \in DOMAIN results => results' = Entered(results, Active)
  BY <1>1 DEF Show, ResultsOK
<1>. QED BY <1>1, <1>3, <1>4, EnteredKeeps

----------
(* Who is blamed.                                                          *)
LEMMA BlameKept ==
  ASSUME BlameInv, SameIds(results, results') \/ SameMarks(results, results') \/ results' = results,
         tab'.error = tab.error, asked \subseteq asked'
  PROVE  BlameInv'
  BY DEF BlameInv, SameIds, SameMarks

(* Every step keeps the blame on cancelled runs.                           *)
LEMMA BlameStep ==
  ASSUME GoneInv, TabOK, ResultsOK, CallsOK, CancelInv, BlameInv, [Next]_vars
  PROVE  BlameInv'
<1>1. CASE \E c \in calls : ExecuteReply(c)
  <2>0. PICK c \in calls : ExecuteReply(c)
    BY <1>1
  <2>1. CASE ~tab.open
    BY <2>0, <2>1, BlameKept DEF ExecuteReply
  <2>2. CASE tab.open
    <3>1. \A i \in DOMAIN results' : results'[i].outcome = "success"
      BY <2>0, <2>2 DEF ExecuteReply, Result
    <3>. QED BY <3>1 DEF BlameInv
  <2>. QED BY <2>1, <2>2
<1>2. CASE \E c \in calls : RunFailed(c)
  <2>0. PICK c \in calls : RunFailed(c)
    BY <1>2
  <2>1. CASE ~tab.open
    BY <2>0, <2>1, BlameKept DEF RunFailed
  <2>2. CASE tab.open
    <3>1. results' = <<ErrorResult(c.id)>> /\ asked' = asked /\ tab'.error = c.id
      BY <2>0, <2>2 DEF RunFailed, Finished, FinalizeExecution, Patch, TabOK, TabType
    <3>2. ErrorResult(c.id).outcome = "cancelled" => tab.wasCancelled
      BY DEF ErrorResult, Result
    <3>3. c \in InFlight
      BY <2>0 DEF RunFailed, InFlight, RunKinds
    <3>4. tab.wasCancelled => c.id \in asked
      BY <2>2, <3>3 DEF CancelInv
    <3>5. DOMAIN results' = {1} /\ results'[1] = ErrorResult(c.id)
      BY <3>1
    <3>. QED BY <3>1, <3>2, <3>4, <3>5 DEF BlameInv
  <2>. QED BY <2>1, <2>2
<1>3. CASE \E c \in calls, n \in Indices : BatchReply(c, n)
  <2>0. PICK c \in calls, n \in Indices : BatchReply(c, n)
    BY <1>3
  <2>1. CASE ~tab.open
    BY <2>0, <2>1, BlameKept DEF BatchReply
  <2>2. CASE tab.open
    <3>1. \A i \in DOMAIN results' : results'[i].outcome = "success"
      BY <2>0, <2>2 DEF BatchReply, Result
    <3>. QED BY <3>1 DEF BlameInv
  <2>. QED BY <2>1, <2>2
<1>4. CASE \E c \in calls : RerunReply(c)
  <2>0. PICK c \in calls : RerunReply(c)
    BY <1>4
  <2>1. tab'.error = tab.error /\ asked' = asked
    BY <2>0 DEF RerunReply, FinalizeExecution, Patch, TabOK, TabType
  <2>2. \A i \in DOMAIN results' : i \in DOMAIN results
            /\ (results'[i].outcome = "success" \/ results'[i] = results[i])
    BY <2>0 DEF RerunReply, Result
  <2>. QED BY <2>1, <2>2 DEF BlameInv
<1>5. CASE \E c \in calls : RerunFailed(c)
  <2>0. PICK c \in calls : RerunFailed(c)
    BY <1>5
  <2>1. tab'.error = tab.error /\ asked' = asked
    BY <2>0 DEF RerunFailed, FinalizeExecution, Patch, TabOK, TabType
  <2>2. SameIds(results, results') \/ SameMarks(results, results') \/ results' = results
    BY <2>0, OthersKeep DEF RerunFailed, FinalizeExecution, Patch
  <2>. QED BY <2>1, <2>2, BlameKept
<1>6. CASE \E c \in calls, killed \in BOOLEAN : CancelReply(c, killed)
  <2>0. PICK c \in calls, killed \in BOOLEAN : CancelReply(c, killed)
    BY <1>6
  <2>1. tab'.error = tab.error /\ asked' = asked
    BY <2>0 DEF CancelReply, FinalizeExecution, Patch, TabOK, TabType
  <2>2. SameIds(results, results') \/ SameMarks(results, results') \/ results' = results
    BY <2>0, BlameKept DEF CancelReply, FinalizeExecution, Patch
  <2>. QED BY <2>1, <2>2, BlameKept
<1>7. CASE \E c \in calls, answer \in Answers : TouchReply(c, answer)
  <2>0. PICK c \in calls, answer \in Answers : TouchReply(c, answer)
    BY <1>7
  <2>1. asked' = asked /\ (~tab.open => results' = results)
    BY <2>0 DEF TouchReply
  <2>2. SameIds(results, results') \/ SameMarks(results, results') \/ results' = results
    BY <2>0, ReplyKeeps DEF TouchReply
  <2>3. CASE tab.open \/ tab' = tab
    <3>1. tab'.error = tab.error
      BY <2>0, <2>3, TouchedIs DEF TabOK, TabType
    <3>. QED BY <2>1, <2>2, <3>1, BlameKept
  <2>4. CASE ~tab.open
    <3>1. results' = <<>>
      BY <2>1, <2>4 DEF GoneInv
    <3>. QED BY <3>1 DEF BlameInv
  <2>. QED BY <2>3, <2>4
<1>8. CASE \E c \in calls, answer \in Answers : RestoreTouched(c, answer)
  <2>0. PICK c \in calls, answer \in Answers : RestoreTouched(c, answer)
    BY <1>8
  <2>1. tab'.error = tab.error /\ asked' = asked
    BY <2>0 DEF RestoreTouched, PutBack, TabOK, TabType
  <2>2. SameIds(results, results') \/ SameMarks(results, results') \/ results' = results
    BY <2>0, ReplyKeeps DEF RestoreTouched, PutBack
  <2>. QED BY <2>1, <2>2, BlameKept
<1>9. CASE \E c \in calls, answer \in {"ok", "failed", "expired"} : WindowReply(c, answer)
  <2>0. PICK c \in calls, answer \in {"ok", "failed", "expired"} : WindowReply(c, answer)
    BY <1>9
  <2>1. tab'.error = tab.error /\ asked' = asked
    BY <2>0 DEF WindowReply, PutBack, TabOK, TabType
  <2>2. SameIds(results, results') \/ SameMarks(results, results') \/ results' = results
    BY <2>0, ReplyKeeps DEF WindowReply, PutBack
  <2>. QED BY <2>1, <2>2, BlameKept
<1>10. CASE ExecuteQuery
  <2>1. tab'.error = tab.error /\ asked' = asked
    BY <1>10 DEF ExecuteQuery, Run, BeginExecution, Patch, TabOK, TabType
  <2>2. SameIds(results, results') \/ SameMarks(results, results') \/ results' = results
    BY <1>10, RunKeeps DEF ExecuteQuery, Run, BeginExecution, Patch
  <2>. QED BY <2>1, <2>2, BlameKept
<1>11. CASE ExecuteBatch
  <2>1. tab'.error = tab.error /\ asked' = asked
    BY <1>11 DEF ExecuteBatch, Run, BeginExecution, Patch, TabOK, TabType
  <2>2. SameIds(results, results') \/ SameMarks(results, results') \/ results' = results
    BY <1>11, RunKeeps DEF ExecuteBatch, Run, BeginExecution, Patch
  <2>. QED BY <2>1, <2>2, BlameKept
<1>12. CASE RetryOneOfSeveral
  <2>1. tab'.error = tab.error /\ asked' = asked
    BY <1>12 DEF RetryOneOfSeveral, BeginExecution, Patch, TabOK, TabType
  <2>2. SameIds(results, results') \/ SameMarks(results, results') \/ results' = results
    BY <1>12, RunKeeps DEF RetryOneOfSeveral, BeginExecution, Patch
  <2>. QED BY <2>1, <2>2, BlameKept
<1>13. CASE CancelQuery
  <2>1. tab'.error = tab.error /\ asked \subseteq asked' /\ results' = results
    BY <1>13 DEF CancelQuery, Patch, TabOK, TabType
  <2>. QED BY <2>1, BlameKept
<1>14. CASE Hide
  <2>1. tab'.error = tab.error /\ asked' = asked
    BY <1>14 DEF Hide, TabOK, TabType
  <2>2. SameIds(results, results') \/ SameMarks(results, results') \/ results' = results
    BY <1>14, SurfaceKeeps DEF Hide
  <2>. QED BY <2>1, <2>2, BlameKept
<1>15. CASE Show
  <2>1. tab'.error = tab.error /\ asked' = asked
    BY <1>15 DEF Show, TabOK, TabType
  <2>2. SameIds(results, results') \/ SameMarks(results, results') \/ results' = results
    BY <1>15, SurfaceKeeps DEF Show
  <2>. QED BY <2>1, <2>2, BlameKept
<1>16. CASE EditRow
  <2>1. tab'.error = tab.error /\ asked' = asked
    BY <1>16 DEF EditRow, TabOK, TabType
  <2>2. SameIds(results, results') \/ SameMarks(results, results') \/ results' = results
    BY <1>16, OthersKeep DEF EditRow
  <2>. QED BY <2>1, <2>2, BlameKept
<1>17. CASE Cleanup
  <2>1. results' = << >>
    BY <1>17 DEF Cleanup
  <2>. QED BY <2>1 DEF BlameInv
<1>18. CASE \E i \in Indices : SetActiveResultIndex(i)
  <2>0. PICK i \in Indices : SetActiveResultIndex(i)
    BY <1>18
  <2>1. Switch(tab.panel, i) /\ i \in Nat
    BY <2>0, QueryTabAssumption DEF SetActiveResultIndex, Indices
  <2>2. tab'.error = tab.error /\ asked' = asked
    BY <2>1 DEF Switch, TabOK, TabType
  <2>. QED BY <2>1, <2>2, SwitchKeeps, BlameKept
<1>19. CASE \E item \in {"result", "table-data"} : SetActiveBottomPanelItem(item)
  <2>0. PICK item \in {"result", "table-data"} : SetActiveBottomPanelItem(item)
    BY <1>19
  <2>1. Switch(item, tab.active) /\ tab.active \in Nat
    BY <2>0, Known DEF SetActiveBottomPanelItem
  <2>2. tab'.error = tab.error /\ asked' = asked
    BY <2>1 DEF Switch, TabOK, TabType
  <2>. QED BY <2>1, <2>2, SwitchKeeps, BlameKept
<1>20. CASE AiSend
  <2>1. tab'.error = tab.error /\ asked' = asked
    BY <1>20 DEF AiSend, Lock, TabOK, TabType
  <2>2. SameIds(results, results') \/ SameMarks(results, results') \/ results' = results
    BY <1>20, BlameKept DEF AiSend, Lock
  <2>. QED BY <2>1, <2>2, BlameKept
<1>21. CASE AiEnd
  <2>1. tab'.error = tab.error /\ asked' = asked
    BY <1>21 DEF AiEnd, RestoreTabStatus, TabOK, TabType
  <2>2. SameIds(results, results') \/ SameMarks(results, results') \/ results' = results
    BY <1>21, BlameKept DEF AiEnd, RestoreTabStatus
  <2>. QED BY <2>1, <2>2, BlameKept
<1>22. CASE OpenDiff
  <2>1. tab'.error = tab.error /\ asked' = asked
    BY <1>22 DEF OpenDiff, Lock, TabOK, TabType
  <2>2. SameIds(results, results') \/ SameMarks(results, results') \/ results' = results
    BY <1>22, BlameKept DEF OpenDiff, Lock
  <2>. QED BY <2>1, <2>2, BlameKept
<1>23. CASE CloseDiff
  <2>1. tab'.error = tab.error /\ asked' = asked
    BY <1>23 DEF CloseDiff, RestoreTabStatus, TabOK, TabType
  <2>2. SameIds(results, results') \/ SameMarks(results, results') \/ results' = results
    BY <1>23, BlameKept DEF CloseDiff, RestoreTabStatus
  <2>. QED BY <2>1, <2>2, BlameKept
<1>24. CASE \E i \in Indices : EvictInactive(i)
  <2>0. PICK i \in Indices : EvictInactive(i)
    BY <1>24
  <2>1. tab'.error = tab.error /\ asked' = asked
    BY <2>0 DEF EvictInactive, TabOK, TabType
  <2>2. SameIds(results, results') \/ SameMarks(results, results') \/ results' = results
    BY <2>0, OthersKeep DEF EvictInactive
  <2>. QED BY <2>1, <2>2, BlameKept
<1>25. CASE UNCHANGED vars
  BY <1>25 DEF vars, BlameInv
<1>. QED BY StepCases, <1>1, <1>2, <1>3, <1>4, <1>5, <1>6, <1>7, <1>8, <1>9, <1>10,
    <1>11, <1>12, <1>13, <1>14, <1>15, <1>16, <1>17, <1>18, <1>19, <1>20, <1>21,
    <1>22, <1>23, <1>24, <1>25

----------
(* The active mark of the result on screen.                                *)
LEMMA SameLength ==
  ASSUME ResultsOK, ResultsOK', DOMAIN results' = DOMAIN results
  PROVE  Len(results') = Len(results) /\ Len(results) \in Nat /\ (results' # << >> => results # << >>)
<1>1. DOMAIN results = 1 .. Len(results) /\ DOMAIN results' = 1 .. Len(results')
      /\ Len(results) \in Nat /\ Len(results') \in Nat
  BY DEF ResultsOK
<1>2. Len(results') = Len(results)
  BY <1>1
<1>. QED BY <1>1, <1>2, EmptySeq DEF ResultsOK

LEMMA MarksKept ==
  ASSUME ResultsOK, ResultsOK', ScreenInv, SameMarks(results, results'),
         tab'.active = tab.active, tab'.panel = tab.panel, tab'.open => tab.open,
         visible' = visible, \A d \in calls' : d.kind = "rerun" => d.of # 0
  PROVE  ScreenInv'
<1>1. DOMAIN results' = DOMAIN results
  BY DEF SameMarks, SameIds
<1>. QED BY <1>1, SameLength DEF ScreenInv, SameMarks, SameIds

LEMMA OneOnScreen ==
  ASSUME tab'.active = 1, NEW r, results' = <<r>>, r.active \/ ~visible' \/ r.id = 0,
         \A d \in calls' : d.kind = "rerun" => d.of # 0
  PROVE  ScreenInv'
<1>1. DOMAIN results' = {1} /\ Len(results') = 1 /\ results'[1] = r
  OBVIOUS
<1>. QED BY <1>1 DEF ScreenInv

(* Every step keeps the mark of the result on screen.                      *)
LEMMA ScreenStep ==
  ASSUME GoneInv, TabOK, ResultsOK, ResultsOK', CallsOK, ScreenInv, [Next]_vars
  PROVE  ScreenInv'
<1>1. CASE \E c \in calls : ExecuteReply(c)
  <2>0. PICK c \in calls : ExecuteReply(c)
    BY <1>1
  <2>1. CASE ~tab.open
    <3>1. SameMarks(results, results')
      BY <2>0, <2>1, HelpersKeep DEF ExecuteReply, ResultsOK
    <3>2. tab' = tab /\ visible' = visible /\ calls' \subseteq calls
      BY <2>0, <2>1 DEF ExecuteReply, Settle
    <3>. QED BY <2>1, <3>1, <3>2, MarksKept DEF ScreenInv
  <2>2. CASE tab.open
    <3>1. results' = <<Result(c.id, OnScreen)>> /\ visible' = visible /\ calls' \subseteq calls
      BY <2>0, <2>2 DEF ExecuteReply, Settle
    <3>2. tab'.active = 1
      BY <2>0, <2>2 DEF ExecuteReply, Finished, FinalizeExecution, Patch, TabOK, TabType
    <3>3. Result(c.id, OnScreen).active \/ ~visible' \/ Result(c.id, OnScreen).id = 0
      BY <3>1 DEF Result, ErrorResult, OnScreen
    <3>4. \A d \in calls' : d.kind = "rerun" => d.of # 0
      BY <3>1 DEF ScreenInv
    <3>. QED BY <3>1, <3>2, <3>3, <3>4, OneOnScreen
  <2>. QED BY <2>1, <2>2
<1>2. CASE \E c \in calls : RunFailed(c)
  <2>0. PICK c \in calls : RunFailed(c)
    BY <1>2
  <2>1. CASE ~tab.open
    <3>1. SameMarks(results, results')
      BY <2>0, <2>1, HelpersKeep DEF RunFailed, ResultsOK
    <3>2. tab' = tab /\ visible' = visible /\ calls' \subseteq calls
      BY <2>0, <2>1 DEF RunFailed, Settle
    <3>. QED BY <2>1, <3>1, <3>2, MarksKept DEF ScreenInv
  <2>2. CASE tab.open
    <3>1. results' = <<ErrorResult(c.id)>> /\ visible' = visible /\ calls' \subseteq calls
      BY <2>0, <2>2 DEF RunFailed, Settle
    <3>2. tab'.active = 1
      BY <2>0, <2>2 DEF RunFailed, Finished, FinalizeExecution, Patch, TabOK, TabType
    <3>3. ErrorResult(c.id).active \/ ~visible' \/ ErrorResult(c.id).id = 0
      BY <3>1 DEF Result, ErrorResult, OnScreen
    <3>4. \A d \in calls' : d.kind = "rerun" => d.of # 0
      BY <3>1 DEF ScreenInv
    <3>. QED BY <3>1, <3>2, <3>3, <3>4, OneOnScreen
  <2>. QED BY <2>1, <2>2
<1>3. CASE \E c \in calls, n \in Indices : BatchReply(c, n)
  <2>0. PICK c \in calls, n \in Indices : BatchReply(c, n)
    BY <1>3
  <2>1. CASE ~tab.open
    <3>1. SameMarks(results, results')
      BY <2>0, <2>1, HelpersKeep DEF BatchReply, ResultsOK
    <3>2. tab' = tab /\ visible' = visible /\ calls' \subseteq calls
      BY <2>0, <2>1 DEF BatchReply, Settle
    <3>. QED BY <2>1, <3>1, <3>2, MarksKept DEF ScreenInv
  <2>2. CASE tab.open
    <3>1. /\ results' = [i \in 1 .. n |-> Result(c.id, i = 1 /\ OnScreen)]
          /\ visible' = visible /\ calls' \subseteq calls
      BY <2>0, <2>2 DEF BatchReply, Settle
    <3>2. tab'.active = 1
      BY <2>0, <2>2 DEF BatchReply, Finished, FinalizeExecution, Patch, TabOK, TabType
    <3>3. c.id \in Nat \ {0} /\ n \in Nat /\ n >= 1
      BY <2>0, CallTyped, QueryTabAssumption DEF Indices
    <3>4. DOMAIN results' = 1 .. n /\ Len(results') = n
      BY <3>1, <3>3 DEF ResultsOK
    <3>5. \A i \in 1 .. n : results'[i].id = c.id /\ results'[i].active = (i = 1 /\ visible)
      BY <3>1 DEF Result, OnScreen
    <3>6. \A d \in calls' : d.kind = "rerun" => d.of # 0
      BY <3>1 DEF ScreenInv
    <3>. QED BY <3>1, <3>2, <3>3, <3>4, <3>5, <3>6 DEF ScreenInv
  <2>. QED BY <2>1, <2>2
<1>4. CASE \E c \in calls : RerunReply(c)
  <2>0. PICK c \in calls : RerunReply(c)
    BY <1>4
  <2>1. CASE ~tab.open
    <3>1. SameMarks(results, results')
      BY <2>0, <2>1, HelpersKeep DEF RerunReply, ResultsOK
    <3>2. tab' = tab /\ visible' = visible /\ calls' \subseteq calls
      BY <2>0, <2>1 DEF RerunReply, Settle
    <3>. QED BY <2>1, <3>1, <3>2, MarksKept DEF ScreenInv
  <2>2. CASE tab.open
    <3>1. /\ tab'.active = tab.active /\ tab'.panel = tab.panel
          /\ visible' = visible /\ calls' \subseteq calls /\ c.kind = "rerun"
      BY <2>0, <2>2 DEF RerunReply, Settle, FinalizeExecution, Patch, TabOK, TabType
    <3>2. c.of # 0 /\ c.id # 0
      BY <2>0, <3>1, CallTyped DEF ScreenInv
    <3>3. CASE results' = results
      BY <3>1, <3>3, <2>2 DEF ScreenInv
    <3>4. CASE results' # results
      <4>1. /\ c.index \in DOMAIN results /\ results[c.index].id = c.of
            /\ results' = [results EXCEPT ![c.index] = Result(c.id, results[c.index].active)]
        BY <2>0, <2>2, <3>4 DEF RerunReply
      <4>2. /\ DOMAIN results' = DOMAIN results
            /\ \A i \in DOMAIN results : i # c.index => results'[i] = results[i]
            /\ results'[c.index].id = c.id /\ results'[c.index].active = results[c.index].active
        BY <4>1 DEF Result
      <4>3. \A d \in calls' : d.kind = "rerun" => d.of # 0
        BY <3>1 DEF ScreenInv
      <4>4. Len(results') > 1 => \A i \in DOMAIN results' : results'[i].id # 0
        BY <4>2, <3>2, SameLength DEF ScreenInv
      <4>5. results' # <<>> => tab'.active <= Len(results')
        BY <4>2, <3>1, SameLength DEF ScreenInv
      <4>6. tab.open /\ visible /\ tab.panel = "result" =>
               \A i \in DOMAIN results' : i = tab.active /\ results'[i].id # 0 => results'[i].active
        BY <4>1, <4>2, <3>2 DEF ScreenInv
      <4>. QED BY <3>1, <2>2, <4>3, <4>4, <4>5, <4>6 DEF ScreenInv
    <3>. QED BY <3>3, <3>4
  <2>. QED BY <2>1, <2>2
<1>5. CASE \E c \in calls : RerunFailed(c)
  <2>0. PICK c \in calls : RerunFailed(c)
    BY <1>5
  <2>1. SameMarks(results, results')
    BY <2>0, OthersKeep DEF RerunFailed
  <2>2. /\ tab'.active = tab.active /\ tab'.panel = tab.panel
        /\ tab'.open => tab.open
        /\ visible' = visible
    BY <2>0 DEF RerunFailed, FinalizeExecution, Patch, TabOK, TabType
  <2>3. \A d \in calls' : d.kind = "rerun" => d.of # 0
    BY <2>0 DEF RerunFailed, FinalizeExecution, Patch, ScreenInv, Settle, Issue, NewCall
  <2>. QED BY <2>1, <2>2, <2>3, MarksKept
<1>6. CASE \E c \in calls, killed \in BOOLEAN : CancelReply(c, killed)
  <2>0. PICK c \in calls, killed \in BOOLEAN : CancelReply(c, killed)
    BY <1>6
  <2>1. SameMarks(results, results')
    BY <2>0, HelpersKeep DEF CancelReply, ResultsOK
  <2>2. /\ tab'.active = tab.active /\ tab'.panel = tab.panel
        /\ tab'.open => tab.open
        /\ visible' = visible
    BY <2>0 DEF CancelReply, FinalizeExecution, Patch, TabOK, TabType
  <2>3. \A d \in calls' : d.kind = "rerun" => d.of # 0
    BY <2>0 DEF CancelReply, ScreenInv, Settle, Issue, NewCall
  <2>. QED BY <2>1, <2>2, <2>3, MarksKept
<1>7. CASE \E c \in calls, answer \in Answers : TouchReply(c, answer)
  <2>0. PICK c \in calls, answer \in Answers : TouchReply(c, answer)
    BY <1>7
  <2>1. SameMarks(results, results')
    BY <2>0, ReplyKeeps DEF TouchReply
  <2>2. visible' = visible /\ (~tab.open => results' = results)
    BY <2>0 DEF TouchReply
  <2>3. \A d \in calls' : d.kind = "rerun" => d.of # 0
    BY <2>0 DEF TouchReply, ScreenInv, Settle, Issue, NewCall
  <2>4. CASE tab.open \/ tab' = tab
    <3>1. tab'.active = tab.active /\ tab'.panel = tab.panel /\ (tab'.open => tab.open)
      BY <2>0, <2>4, TouchedIs DEF TabOK, TabType
    <3>. QED BY <2>1, <2>2, <2>3, <3>1, MarksKept
  <2>5. CASE ~tab.open
    <3>1. results' = <<>> /\ ~visible'
      BY <2>2, <2>5 DEF GoneInv
    <3>. QED BY <2>3, <3>1 DEF ScreenInv
  <2>. QED BY <2>4, <2>5
<1>8. CASE \E c \in calls, answer \in Answers : RestoreTouched(c, answer)
  <2>0. PICK c \in calls, answer \in Answers : RestoreTouched(c, answer)
    BY <1>8
  <2>1. SameMarks(results, results')
    BY <2>0, ReplyKeeps DEF RestoreTouched
  <2>2. /\ tab'.active = tab.active /\ tab'.panel = tab.panel
        /\ tab'.open => tab.open
        /\ visible' = visible
    BY <2>0 DEF RestoreTouched, PutBack, TabOK, TabType
  <2>. DEFINE w == [c EXCEPT !.kind = "window", !.of = results[c.index].id]
  <2>3. calls' = calls \ {c} \/ calls' = (calls \ {c}) \cup {w}
    BY <2>0 DEF RestoreTouched, Settle
  <2>4. w.kind = "window"
    BY <2>0 DEF CallsOK, CallType
  <2>. HIDE DEF w
  <2>5. \A d \in calls' : d.kind = "rerun" => d.of # 0
    BY <2>3, <2>4 DEF ScreenInv
  <2>. QED BY <2>1, <2>2, <2>5, MarksKept
<1>9. CASE \E c \in calls, answer \in {"ok", "failed", "expired"} : WindowReply(c, answer)
  <2>0. PICK c \in calls, answer \in {"ok", "failed", "expired"} : WindowReply(c, answer)
    BY <1>9
  <2>1. SameMarks(results, results')
    BY <2>0, ReplyKeeps DEF WindowReply
  <2>2. /\ tab'.active = tab.active /\ tab'.panel = tab.panel
        /\ tab'.open => tab.open
        /\ visible' = visible
    BY <2>0 DEF WindowReply, PutBack, TabOK, TabType
  <2>3. \A d \in calls' : d.kind = "rerun" => d.of # 0
    BY <2>0 DEF WindowReply, PutBack, ScreenInv, Settle, Issue, NewCall
  <2>. QED BY <2>1, <2>2, <2>3, MarksKept
<1>10. CASE ExecuteQuery
  <2>1. SameMarks(results, results')
    BY <1>10, RunKeeps DEF ExecuteQuery
  <2>2. /\ tab'.active = tab.active /\ tab'.panel = tab.panel
        /\ tab'.open => tab.open
        /\ visible' = visible
    BY <1>10 DEF ExecuteQuery, Run, BeginExecution, Patch, TabOK, TabType
  <2>3. \A d \in calls' : d.kind = "rerun" => d.of # 0
    BY <1>10 DEF ExecuteQuery, Run, BeginExecution, Patch, ScreenInv, Settle, Issue, NewCall
  <2>. QED BY <2>1, <2>2, <2>3, MarksKept
<1>11. CASE ExecuteBatch
  <2>1. SameMarks(results, results')
    BY <1>11, RunKeeps DEF ExecuteBatch
  <2>2. /\ tab'.active = tab.active /\ tab'.panel = tab.panel
        /\ tab'.open => tab.open
        /\ visible' = visible
    BY <1>11 DEF ExecuteBatch, Run, BeginExecution, Patch, TabOK, TabType
  <2>3. \A d \in calls' : d.kind = "rerun" => d.of # 0
    BY <1>11 DEF ExecuteBatch, Run, BeginExecution, Patch, ScreenInv, Settle, Issue, NewCall
  <2>. QED BY <2>1, <2>2, <2>3, MarksKept
<1>12. CASE RetryOneOfSeveral
  <2>1. SameMarks(results, results')
    BY <1>12, RunKeeps
  <2>2. /\ tab'.active = tab.active /\ tab'.panel = tab.panel
        /\ tab'.open => tab.open
        /\ visible' = visible
    BY <1>12 DEF RetryOneOfSeveral, BeginExecution, Patch, TabOK, TabType
  <2>3. Active \in DOMAIN results /\ results[Active].id # 0
    BY <1>12, ActiveIsAnIndex, EmptySeq DEF RetryOneOfSeveral, ResultsOK, ScreenInv
  <2>4. \A d \in calls' : d.kind = "rerun" => d.of # 0
    BY <1>12, <2>3 DEF RetryOneOfSeveral, ScreenInv, Issue, NewCall
  <2>. QED BY <2>1, <2>2, <2>4, MarksKept
<1>13. CASE CancelQuery
  <2>1. SameMarks(results, results')
    BY <1>13, HelpersKeep DEF CancelQuery, ResultsOK
  <2>2. /\ tab'.active = tab.active /\ tab'.panel = tab.panel
        /\ tab'.open => tab.open
        /\ visible' = visible
    BY <1>13 DEF CancelQuery, Patch, TabOK, TabType
  <2>3. \A d \in calls' : d.kind = "rerun" => d.of # 0
    BY <1>13 DEF CancelQuery, ScreenInv, Settle, Issue, NewCall
  <2>. QED BY <2>1, <2>2, <2>3, MarksKept
<1>14. CASE Hide
  <2>1. /\ SameIds(results, results') /\ ~visible' /\ tab' = tab /\ calls' = calls
    BY <1>14, SurfaceKeeps DEF Hide
  <2>2. DOMAIN results' = DOMAIN results
    BY <2>1 DEF SameIds
  <2>. QED BY <2>1, <2>2, SameLength DEF ScreenInv, SameIds
<1>15. CASE Show
  <2>1. SameIds(results, results') /\ tab'.active = tab.active /\ tab'.panel = tab.panel
    BY <1>15, SurfaceKeeps DEF Show, TabOK, TabType
  <2>2. DOMAIN results' = DOMAIN results
    BY <2>1 DEF SameIds
  <2>3. tab.active \in DOMAIN results => Active = tab.active
    BY DEF Active, ResultsOK
  <2>4. tab.panel = "result" /\ tab.active \in DOMAIN results => results'[tab.active].active
    BY <1>15, <2>3, SurfaceKeeps
  <2>5. \A d \in calls' : d.kind = "rerun" => d \in calls
    <3>. DEFINE midway  == IF NeedsRestore(Active) THEN "restoring" ELSE tab.status
                restore == IF NeedsRestore(Active) THEN {RestoreCall(Active)} ELSE {}
                t       == [NewCall("touch", 0, 0, midway) EXCEPT
                              !.id = issued + Cardinality(restore) + 1]
                touch   == IF results[Active].id # 0 THEN {t} ELSE {}
    <3>1. calls' = calls \/ calls' = calls \cup (restore \cup touch)
      BY <1>15 DEF Show
    <3>2. \A d \in restore \cup touch : d.kind # "rerun"
      BY DEF RestoreCall, NewCall
    <3>. HIDE DEF restore, touch
    <3>. QED BY <3>1, <3>2
  <2>6. \A d \in calls' : d.kind = "rerun" => d.of # 0
    BY <2>5 DEF ScreenInv
  <2>7. Len(results') > 1 => \A i \in DOMAIN results' : results'[i].id # 0
    BY <2>1, <2>2, SameLength DEF ScreenInv, SameIds
  <2>8. results' # <<>> => tab'.active <= Len(results')
    BY <2>1, <2>2, SameLength DEF ScreenInv
  <2>. QED BY <2>1, <2>2, <2>4, <2>6, <2>7, <2>8 DEF ScreenInv
<1>16. CASE EditRow
  <2>1. SameMarks(results, results')
    BY <1>16, OthersKeep DEF EditRow
  <2>2. /\ tab'.active = tab.active /\ tab'.panel = tab.panel
        /\ tab'.open => tab.open
        /\ visible' = visible
    BY <1>16 DEF EditRow, TabOK, TabType
  <2>3. \A d \in calls' : d.kind = "rerun" => d.of # 0
    BY <1>16 DEF EditRow, ScreenInv, Settle, Issue, NewCall
  <2>. QED BY <2>1, <2>2, <2>3, MarksKept
<1>17. CASE Cleanup
  <2>1. results' = << >> /\ ~tab'.open /\ calls' = calls
    BY <1>17 DEF Cleanup, TabOK, TabType
  <2>. QED BY <2>1 DEF ScreenInv
<1>18. CASE \E i \in Indices : SetActiveResultIndex(i)
  <2>0. PICK i \in Indices : SetActiveResultIndex(i)
    BY <1>18
  <2>1. Switch(tab.panel, i) /\ i \in Nat /\ tab.open
    BY <2>0, Known, QueryTabAssumption DEF SetActiveResultIndex, Indices
  <2>2. /\ tab'.active = i /\ tab'.panel = tab.panel /\ visible' = visible
    BY <2>1 DEF Switch, TabOK, TabType
  <2>3. SameIds(results, results') /\ DOMAIN results' = DOMAIN results
    BY <2>1, SwitchKeeps DEF SameIds
  <2>4. \A d \in calls' : d.kind = "rerun" => d.of # 0
    BY <2>1 DEF Switch, Issue, RestoreCall, NewCall, ScreenInv
  <2>5. Len(results') > 1 => \A j \in DOMAIN results' : results'[j].id # 0
    BY <2>3, SameLength DEF ScreenInv, SameIds
  <2>6. results' # <<>> => tab'.active <= Len(results')
    BY <2>0, <2>2, <2>3, SameLength DEF SetActiveResultIndex, ScreenInv, ResultsOK
  <2>7. visible' /\ tab'.panel = "result" /\ i \in DOMAIN results' => results'[i].active
    BY <2>1, <2>2, <2>3, SwitchKeeps
  <2>. QED BY <2>2, <2>4, <2>5, <2>6, <2>7 DEF ScreenInv
<1>19. CASE \E item \in {"result", "table-data"} : SetActiveBottomPanelItem(item)
  <2>0. PICK item \in {"result", "table-data"} : SetActiveBottomPanelItem(item)
    BY <1>19
  <2>1. Switch(item, tab.active) /\ tab.active \in Nat /\ tab.open
    BY <2>0, Known, QueryTabAssumption DEF SetActiveBottomPanelItem, Indices
  <2>2. /\ tab'.active = tab.active /\ tab'.panel = item /\ visible' = visible
    BY <2>1 DEF Switch, TabOK, TabType
  <2>3. SameIds(results, results') /\ DOMAIN results' = DOMAIN results
    BY <2>1, SwitchKeeps DEF SameIds
  <2>4. \A d \in calls' : d.kind = "rerun" => d.of # 0
    BY <2>1 DEF Switch, Issue, RestoreCall, NewCall, ScreenInv
  <2>5. Len(results') > 1 => \A j \in DOMAIN results' : results'[j].id # 0
    BY <2>3, SameLength DEF ScreenInv, SameIds
  <2>6. results' # <<>> => tab'.active <= Len(results')
    BY <2>2, <2>3, SameLength DEF SetActiveBottomPanelItem, ScreenInv, ResultsOK
  <2>7. visible' /\ tab'.panel = "result" /\ tab.active \in DOMAIN results' => results'[tab.active].active
    BY <2>1, <2>2, <2>3, SwitchKeeps
  <2>. QED BY <2>2, <2>4, <2>5, <2>6, <2>7 DEF ScreenInv
<1>20. CASE AiSend
  <2>1. SameMarks(results, results')
    BY <1>20, HelpersKeep DEF AiSend, ResultsOK
  <2>2. /\ tab'.active = tab.active /\ tab'.panel = tab.panel
        /\ tab'.open => tab.open
        /\ visible' = visible
    BY <1>20 DEF AiSend, Lock, TabOK, TabType
  <2>3. \A d \in calls' : d.kind = "rerun" => d.of # 0
    BY <1>20 DEF AiSend, ScreenInv, Settle, Issue, NewCall
  <2>. QED BY <2>1, <2>2, <2>3, MarksKept
<1>21. CASE AiEnd
  <2>1. SameMarks(results, results')
    BY <1>21, HelpersKeep DEF AiEnd, ResultsOK
  <2>2. /\ tab'.active = tab.active /\ tab'.panel = tab.panel
        /\ tab'.open => tab.open
        /\ visible' = visible
    BY <1>21 DEF AiEnd, RestoreTabStatus, TabOK, TabType
  <2>3. \A d \in calls' : d.kind = "rerun" => d.of # 0
    BY <1>21 DEF AiEnd, ScreenInv, Settle, Issue, NewCall
  <2>. QED BY <2>1, <2>2, <2>3, MarksKept
<1>22. CASE OpenDiff
  <2>1. SameMarks(results, results')
    BY <1>22, HelpersKeep DEF OpenDiff, ResultsOK
  <2>2. /\ tab'.active = tab.active /\ tab'.panel = tab.panel
        /\ tab'.open => tab.open
        /\ visible' = visible
    BY <1>22 DEF OpenDiff, Lock, TabOK, TabType
  <2>3. \A d \in calls' : d.kind = "rerun" => d.of # 0
    BY <1>22 DEF OpenDiff, ScreenInv, Settle, Issue, NewCall
  <2>. QED BY <2>1, <2>2, <2>3, MarksKept
<1>23. CASE CloseDiff
  <2>1. SameMarks(results, results')
    BY <1>23, HelpersKeep DEF CloseDiff, ResultsOK
  <2>2. /\ tab'.active = tab.active /\ tab'.panel = tab.panel
        /\ tab'.open => tab.open
        /\ visible' = visible
    BY <1>23 DEF CloseDiff, RestoreTabStatus, TabOK, TabType
  <2>3. \A d \in calls' : d.kind = "rerun" => d.of # 0
    BY <1>23 DEF CloseDiff, ScreenInv, Settle, Issue, NewCall
  <2>. QED BY <2>1, <2>2, <2>3, MarksKept
<1>24. CASE \E i \in Indices : EvictInactive(i)
  <2>0. PICK i \in Indices : EvictInactive(i)
    BY <1>24
  <2>1. SameMarks(results, results')
    BY <2>0, OthersKeep DEF EvictInactive
  <2>2. /\ tab'.active = tab.active /\ tab'.panel = tab.panel
        /\ tab'.open => tab.open
        /\ visible' = visible
    BY <2>0 DEF EvictInactive, TabOK, TabType
  <2>3. \A d \in calls' : d.kind = "rerun" => d.of # 0
    BY <2>0 DEF EvictInactive, ScreenInv, Settle, Issue, NewCall
  <2>. QED BY <2>1, <2>2, <2>3, MarksKept
<1>25. CASE UNCHANGED vars
  BY <1>25 DEF vars, ScreenInv
<1>. QED BY StepCases, <1>1, <1>2, <1>3, <1>4, <1>5, <1>6, <1>7, <1>8, <1>9, <1>10,
    <1>11, <1>12, <1>13, <1>14, <1>15, <1>16, <1>17, <1>18, <1>19, <1>20, <1>21,
    <1>22, <1>23, <1>24, <1>25

(* A tab the store lost is patched by a validation only.                   *)
LEMMA OnlyTouchPatches ==
  ASSUME [Next]_vars, ~tab.open,
         ~ \E c \in calls, answer \in Answers : TouchReply(c, answer)
  PROVE  ~tab'.open
<1>1. CASE \E c \in calls : ExecuteReply(c)
  BY <1>1 DEF ExecuteReply
<1>2. CASE \E c \in calls : RunFailed(c)
  BY <1>2 DEF RunFailed
<1>3. CASE \E c \in calls, n \in Indices : BatchReply(c, n)
  BY <1>3 DEF BatchReply
<1>4. CASE \E c \in calls : RerunReply(c)
  BY <1>4 DEF RerunReply
<1>5. CASE \E c \in calls : RerunFailed(c)
  BY <1>5 DEF RerunFailed
<1>6. CASE \E c \in calls, killed \in BOOLEAN : CancelReply(c, killed)
  BY <1>6 DEF CancelReply
<1>8. CASE \E c \in calls, answer \in Answers : RestoreTouched(c, answer)
  BY <1>8 DEF RestoreTouched
<1>9. CASE \E c \in calls, answer \in {"ok", "failed", "expired"} : WindowReply(c, answer)
  BY <1>9 DEF WindowReply
<1>10. CASE ExecuteQuery
  BY <1>10 DEF ExecuteQuery, Run
<1>11. CASE ExecuteBatch
  BY <1>11 DEF ExecuteBatch, Run
<1>12. CASE RetryOneOfSeveral
  BY <1>12 DEF RetryOneOfSeveral
<1>13. CASE CancelQuery
  BY <1>13 DEF CancelQuery
<1>14. CASE Hide
  BY <1>14 DEF Hide
<1>15. CASE Show
  BY <1>15 DEF Show
<1>16. CASE EditRow
  BY <1>16 DEF EditRow
<1>17. CASE Cleanup
  BY <1>17 DEF Cleanup
<1>18. CASE \E i \in Indices : SetActiveResultIndex(i)
  BY <1>18 DEF SetActiveResultIndex, Switch
<1>19. CASE \E item \in {"result", "table-data"} : SetActiveBottomPanelItem(item)
  BY <1>19 DEF SetActiveBottomPanelItem, Switch
<1>20. CASE AiSend
  BY <1>20 DEF AiSend, Lock
<1>21. CASE AiEnd
  BY <1>21 DEF AiEnd, RestoreTabStatus
<1>22. CASE OpenDiff
  BY <1>22 DEF OpenDiff, Lock
<1>23. CASE CloseDiff
  BY <1>23 DEF CloseDiff, RestoreTabStatus
<1>24. CASE \E i \in Indices : EvictInactive(i)
  BY <1>24 DEF EvictInactive
<1>25. CASE UNCHANGED vars
  BY <1>25 DEF vars
<1>. QED BY StepCases, <1>1, <1>2, <1>3, <1>4, <1>5, <1>6, <1>8,
<1>9, <1>10, <1>11, <1>12, <1>13, <1>14, <1>15, <1>16, <1>17, <1>18, <1>19,
<1>20, <1>21, <1>22, <1>23, <1>24, <1>25

(* Every step keeps what is left of a closed tab.                          *)
LEMMA GoneStep ==
  ASSUME TabOK, GoneInv, [Next]_vars
  PROVE  GoneInv'
<1>. USE DEF TabOK, TabType, GoneInv
<1>1. CASE \E c \in calls : ExecuteReply(c)
  <2>0. PICK c \in calls : ExecuteReply(c)
    BY <1>1
  <2>1. visible' = visible /\ (~tab.open => tab' = tab /\ results' = results)
    BY <2>0 DEF ExecuteReply
  <2>2. tab.open => tab'.open /\ tab'.shut = tab.shut
    BY <2>0 DEF ExecuteReply, Finished, FinalizeExecution, Patch
  <2>. QED BY <2>1, <2>2
<1>2. CASE \E c \in calls : RunFailed(c)
  <2>0. PICK c \in calls : RunFailed(c)
    BY <1>2
  <2>1. visible' = visible /\ (~tab.open => tab' = tab /\ results' = results)
    BY <2>0 DEF RunFailed
  <2>2. tab.open => tab'.open /\ tab'.shut = tab.shut
    BY <2>0 DEF RunFailed, Finished, FinalizeExecution, Patch
  <2>. QED BY <2>1, <2>2
<1>3. CASE \E c \in calls, n \in Indices : BatchReply(c, n)
  <2>0. PICK c \in calls, n \in Indices : BatchReply(c, n)
    BY <1>3
  <2>1. visible' = visible /\ (~tab.open => tab' = tab /\ results' = results)
    BY <2>0 DEF BatchReply
  <2>2. tab.open => tab'.open /\ tab'.shut = tab.shut
    BY <2>0 DEF BatchReply, Finished, FinalizeExecution, Patch
  <2>. QED BY <2>1, <2>2
<1>4. CASE \E c \in calls : RerunReply(c)
  <2>0. PICK c \in calls : RerunReply(c)
    BY <1>4
  <2>1. visible' = visible /\ (~tab.open => tab' = tab /\ results' = results)
    BY <2>0 DEF RerunReply
  <2>2. tab.open => tab'.open /\ tab'.shut = tab.shut
    BY <2>0 DEF RerunReply, FinalizeExecution, Patch
  <2>. QED BY <2>1, <2>2
<1>5. CASE \E c \in calls : RerunFailed(c)
  <2>0. PICK c \in calls : RerunFailed(c)
    BY <1>5
  <2>1. visible' = visible /\ (~tab.open => tab' = tab /\ results' = results)
    BY <2>0 DEF RerunFailed
  <2>2. tab.open => tab'.open /\ tab'.shut = tab.shut
    BY <2>0 DEF RerunFailed, FinalizeExecution, Patch
  <2>. QED BY <2>1, <2>2
<1>6. CASE \E c \in calls, killed \in BOOLEAN : CancelReply(c, killed)
  BY <1>6 DEF CancelReply, FinalizeExecution, Patch
<1>7. CASE \E c \in calls, answer \in Answers : RestoreTouched(c, answer)
  BY <1>7 DEF RestoreTouched, PutBack
<1>8. CASE \E c \in calls, answer \in {"ok", "failed", "expired"} : WindowReply(c, answer)
  BY <1>8 DEF WindowReply, PutBack
<1>9. CASE ExecuteQuery
  BY <1>9 DEF ExecuteQuery, Run, BeginExecution, Patch
<1>10. CASE ExecuteBatch
  BY <1>10 DEF ExecuteBatch, Run, BeginExecution, Patch
<1>11. CASE RetryOneOfSeveral
  BY <1>11 DEF RetryOneOfSeveral, BeginExecution, Patch
<1>12. CASE CancelQuery
  BY <1>12 DEF CancelQuery, Patch
<1>13. CASE Hide
  BY <1>13 DEF Hide
<1>14. CASE Show
  BY <1>14 DEF Show
<1>15. CASE EditRow
  BY <1>15 DEF EditRow
<1>16. CASE Cleanup
  BY <1>16 DEF Cleanup
<1>17. CASE \E i \in Indices : SetActiveResultIndex(i)
  BY <1>17 DEF SetActiveResultIndex, Switch
<1>18. CASE \E item \in {"result", "table-data"} : SetActiveBottomPanelItem(item)
  BY <1>18 DEF SetActiveBottomPanelItem, Switch
<1>19. CASE AiSend
  BY <1>19 DEF AiSend, Lock
<1>20. CASE AiEnd
  BY <1>20 DEF AiEnd, RestoreTabStatus
<1>21. CASE OpenDiff
  BY <1>21 DEF OpenDiff, Lock
<1>22. CASE CloseDiff
  BY <1>22 DEF CloseDiff, RestoreTabStatus
<1>23. CASE \E i \in Indices : EvictInactive(i)
  BY <1>23 DEF EvictInactive
<1>24. CASE UNCHANGED vars
  BY <1>24 DEF vars
<1>25. CASE \E c \in calls, answer \in Answers : TouchReply(c, answer)
  <2>0. PICK c \in calls, answer \in Answers : TouchReply(c, answer)
    BY <1>25
  <2>1. visible' = visible /\ (~tab.open => results' = results)
    BY <2>0 DEF TouchReply
  <2>2. Default(TRUE).shut /\ Default(TRUE).open
    BY DEF Default
  <2>. QED BY <2>0, <2>1, <2>2, TouchedIs DEF Default
<1>. QED BY StepCases, <1>1, <1>2, <1>3, <1>4, <1>5, <1>6, <1>7, <1>8,
    <1>9, <1>10, <1>11, <1>12, <1>13, <1>14, <1>15, <1>16, <1>17, <1>18,
    <1>19, <1>20, <1>21, <1>22, <1>23, <1>24, <1>25

(* Between two steps the tab, its results, timers and calls have their     *)
(* types, the flag is true to the runs and so is every blame.              *)
Inv == TabOK /\ ResultsOK /\ TimersOK /\ CallsOK /\ CancelInv /\ BlameInv /\ ScreenInv /\ GoneInv

THEOREM InductiveInvariant == Spec => []Inv
<1>1. Init => Inv
  <2>. SUFFICES ASSUME Init  PROVE Inv
    OBVIOUS
  <2>1. TabOK
    BY DefaultTyped DEF Init, TabOK
  <2>2. ResultsOK /\ TimersOK /\ BlameInv
    BY QueryTabAssumption DEF Init, ResultsOK, TimersOK, BlameInv
  <2>3. CallsOK
    BY FS_EmptySet, QueryTabAssumption DEF Init, CallsOK, CallsInv, ById
  <2>4. CancelInv /\ ScreenInv /\ GoneInv
    BY DEF Init, Default, CancelInv, ScreenInv, GoneInv
  <2>. QED BY <2>1, <2>2, <2>3, <2>4 DEF Inv
<1>2. Inv /\ [Next]_vars => Inv'
  <2>. SUFFICES ASSUME Inv, [Next]_vars  PROVE Inv'
    OBVIOUS
  <2>1. TabOK' /\ TimersOK'
    BY TabStep DEF Inv
  <2>2. ResultsOK'
    BY ResultsStep DEF Inv
  <2>3. CallsOK'
    BY CallsStep DEF Inv
  <2>4. CancelInv'
    BY CancelStep DEF Inv
  <2>5. BlameInv'
    BY BlameStep DEF Inv
  <2>6. ScreenInv'
    BY <2>2, ScreenStep DEF Inv
  <2>7. GoneInv'
    BY GoneStep DEF Inv
  <2>. QED BY <2>1, <2>2, <2>3, <2>4, <2>5, <2>6, <2>7 DEF Inv
<1>. QED BY <1>1, <1>2, PTL DEF Spec

(* The tab's types hold, a cancel lasts no longer than the runs it was     *)
(* meant for, and no later run's failure is blamed on the user.            *)
THEOREM TabInvAlways == Spec => []TabInv
<1>1. Inv => TabInv
  <2>. SUFFICES ASSUME Inv  PROVE TabInv
    OBVIOUS
  <2>1. TypeOK
    BY DEF Inv, TypeOK, TabOK, ResultsOK, TimersOK, CallsOK
  <2>2. CancelBlamesItsRun
    BY DEF Inv, CancelInv, BlameInv, CancelBlamesItsRun, InFlight
  <2>. QED BY <2>1, <2>2 DEF TabInv
<1>. QED BY <1>1, InductiveInvariant, PTL

(* A closed tab comes back with a failed validation only, without results, *)
(* out of the workspace's sight and with the status it had captured (the   *)
(* guards of query-store.ts, and the catch without one).                   *)
THEOREM ClosedForGood == Spec => OnlyFailedTouchRevives
<1>. DEFINE Revives == ~tab.open /\ tab'.open =>
               /\ tab'.shut /\ ~visible' /\ results' = <<>>
               /\ \E c \in calls \ calls' :
                    c.kind = "touch" /\ c.saved # "success" /\ tab'.status = c.saved
<1>1. ASSUME Inv, [Next]_vars, ~tab.open, tab'.open
      PROVE  /\ tab'.shut /\ ~visible' /\ results' = <<>>
             /\ \E c \in calls \ calls' :
                  c.kind = "touch" /\ c.saved # "success" /\ tab'.status = c.saved
  <2>0. PICK c \in calls, answer \in Answers : TouchReply(c, answer)
    BY <1>1, OnlyTouchPatches
  <2>1. c.saved # "success" /\ tab' = [Default(TRUE) EXCEPT !.status = c.saved]
    BY <1>1, <2>0, TouchedIs DEF Inv
  <2>2. tab'.shut /\ tab'.status = c.saved
    BY <2>1 DEF Default
  <2>3. ~visible' /\ results' = <<>>
    BY <1>1, <2>0 DEF TouchReply, Inv, GoneInv
  <2>4. c \in calls \ calls' /\ c.kind = "touch"
    BY <2>0 DEF TouchReply, Settle
  <2>. QED BY <2>1, <2>2, <2>3, <2>4
<1>2. Inv /\ [Next]_vars => [Revives]_vars
  BY <1>1
<1>. QED BY <1>2, InductiveInvariant, PTL DEF Spec, OnlyFailedTouchRevives

LEMMA SwitchSpares ==
  ASSUME results \in Seq(ResultType), NEW k \in DOMAIN results, Active = k, tab.status = tab'.status,
         visible, tab.panel = "result", Switch("result", k),
         \A c \in calls : c.id # issued + 1, calls' = calls
  PROVE  results'[k].rows = results[k].rows
<1>1. ~NeedsRestore(k)
  <2>. SUFFICES ASSUME NeedsRestore(k)  PROVE FALSE
    OBVIOUS
  <2>1. Issue(RestoreCall(k))
    BY DEF Switch
  <2>2. RestoreCall(k) \in calls
    BY <2>1 DEF Issue
  <2>. QED BY <2>2 DEF RestoreCall, NewCall
<1>0. k \in Nat /\ \A i \in DOMAIN results : results[i] \in ResultType
  OBVIOUS
<1>. DEFINE left == MarkInactive(results, k)
<1>2. results' = Entered(left, k)
  BY DEF Switch
<1>3. k \in Nat /\ left \in Seq(ResultType) /\ DOMAIN left = DOMAIN results
  BY <1>0, MarkedResults DEF SameShape
<1>4. left[k].rows = results[k].rows
  BY <1>0 DEF MarkInactive, ResultType
<1>. HIDE DEF left
<1>5. MarkActive(left, k)[k].rows = left[k].rows /\ MarkActive(left, k) \in Seq(ResultType)
      /\ DOMAIN MarkActive(left, k) = DOMAIN left
  <2>1. MarkActive(left, k) \in Seq(ResultType) /\ DOMAIN MarkActive(left, k) = DOMAIN left
    BY <1>3, MarkedResults DEF SameShape
  <2>2. left[k] \in ResultType
    BY <1>3
  <2>3. MarkActive(left, k)[k].rows = left[k].rows
    BY <1>3, <2>2 DEF MarkActive, ResultType
  <2>. QED BY <2>1, <2>3
<1>6. Entered(left, k) = MarkActive(left, k) \/ Entered(left, k) = MarkExpired(MarkActive(left, k))
  BY <1>1, <1>2 DEF Entered, NeedsRestore
<1>7. MarkExpired(MarkActive(left, k))[k].rows = MarkActive(left, k)[k].rows
  <2>1. MarkActive(left, k)[k] \in ResultType
    BY <1>3, <1>5
  <2>. QED BY <1>3, <1>5, <2>1 DEF MarkExpired, ResultType
<1>. QED BY <1>2, <1>4, <1>5, <1>6, <1>7

(* A step that neither asks for rows nor changes the tab leaves the rows on *)
(* screen alone: the timer that fires finds their result marked active.    *)
LEMMA TimersSpare ==
  ASSUME Inv, [Next]_vars, NEW k \in timers, k = OnScreenResult, results[k].id # 0,
         calls' = calls, tab' = tab
  PROVE  results'[k].rows = results[k].rows
<1>1. /\ tab.open /\ visible /\ tab.panel = "result" /\ k = Active /\ k \in Indices
  BY QueryTabAssumption DEF OnScreenResult, Inv, TimersOK, Indices
<1>2. k \in DOMAIN results /\ k = tab.active
  <2>1. results # << >> /\ k \in DOMAIN results
    BY <1>1, ActiveIsAnIndex, EmptySeq, QueryTabAssumption DEF Inv, ResultsOK, Indices
  <2>. QED BY <1>1, <2>1, QueryTabAssumption DEF Inv, ScreenInv, Active, Indices
<1>3. results[k].active /\ results[k] \in ResultType /\ results \in Seq(ResultType)
  BY <1>1, <1>2 DEF Inv, ScreenInv, ResultsOK
<1>4. \A c \in calls : c.id # issued + 1 /\ issued \in Nat
  BY QueryTabAssumption DEF Inv, CallsOK, CallsInv, CallType, ById
<1>5. \A c \in calls : ~Settle(c)
  BY DEF Settle
<1>6. CASE \E c \in calls : ExecuteReply(c)
  <2>0. PICK c \in calls : ExecuteReply(c)
    BY <1>6
  <2>. QED BY <1>5, <2>0 DEF ExecuteReply
<1>7. CASE \E c \in calls : RunFailed(c)
  <2>0. PICK c \in calls : RunFailed(c)
    BY <1>7
  <2>. QED BY <1>5, <2>0 DEF RunFailed
<1>8. CASE \E c \in calls, n \in Indices : BatchReply(c, n)
  <2>0. PICK c \in calls, n \in Indices : BatchReply(c, n)
    BY <1>8
  <2>. QED BY <1>5, <2>0 DEF BatchReply
<1>9. CASE \E c \in calls : RerunReply(c)
  <2>0. PICK c \in calls : RerunReply(c)
    BY <1>9
  <2>. QED BY <1>5, <2>0 DEF RerunReply
<1>10. CASE \E c \in calls : RerunFailed(c)
  <2>0. PICK c \in calls : RerunFailed(c)
    BY <1>10
  <2>. QED BY <1>5, <2>0 DEF RerunFailed
<1>11. CASE \E c \in calls, killed \in BOOLEAN : CancelReply(c, killed)
  <2>0. PICK c \in calls, killed \in BOOLEAN : CancelReply(c, killed)
    BY <1>11
  <2>. QED BY <1>5, <2>0 DEF CancelReply
<1>12. CASE \E c \in calls, answer \in Answers : TouchReply(c, answer)
  <2>0. PICK c \in calls, answer \in Answers : TouchReply(c, answer)
    BY <1>12
  <2>. QED BY <1>5, <2>0 DEF TouchReply
<1>13. CASE \E c \in calls, answer \in Answers : RestoreTouched(c, answer)
  <2>0. PICK c \in calls, answer \in Answers : RestoreTouched(c, answer)
    BY <1>13
  <2>. QED BY <1>5, <2>0 DEF RestoreTouched
<1>14. CASE \E c \in calls, answer \in {"ok", "failed", "expired"} : WindowReply(c, answer)
  <2>0. PICK c \in calls, answer \in {"ok", "failed", "expired"} : WindowReply(c, answer)
    BY <1>14
  <2>. QED BY <1>5, <2>0 DEF WindowReply
<1>15. CASE ExecuteQuery
  <2>1. NewCall("execute", 0, 0, tab.status) \in calls
    BY <1>15 DEF ExecuteQuery, Run, Issue
  <2>. QED BY <1>4, <2>1 DEF NewCall
<1>16. CASE ExecuteBatch
  <2>1. NewCall("batch", Len(results), 0, tab.status) \in calls
    BY <1>16 DEF ExecuteBatch, Run, Issue
  <2>. QED BY <1>4, <2>1 DEF NewCall
<1>17. CASE RetryOneOfSeveral
  <2>1. NewCall("rerun", Active, results[Active].id, tab.status) \in calls
    BY <1>17 DEF RetryOneOfSeveral, Run, Issue
  <2>. QED BY <1>4, <2>1 DEF NewCall
<1>18. CASE CancelQuery
  BY <1>4, <1>18 DEF CancelQuery, Issue, NewCall
<1>19. CASE Hide
  BY <1>2, <1>3, <1>19 DEF Hide, MarkInactive, ResultType
<1>20. CASE Show
  BY <1>1, <1>20 DEF Show
<1>21. CASE EditRow
  BY <1>2, <1>3, <1>21 DEF EditRow, ResultType
<1>22. CASE Cleanup
  BY <1>1, <1>22 DEF Cleanup, Inv, TabOK, TabType
<1>23. CASE \E i \in Indices : SetActiveResultIndex(i)
  <2>0. PICK i \in Indices : SetActiveResultIndex(i)
    BY <1>23
  <2>1. Switch(tab.panel, i) /\ i \in Nat
    BY <2>0, Known, QueryTabAssumption DEF SetActiveResultIndex, Indices, Inv
  <2>2. i = k /\ tab.panel = "result"
    BY <2>1, <1>1, <1>2 DEF Switch, Inv, TabOK, TabType
  <2>. QED BY <2>1, <2>2, <1>1, <1>2, <1>3, <1>4, SwitchSpares DEF Inv
<1>24. CASE \E item \in {"result", "table-data"} : SetActiveBottomPanelItem(item)
  <2>0. PICK item \in {"result", "table-data"} : SetActiveBottomPanelItem(item)
    BY <1>24
  <2>1. Switch(item, tab.active) /\ tab.active \in Nat
    BY <2>0, Known, QueryTabAssumption DEF SetActiveBottomPanelItem, Indices, Inv
  <2>2. tab.active = k /\ item = "result"
    BY <2>1, <1>1, <1>2 DEF Switch, Inv, TabOK, TabType
  <2>. QED BY <2>1, <2>2, <1>1, <1>2, <1>3, <1>4, SwitchSpares DEF Inv
<1>25. CASE AiSend
  BY <1>25 DEF AiSend
<1>26. CASE AiEnd
  BY <1>26 DEF AiEnd
<1>27. CASE OpenDiff
  BY <1>27 DEF OpenDiff
<1>28. CASE CloseDiff
  BY <1>28 DEF CloseDiff
<1>29. CASE \E i \in Indices : EvictInactive(i)
  <2>0. PICK i \in Indices : EvictInactive(i)
    BY <1>29
  <2>. QED BY <1>2, <1>3, <2>0 DEF EvictInactive, Residency, ResultType
<1>30. CASE UNCHANGED vars
  BY <1>30 DEF vars
<1>. QED BY StepCases, <1>6, <1>7, <1>8, <1>9, <1>10, <1>11, <1>12, <1>13, <1>14,
    <1>15, <1>16, <1>17, <1>18, <1>19, <1>20, <1>21, <1>22, <1>23, <1>24, <1>25,
    <1>26, <1>27, <1>28, <1>29, <1>30

(* No inactive timer takes the rows on screen.                             *)
THEOREM TimerSparesAlways == Spec => TimerSparesTheScreen
<1>. DEFINE Spares == \A i \in timers :
                        i = OnScreenResult /\ results[i].id # 0 /\ calls' = calls /\ tab' = tab
                          => results'[i].rows = results[i].rows
<1>1. Inv /\ [Next]_vars => [Spares]_vars
  BY TimersSpare
<1>. QED BY <1>1, InductiveInvariant, PTL DEF Spec, TimerSparesTheScreen

----------
(* AiChat: the parts of its inductive invariant.                           *)

(* The tab, its conversation and its flows have their types.              *)
TabTypeOK ==
    /\ chat \in ChatType
    /\ messages \in Seq(MessageType)
    /\ flows \subseteq [id : Streams, stage : {"index", "memories", "search", "listen", "send"},
                        attached : 0 .. MaxContexts, memories : SUBSET Memories]
    /\ listeners \subseteq Streams /\ live \subseteq Streams
    /\ sent \in 0 .. MaxSends

(* The tab's fields fit together, and the streams' ids are handed out.     *)
OwnerInv ==
    /\ ListenersAreOwned
    /\ chat.shown => chat.open
    /\ ~chat.open => chat.stream = 0 /\ messages = <<>> /\ chat.keys = {}
    /\ chat.error => chat.stream = 0
    /\ chat.stream <= sent
    /\ \A f \in flows : f.id <= sent
    /\ \A s \in live : s <= sent
    /\ \A f, g \in flows : f.id = g.id => f = g
    /\ \A f \in flows : f.id \notin live

(* Only context carries keys, and every question has its id.               *)
BodyOK(ms, n) ==
    /\ \A i \in 1 .. Len(ms) : ms[i].kind \notin ContextKinds => ms[i].keys = {}
    /\ \A i \in 1 .. Len(ms) : ms[i].kind = "user" => ms[i].id <= n
    /\ \A i, j \in 1 .. Len(ms) :
          ms[i].kind = "user" /\ ms[j].kind = "user" /\ ms[i].id = ms[j].id => i = j

Answered(ms) ==
    \A i \in 1 .. Len(ms) :
      ms[i].kind = "assistant" => i > 1 /\ ms[i - 1] = Message("user", ms[i].id, {})

(* A conversation ends with a question or its answer.                      *)
Shape(ms, n) ==
    /\ ms \in Seq(MessageType) /\ BodyOK(ms, n) /\ Answered(ms)
    /\ ms # <<>> => ms[Len(ms)].kind \in {"user", "assistant"}

(* No two messages carry the same of the keys C.                           *)
Apart(ms, C) ==
    \A i, j \in 1 .. Len(ms) : ms[i].keys \cap ms[j].keys \cap C # {} => i = j

(* The active stream has begun its answer.                                 *)
Answering == chat.stream # 0 /\ messages # <<>> /\ messages[Len(messages)].kind = "assistant"

MessagesInv ==
    /\ Shape(messages, sent)
    /\ chat.stream # 0 => messages # <<>> /\ messages[Len(messages)].id = chat.stream
    /\ Answering => \A f \in flows : f.id # chat.stream

(* What the context messages carry is in the index, and paid for.          *)
KeysInv ==
    /\ Apart(messages, Chunks)
    /\ KeysIn(messages) \cap Chunks \subseteq chat.keys
    /\ Cardinality(KeysIn(messages) \cap Chunks) <= chat.cost

(* While no race was met, memories are told apart as well.                 *)
MemoriesInv ==
    Late = {} =>
      /\ Apart(messages, Keys)
      /\ chat.keys = KeysIn(messages)
      /\ \A f \in flows : f.stage = "search" /\ f.id = chat.stream => f.memories \cap chat.keys = {}

(* The attached statement, as a message.                                   *)
Statement == {Message("attached-context", v, {}) : v \in {chat.attached} \ {0}}

Before(ms) == AsksOf(SubSeq(ms, 1, LastAssistant(ms)))

(* While no race was met: the statement in the conversation is the one     *)
(* attached, a chain stands for what was asked up to the last answer, but  *)
(* for a statement taken out to be put in again, and the prompt is the     *)
(* conversation.                                                           *)
ChainInv ==
    Late = {} =>
      /\ \A i \in 1 .. Len(messages) : IsAttached(messages[i]) => messages[i] \in Statement
      /\ \A f \in flows : f.id = chat.stream =>
            /\ f.attached = chat.attached
            /\ f.stage \in {"listen", "send"} => Statement \subseteq AsksOf(messages)
            /\ chat.prompt # {} => f.stage = "send"
      /\ chat.prompt # {} => chat.stream # 0 /\ chat.prompt = AsksOf(messages)
      /\ chat.output => Answering
      /\ chat.chain # NoChain /\ ~Answering =>
            Before(messages) \subseteq chat.chain /\ chat.chain \subseteq Before(messages) \cup Statement

TabIInv == TabTypeOK /\ OwnerInv /\ MessagesInv /\ KeysInv /\ MemoriesInv /\ ChainInv

(* The query tab's lock, whoever wrote its status last.                   *)
LockInv ==
    /\ query \in QueryType
    /\ gaps \subseteq {"stray", "swap", "kill", "unlocked", "relocked"}
    /\ LockedWhileGenerating

ChatIInv == TabIInv /\ LockInv
----------
(* Least and greatest elements of sets of naturals. *)

LEMMA LeastNat ==
  ASSUME NEW T, T \subseteq Nat, T # {}
  PROVE  \E x \in T : \A y \in T : x <= y
<1>1. IsWellFoundedOn(OpToRel(<, Nat), Nat)
  BY NatLessThanWellFounded
<1>2. PICK x \in T : \A y \in T : ~ (<<y, x>> \in OpToRel(<, Nat))
  BY <1>1, WFMin
<1>3. ASSUME NEW y \in T PROVE x <= y
  <2>1. ~ (<<y, x>> \in OpToRel(<, Nat))
    BY <1>2
  <2>2. x \in Nat /\ y \in Nat
    OBVIOUS
  <2>3. ~(y < x)
    BY <2>1, <2>2 DEF OpToRel
  <2>. QED BY <2>2, <2>3
<1>. QED BY <1>3

LEMMA GreatestNat ==
  ASSUME NEW n \in Nat, NEW T, T \subseteq 0 .. n, T # {}
  PROVE  \E x \in T : \A y \in T : y <= x
<1>. DEFINE U == {n - t : t \in T}
<1>1. U \subseteq Nat /\ U # {}
  <2>1. \A t \in T : t \in 0 .. n /\ n - t \in Nat
    OBVIOUS
  <2>. QED BY <2>1
<1>2. PICK u \in U : \A v \in U : u <= v
  BY <1>1, LeastNat
<1>3. PICK x \in T : u = n - x
  OBVIOUS
<1>4. ASSUME NEW y \in T PROVE y <= x
  <2>1. n - y \in U
    OBVIOUS
  <2>2. u <= n - y
    BY <1>2, <2>1
  <2>. QED BY <1>3, <2>2
<1>. QED BY <1>4

LEMMA MinOf ==
  ASSUME NEW T, T \subseteq Nat, T # {}
  PROVE  Min(T) \in T /\ \A y \in T : Min(T) <= y
<1>1. \E x \in T : \A y \in T : x <= y
  BY LeastNat
<1>. QED BY <1>1 DEF Min

LEMMA MaxOf ==
  ASSUME NEW n \in Nat, NEW T, T \subseteq 0 .. n, T # {}
  PROVE  Max(T) \in T /\ \A y \in T : y <= Max(T)
<1>1. \E x \in T : \A y \in T : y <= x
  BY GreatestNat
<1>2. \E x \in T : \A y \in T : x >= y
  BY <1>1
<1>3. Max(T) \in T /\ \A y \in T : Max(T) >= y
  BY <1>2 DEF Max
<1>. QED BY <1>3

----------
(* Filter: what it keeps, in the same order. *)

(* ns is a part of ms, picked at the indices of h.                         *)
PartOf(ms, ns, h) ==
  /\ h \in [1 .. Len(ns) -> 1 .. Len(ms)]
  /\ \A j, k \in 1 .. Len(ns) : j < k => h[j] < h[k]
  /\ \A k \in 1 .. Len(ns) : ns[k] = ms[h[k]]

FilterRun(f, n, ms, P, S) ==
  /\ f \in [0 .. n -> Seq(S)]
  /\ f[0] = <<>>
  /\ \A i \in 1 .. n : f[i] = IF ms[i] \in P THEN Append(f[i - 1], ms[i]) ELSE f[i - 1]

LEMMA FilterRunExists ==
  ASSUME NEW S, NEW ms \in Seq(S), NEW P
  PROVE  \E f : FilterRun(f, Len(ms), ms, P, S)
<1>. DEFINE T == {n \in 0 .. Len(ms) : ~ \E f : FilterRun(f, n, ms, P, S)}
<1>0. Len(ms) \in Nat
  OBVIOUS
<1>1. SUFFICES ASSUME T # {} PROVE FALSE
  BY <1>0
<1>2. PICK n \in T : \A m \in T : n <= m
  <2>1. T \subseteq Nat
    BY <1>0
  <2>. HIDE DEF T
  <2>. QED BY <1>1, <2>1, LeastNat
<1>3. n # 0
  <2>. DEFINE g == [i \in 0 .. 0 |-> <<>>]
  <2>1. g \in [0 .. 0 -> Seq(S)] /\ g[0] = <<>>
    OBVIOUS
  <2>2. FilterRun(g, 0, ms, P, S)
    BY <2>1 DEF FilterRun
  <2>. QED BY <2>2
<1>4. n - 1 \in 0 .. Len(ms) /\ n - 1 \notin T /\ n \in 1 .. Len(ms)
  BY <1>0, <1>2, <1>3
<1>5. PICK f : FilterRun(f, n - 1, ms, P, S)
  BY <1>4
<1>6. /\ f \in [0 .. (n - 1) -> Seq(S)] /\ f[0] = <<>>
      /\ \A i \in 1 .. (n - 1) : f[i] = IF ms[i] \in P THEN Append(f[i - 1], ms[i]) ELSE f[i - 1]
  BY <1>5 DEF FilterRun
<1>. DEFINE last == IF ms[n] \in P THEN Append(f[n - 1], ms[n]) ELSE f[n - 1]
            g    == [i \in 0 .. n |-> IF i = n THEN last ELSE f[i]]
<1>7. f[n - 1] \in Seq(S) /\ ms[n] \in S
  BY <1>4, <1>6, ElementOfSeq
<1>8. last \in Seq(S)
  BY <1>7
<1>9. g \in [0 .. n -> Seq(S)]
  BY <1>0, <1>4, <1>6, <1>8
<1>10. g[0] = <<>>
  BY <1>4, <1>6
<1>11. ASSUME NEW i \in 1 .. n
       PROVE  g[i] = IF ms[i] \in P THEN Append(g[i - 1], ms[i]) ELSE g[i - 1]
  <2>1. g[i - 1] = f[i - 1]
    BY <1>4
  <2>2. CASE i = n
    BY <1>4, <2>1, <2>2
  <2>3. CASE i # n
    <3>1. i \in 1 .. (n - 1) /\ g[i] = f[i]
      BY <1>4, <2>3
    <3>. HIDE DEF g
    <3>. QED BY <1>6, <2>1, <3>1
  <2>. QED BY <2>2, <2>3
<1>12. FilterRun(g, n, ms, P, S)
  <2>. HIDE DEF g
  <2>. QED BY <1>9, <1>10, <1>11 DEF FilterRun
<1>. QED BY <1>12

LEMMA FilterIsRun ==
  ASSUME NEW S, NEW ms \in Seq(S), NEW P
  PROVE  \E f : FilterRun(f, Len(ms), ms, P, S) /\ Filter(ms, P) = f[Len(ms)]
<1>. DEFINE Body(f) == [i \in 0 .. Len(ms) |->
                          IF i = 0 THEN <<>>
                          ELSE IF ms[i] \in P THEN Append(f[i - 1], ms[i]) ELSE f[i - 1]]
            c == CHOOSE f : f = Body(f)
<1>0. Len(ms) \in Nat
  OBVIOUS
<1>1. Filter(ms, P) = c[Len(ms)]
  BY DEF Filter
<1>2. PICK f : FilterRun(f, Len(ms), ms, P, S)
  BY FilterRunExists
<1>3. f = Body(f)
  <2>1. f \in [0 .. Len(ms) -> Seq(S)]
    BY <1>2 DEF FilterRun
  <2>2. ASSUME NEW i \in 0 .. Len(ms) PROVE f[i] = Body(f)[i]
    <3>1. CASE i = 0
      BY <1>2, <3>1 DEF FilterRun
    <3>2. CASE i # 0
      <4>1. i \in 1 .. Len(ms)
        BY <1>0, <3>2
      <4>. QED BY <1>2, <3>2, <4>1 DEF FilterRun
    <3>. QED BY <3>1, <3>2
  <2>. QED BY <2>1, <2>2
<1>4. c = Body(c)
  BY <1>3
<1>5. \A i \in 0 .. Len(ms) : c[i] = f[i]
  <2>. DEFINE T == {i \in 0 .. Len(ms) : c[i] # f[i]}
  <2>1. SUFFICES ASSUME T # {} PROVE FALSE
    OBVIOUS
  <2>2. PICK n \in T : \A m \in T : n <= m
    <3>1. T \subseteq Nat
      BY <1>0
    <3>. HIDE DEF T
    <3>. QED BY <2>1, <3>1, LeastNat
  <2>3. c[n] = Body(c)[n] /\ f[n] = Body(f)[n]
    BY <1>3, <1>4
  <2>4. n # 0
    BY <2>2, <2>3
  <2>5. n - 1 \in 0 .. Len(ms) /\ n - 1 \notin T
    BY <1>0, <2>2, <2>4
  <2>6. c[n - 1] = f[n - 1]
    BY <2>5
  <2>. QED BY <2>2, <2>3, <2>6
<1>6. Filter(ms, P) = f[Len(ms)]
  <2>. HIDE DEF c
  <2>. QED BY <1>0, <1>1, <1>5
<1>. QED BY <1>2, <1>6

LEMMA FilterPart ==
  ASSUME NEW S, NEW ms \in Seq(S), NEW P
  PROVE  /\ Filter(ms, P) \in Seq(S)
         /\ \E h : /\ PartOf(ms, Filter(ms, P), h)
                   /\ \A k \in 1 .. Len(Filter(ms, P)) : Filter(ms, P)[k] \in P
                   /\ \A i \in 1 .. Len(ms) : ms[i] \in P =>
                        \E k \in 1 .. Len(Filter(ms, P)) : h[k] = i
<1>. DEFINE Done(r, n, h) ==
              /\ h \in [1 .. Len(r) -> 1 .. n]
              /\ \A j, k \in 1 .. Len(r) : j < k => h[j] < h[k]
              /\ \A k \in 1 .. Len(r) : r[k] = ms[h[k]] /\ r[k] \in P
              /\ \A i \in 1 .. n : ms[i] \in P => \E k \in 1 .. Len(r) : h[k] = i
<1>0. Len(ms) \in Nat
  OBVIOUS
<1>1. PICK f : FilterRun(f, Len(ms), ms, P, S) /\ Filter(ms, P) = f[Len(ms)]
  BY FilterIsRun
<1>2. /\ f \in [0 .. Len(ms) -> Seq(S)] /\ f[0] = <<>>
      /\ \A i \in 1 .. Len(ms) : f[i] = IF ms[i] \in P THEN Append(f[i - 1], ms[i]) ELSE f[i - 1]
  BY <1>1 DEF FilterRun
<1>. DEFINE Good(n) == \E h : Done(f[n], n, h)
            T == {n \in 0 .. Len(ms) : ~ Good(n)}
<1>3. T = {}
  <2>1. SUFFICES ASSUME T # {} PROVE FALSE
    OBVIOUS
  <2>2. PICK n \in T : \A m \in T : n <= m
    <3>1. T \subseteq Nat
      BY <1>0
    <3>. HIDE DEF T
    <3>. QED BY <2>1, <3>1, LeastNat
  <2>2a. n \in 0 .. Len(ms) /\ ~ Good(n) /\ \A m \in 0 .. Len(ms) : m < n => Good(m)
    <3>. HIDE DEF Good
    <3>. QED BY <1>0, <2>2
  <2>3. n # 0
    <3>1. Len(f[0]) = 0
      BY <1>2
    <3>. DEFINE h0 == [k \in 1 .. 0 |-> 0]
    <3>2. h0 \in [1 .. 0 -> 1 .. 0]
      OBVIOUS
    <3>3. Done(f[0], 0, h0)
      <4>. HIDE DEF h0
      <4>1. 1 .. Len(f[0]) = {} /\ 1 .. 0 = {}
        BY <3>1
      <4>. QED BY <3>1, <3>2, <4>1
    <3>4. Good(0)
      BY <3>3
    <3>. HIDE DEF Good
    <3>. QED BY <2>2a, <3>4
  <2>4. n \in 1 .. Len(ms) /\ n - 1 \in 0 .. Len(ms) /\ Good(n - 1)
    <3>. HIDE DEF Good
    <3>. QED BY <1>0, <2>2a, <2>3
  <2>5. PICK g : Done(f[n - 1], n - 1, g)
    BY <2>4
  <2>. DEFINE r == f[n - 1]
              l == Len(r)
  <2>6. r \in Seq(S) /\ l \in Nat /\ ms[n] \in S
    BY <1>2, <2>4, ElementOfSeq, LenProperties
  <2>7. CASE ms[n] \notin P
    <3>1. f[n] = r
      BY <1>2, <2>4, <2>7
    <3>2. g \in [1 .. l -> 1 .. n]
      BY <2>4, <2>5, <2>6
    <3>3. ASSUME NEW i \in 1 .. n, ms[i] \in P PROVE \E k \in 1 .. l : g[k] = i
      <4>1. i \in 1 .. (n - 1)
        BY <2>4, <2>7, <3>3
      <4>. QED BY <2>5, <3>3, <4>1
    <3>4. Done(r, n, g)
      BY <2>5, <3>2, <3>3
    <3>. QED BY <2>2a, <3>1, <3>4
  <2>8. CASE ms[n] \in P
    <3>1. f[n] = Append(r, ms[n])
      BY <1>2, <2>4, <2>8
    <3>2. /\ Len(f[n]) = l + 1 /\ f[n][l + 1] = ms[n]
          /\ \A k \in 1 .. l : f[n][k] = r[k]
      BY <2>6, <3>1, AppendProperties
    <3>. DEFINE h == [k \in 1 .. (l + 1) |-> IF k = l + 1 THEN n ELSE g[k]]
    <3>3. h \in [1 .. (l + 1) -> 1 .. n] /\ h[l + 1] = n /\ \A k \in 1 .. l : h[k] = g[k]
      BY <2>4, <2>5, <2>6
    <3>4. \A k \in 1 .. l : g[k] \in 1 .. (n - 1)
      BY <2>5
    <3>. HIDE DEF h
    <3>5. ASSUME NEW j \in 1 .. (l + 1), NEW k \in 1 .. (l + 1), j < k PROVE h[j] < h[k]
      <4>1. j \in 1 .. l
        BY <2>6, <3>5
      <4>2. CASE k = l + 1
        <5>1. h[j] = g[j] /\ g[j] \in 1 .. (n - 1) /\ h[k] = n
          BY <3>3, <3>4, <4>1, <4>2
        <5>. QED BY <2>4, <5>1
      <4>3. CASE k # l + 1
        <5>1. k \in 1 .. l
          BY <2>6, <4>3
        <5>2. g[j] < g[k]
          BY <2>5, <3>5, <4>1, <5>1
        <5>. QED BY <3>3, <4>1, <5>1, <5>2
      <4>. QED BY <4>2, <4>3
    <3>6. ASSUME NEW k \in 1 .. (l + 1) PROVE f[n][k] = ms[h[k]] /\ f[n][k] \in P
      <4>1. CASE k = l + 1
        BY <2>8, <3>2, <3>3, <4>1
      <4>2. CASE k # l + 1
        <5>1. k \in 1 .. l
          BY <2>6, <4>2
        <5>. QED BY <2>5, <3>2, <3>3, <5>1
      <4>. QED BY <4>1, <4>2
    <3>7. ASSUME NEW i \in 1 .. n, ms[i] \in P PROVE \E k \in 1 .. (l + 1) : h[k] = i
      <4>1. CASE i = n
        <5>1. l + 1 \in 1 .. (l + 1)
          BY <2>6
        <5>. QED BY <3>3, <4>1, <5>1
      <4>2. CASE i # n
        <5>1. i \in 1 .. (n - 1)
          BY <2>4, <4>2
        <5>2. PICK k \in 1 .. l : g[k] = i
          BY <2>5, <3>7, <5>1
        <5>. QED BY <2>6, <3>3, <5>2
      <4>. QED BY <4>1, <4>2
    <3>8. Done(f[n], n, h)
      BY <3>2, <3>3, <3>5, <3>6, <3>7
    <3>. QED BY <2>2a, <3>8
  <2>. QED BY <2>7, <2>8
<1>4. Len(ms) \in 0 .. Len(ms)
  BY <1>0
<1>5. PICK h : Done(f[Len(ms)], Len(ms), h)
  <2>1. Len(ms) \notin T
    BY <1>3
  <2>. QED BY <1>4, <2>1
<1>6. Filter(ms, P) \in Seq(S)
  BY <1>1, <1>2, <1>4
<1>. QED BY <1>1, <1>5, <1>6 DEF PartOf
----------
(* What the operators on conversations return. *)

LEMMA MessageOK ==
  ASSUME NEW kind \in {"user", "assistant", "attached-context"} \cup ContextKinds,
         NEW id \in 0 .. MaxSends + MaxContexts, NEW keys \in SUBSET Keys
  PROVE  /\ Message(kind, id, keys) \in MessageType
         /\ Message(kind, id, keys).kind = kind /\ Message(kind, id, keys).id = id
         /\ Message(kind, id, keys).keys = keys
  BY DEF Message, MessageType

LEMMA IsMessage ==
  ASSUME NEW ms \in Seq(MessageType), NEW i \in 1 .. Len(ms)
  PROVE  /\ ms[i] \in MessageType
         /\ ms[i].kind \in {"user", "assistant", "attached-context"} \cup ContextKinds
         /\ ms[i].id \in 0 .. MaxSends + MaxContexts /\ ms[i].keys \subseteq Keys
<1>1. ms[i] \in MessageType
  BY ElementOfSeq
<1>. QED BY <1>1 DEF MessageType

LEMMA KeysInIs ==
  ASSUME NEW ms \in Seq(MessageType)
  PROVE  /\ \A k : k \in KeysIn(ms) <=> \E i \in 1 .. Len(ms) : k \in ms[i].keys
         /\ KeysIn(ms) \subseteq Keys
<1>1. DOMAIN ms = 1 .. Len(ms)
  OBVIOUS
<1>2. \A k : k \in KeysIn(ms) <=> \E i \in 1 .. Len(ms) : k \in ms[i].keys
  BY <1>1 DEF KeysIn
<1>. QED BY <1>2, IsMessage

LEMMA AsksOfIs ==
  ASSUME NEW ms \in Seq(MessageType)
  PROVE  /\ \A m : m \in AsksOf(ms) <=> \E i \in 1 .. Len(ms) : m = ms[i] /\ m.kind # "assistant"
         /\ AsksOf(ms) \subseteq MessageType
<1>1. DOMAIN ms = 1 .. Len(ms)
  OBVIOUS
<1>2. \A m : m \in AsksOf(ms) <=> \E i \in 1 .. Len(ms) : m = ms[i] /\ m.kind # "assistant"
  BY <1>1 DEF AsksOf, Asked
<1>. QED BY <1>2, IsMessage

LEMMA LastAssistantIs ==
  ASSUME NEW ms \in Seq(MessageType)
  PROVE  /\ LastAssistant(ms) \in 0 .. Len(ms)
         /\ LastAssistant(ms) # 0 => ms[LastAssistant(ms)].kind = "assistant"
         /\ \A i \in 1 .. Len(ms) : ms[i].kind = "assistant" => i <= LastAssistant(ms)
<1>. DEFINE I == {i \in 1 .. Len(ms) : ms[i].kind = "assistant"}
<1>1. LastAssistant(ms) = IF I # {} THEN Max(I) ELSE 0
  BY DEF LastAssistant, SelectLastInSeq
<1>2. Len(ms) \in Nat /\ I \subseteq 0 .. Len(ms)
  OBVIOUS
<1>3. I # {} => Max(I) \in I /\ \A y \in I : y <= Max(I)
  <2>. HIDE DEF I
  <2>. QED BY <1>2, MaxOf
<1>4. CASE I = {}
  <2>1. LastAssistant(ms) = 0
    BY <1>1, <1>4
  <2>. QED BY <1>2, <1>4, <2>1
<1>5. CASE I # {}
  <2>1. LastAssistant(ms) \in I /\ \A y \in I : y <= LastAssistant(ms)
    BY <1>1, <1>3, <1>5
  <2>. HIDE DEF LastAssistant
  <2>. QED BY <1>2, <2>1
<1>. QED BY <1>4, <1>5

LEMMA IsLastAssistant ==
  ASSUME NEW ms \in Seq(MessageType), NEW l \in 0 .. Len(ms),
         l # 0 => ms[l].kind = "assistant",
         \A i \in 1 .. Len(ms) : ms[i].kind = "assistant" => i <= l
  PROVE  LastAssistant(ms) = l
<1>1. /\ LastAssistant(ms) \in 0 .. Len(ms)
      /\ LastAssistant(ms) # 0 => ms[LastAssistant(ms)].kind = "assistant"
      /\ \A i \in 1 .. Len(ms) : ms[i].kind = "assistant" => i <= LastAssistant(ms)
  BY LastAssistantIs
<1>2. Len(ms) \in Nat
  OBVIOUS
<1>3. l <= LastAssistant(ms)
  BY <1>1, <1>2
<1>4. LastAssistant(ms) <= l
  BY <1>1, <1>2
<1>. QED BY <1>1, <1>2, <1>3, <1>4

LEMMA BeforeIs ==
  ASSUME NEW ms \in Seq(MessageType)
  PROVE  \A m : m \in Before(ms) <=>
            \E i \in 1 .. LastAssistant(ms) : m = ms[i] /\ m.kind # "assistant"
<1>. DEFINE l == LastAssistant(ms)
            s == SubSeq(ms, 1, l)
<1>1. l \in 0 .. Len(ms) /\ Len(ms) \in Nat
  BY LastAssistantIs
<1>. HIDE DEF l
<1>2. s \in Seq(MessageType) /\ Len(s) = l /\ \A i \in 1 .. l : s[i] = ms[i]
  BY <1>1, SubSeqProperties
<1>3. \A m : m \in AsksOf(s) <=> \E i \in 1 .. Len(s) : m = s[i] /\ m.kind # "assistant"
  BY <1>2, AsksOfIs
<1>4. Before(ms) = AsksOf(s)
  BY DEF Before, l
<1>. HIDE DEF s
<1>. QED BY <1>2, <1>3, <1>4 DEF l

LEMMA AfterIs ==
  ASSUME NEW ms \in Seq(MessageType)
  PROVE  \A m : m \in AsksOf(SubSeq(ms, LastAssistant(ms) + 1, Len(ms))) <=>
            \E i \in LastAssistant(ms) + 1 .. Len(ms) : m = ms[i] /\ m.kind # "assistant"
<1>. DEFINE l == LastAssistant(ms)
            s == SubSeq(ms, l + 1, Len(ms))
<1>1. l \in 0 .. Len(ms) /\ Len(ms) \in Nat
  BY LastAssistantIs
<1>. HIDE DEF l
<1>2. s \in Seq(MessageType) /\ Len(s) = Len(ms) - l /\ \A i \in 1 .. Len(ms) - l : s[i] = ms[l + i]
  BY <1>1, SubSeqProperties
<1>3. \A m : m \in AsksOf(s) <=> \E i \in 1 .. Len(s) : m = s[i] /\ m.kind # "assistant"
  BY <1>2, AsksOfIs
<1>. HIDE DEF s
<1>4. ASSUME NEW m PROVE m \in AsksOf(s) <=> \E i \in l + 1 .. Len(ms) : m = ms[i] /\ m.kind # "assistant"
  <2>1. ASSUME m \in AsksOf(s) PROVE \E i \in l + 1 .. Len(ms) : m = ms[i] /\ m.kind # "assistant"
    <3>1. PICK i \in 1 .. Len(ms) - l : m = s[i] /\ m.kind # "assistant"
      BY <1>2, <1>3, <2>1
    <3>2. l + i \in l + 1 .. Len(ms) /\ m = ms[l + i]
      BY <1>1, <1>2, <3>1
    <3>. QED BY <3>1, <3>2
  <2>2. ASSUME NEW i \in l + 1 .. Len(ms), m = ms[i], m.kind # "assistant" PROVE m \in AsksOf(s)
    <3>1. i - l \in 1 .. Len(ms) - l /\ l + (i - l) = i
      BY <1>1
    <3>2. s[i - l] = ms[i]
      BY <1>2, <3>1
    <3>. QED BY <1>2, <1>3, <2>2, <3>1, <3>2
  <2>. QED BY <2>1, <2>2
<1>. QED BY <1>4 DEF s, l

LEMMA LastUserIs ==
  ASSUME NEW ms \in Seq(MessageType)
  PROVE  /\ LastUser(ms) \in 0 .. Len(ms)
         /\ LastUser(ms) # 0 => ms[LastUser(ms)].kind = "user"
         /\ \A i \in 1 .. Len(ms) : ms[i].kind = "user" => i <= LastUser(ms)
<1>. DEFINE I == {i \in 1 .. Len(ms) : ms[i].kind = "user"}
<1>1. LastUser(ms) = IF I # {} THEN Max(I) ELSE 0
  BY DEF LastUser, SelectLastInSeq
<1>2. Len(ms) \in Nat /\ I \subseteq 0 .. Len(ms)
  OBVIOUS
<1>3. I # {} => Max(I) \in I /\ \A y \in I : y <= Max(I)
  <2>. HIDE DEF I
  <2>. QED BY <1>2, MaxOf
<1>4. CASE I = {}
  <2>1. LastUser(ms) = 0
    BY <1>1, <1>4
  <2>. QED BY <1>2, <1>4, <2>1
<1>5. CASE I # {}
  <2>1. LastUser(ms) \in I /\ \A y \in I : y <= LastUser(ms)
    BY <1>1, <1>3, <1>5
  <2>. HIDE DEF LastUser
  <2>. QED BY <1>2, <2>1
<1>. QED BY <1>4, <1>5

LEMMA IndexOfUserIs ==
  ASSUME NEW ms \in Seq(MessageType), NEW id
  PROVE  /\ IndexOfUser(ms, id) \in 0 .. Len(ms)
         /\ IndexOfUser(ms, id) # 0 =>
              ms[IndexOfUser(ms, id)].kind = "user" /\ ms[IndexOfUser(ms, id)].id = id
         /\ IndexOfUser(ms, id) = 0 =>
              \A i \in 1 .. Len(ms) : ~(ms[i].kind = "user" /\ ms[i].id = id)
<1>. DEFINE I == {i \in 1 .. Len(ms) : ms[i].kind = "user" /\ ms[i].id = id}
            x == IndexOfUser(ms, id)
<1>1. x = IF I # {} THEN Min(I) ELSE 0
  BY DEF IndexOfUser, SelectInSeq
<1>2. Len(ms) \in Nat /\ I \subseteq Nat
  OBVIOUS
<1>3. I # {} => Min(I) \in I
  <2>. HIDE DEF I
  <2>. QED BY <1>2, MinOf
<1>. HIDE DEF x
<1>4. CASE I = {}
  <2>1. x = 0
    BY <1>1, <1>4
  <2>. QED BY <1>2, <1>4, <2>1 DEF x
<1>5. CASE I # {}
  <2>1. x \in I
    BY <1>1, <1>3, <1>5
  <2>. QED BY <1>2, <2>1 DEF x
<1>. QED BY <1>4, <1>5

(* The first attached statement of ms, if there is one.                    *)
FirstAttached(ms) == SelectInSeq(ms, IsAttached)

LEMMA FirstAttachedIs ==
  ASSUME NEW ms \in Seq(MessageType)
  PROVE  /\ FirstAttached(ms) \in 0 .. Len(ms)
         /\ FirstAttached(ms) # 0 => IsAttached(ms[FirstAttached(ms)])
         /\ FirstAttached(ms) = 0 => \A i \in 1 .. Len(ms) : ~IsAttached(ms[i])
<1>. DEFINE I == {i \in 1 .. Len(ms) : IsAttached(ms[i])}
            x == FirstAttached(ms)
<1>1. x = IF I # {} THEN Min(I) ELSE 0
  BY DEF FirstAttached, SelectInSeq
<1>2. Len(ms) \in Nat /\ I \subseteq Nat
  OBVIOUS
<1>3. I # {} => Min(I) \in I
  <2>. HIDE DEF I
  <2>. QED BY <1>2, MinOf
<1>. HIDE DEF x
<1>4. CASE I = {}
  <2>1. x = 0
    BY <1>1, <1>4
  <2>. QED BY <1>2, <1>4, <2>1 DEF x
<1>5. CASE I # {}
  <2>1. x \in I
    BY <1>1, <1>3, <1>5
  <2>. QED BY <1>2, <2>1 DEF x
<1>. QED BY <1>4, <1>5

LEMMA TurnStartIs ==
  ASSUME NEW ms \in Seq(MessageType), NEW u \in 1 .. Len(ms)
  PROVE  /\ TurnStart(ms, u) \in 1 .. u
         /\ \A i \in TurnStart(ms, u) .. u - 1 : ms[i].kind \in ContextKinds \cup {"attached-context"}
<1>. DEFINE I == {i \in 1 .. u - 1 : ms[i].kind \notin ContextKinds \cup {"attached-context"}}
            x == TurnStart(ms, u)
<1>1. x = 1 + (IF I # {} THEN Max(I) ELSE 0)
  BY DEF TurnStart, SelectLastInSubSeq
<1>2. u - 1 \in Nat /\ I \subseteq 0 .. u - 1
  OBVIOUS
<1>3. I # {} => Max(I) \in I /\ \A y \in I : y <= Max(I)
  <2>. HIDE DEF I
  <2>. QED BY <1>2, MaxOf
<1>. HIDE DEF x
<1>4. CASE I = {}
  <2>1. x = 1
    BY <1>1, <1>4
  <2>2. \A i \in 1 .. u - 1 : ms[i].kind \in ContextKinds \cup {"attached-context"}
    BY <1>4
  <2>. QED BY <1>2, <2>1, <2>2 DEF x
<1>5. CASE I # {}
  <2>. DEFINE y == Max(I)
  <2>. HIDE DEF y
  <2>1. y \in I /\ (\A z \in I : z <= y) /\ x = 1 + y
    BY <1>1, <1>3, <1>5 DEF y
  <2>2. x \in 1 .. u
    BY <1>2, <2>1
  <2>3. ASSUME NEW i \in x .. u - 1 PROVE ms[i].kind \in ContextKinds \cup {"attached-context"}
    <3>1. i \in 1 .. u - 1 /\ ~(i <= y)
      BY <1>2, <2>1, <2>2
    <3>. QED BY <2>1, <3>1
  <2>. QED BY <2>2, <2>3 DEF x
<1>. QED BY <1>4, <1>5
----------
(* How conversations change. *)

LEMMA PartKept ==
  ASSUME NEW ms \in Seq(MessageType), NEW ns \in Seq(MessageType), NEW h, PartOf(ms, ns, h),
         NEW n, BodyOK(ms, n)
  PROVE  /\ BodyOK(ns, n)
         /\ KeysIn(ns) \subseteq KeysIn(ms)
         /\ \A C : Apart(ms, C) => Apart(ns, C)
<1>1. /\ Len(ns) \in Nat /\ Len(ms) \in Nat
      /\ \A k \in 1 .. Len(ns) : h[k] \in 1 .. Len(ms) /\ ns[k] = ms[h[k]]
      /\ \A j, k \in 1 .. Len(ns) : j < k => h[j] < h[k]
  BY DEF PartOf
<1>2. ASSUME NEW j \in 1 .. Len(ns), NEW k \in 1 .. Len(ns), h[j] = h[k] PROVE j = k
  <2>1. ~(j < k) /\ ~(k < j)
    BY <1>1, <1>2
  <2>. QED BY <1>1, <2>1
<1>3. BodyOK(ns, n)
  <2>1. ASSUME NEW j \in 1 .. Len(ns)
        PROVE  /\ ns[j].kind \notin ContextKinds => ns[j].keys = {}
               /\ ns[j].kind = "user" => ns[j].id <= n
    BY <1>1 DEF BodyOK
  <2>2. ASSUME NEW j \in 1 .. Len(ns), NEW k \in 1 .. Len(ns),
               ns[j].kind = "user", ns[k].kind = "user", ns[j].id = ns[k].id
        PROVE  j = k
    <3>1. h[j] = h[k]
      BY <1>1, <2>2 DEF BodyOK
    <3>. QED BY <1>2, <3>1
  <2>. QED BY <2>1, <2>2 DEF BodyOK
<1>4. KeysIn(ns) \subseteq KeysIn(ms)
  BY <1>1, KeysInIs
<1>5. ASSUME NEW C, Apart(ms, C) PROVE Apart(ns, C)
  BY <1>1, <1>2, <1>5 DEF Apart
<1>. QED BY <1>3, <1>4, <1>5

LEMMA InsertIs ==
  ASSUME NEW S, NEW ms \in Seq(S), NEW i \in 1 .. Len(ms), NEW e \in S
  PROVE  /\ InsertAt(ms, i, e) \in Seq(S)
         /\ Len(InsertAt(ms, i, e)) = Len(ms) + 1
         /\ \A j \in 1 .. Len(ms) + 1 :
               InsertAt(ms, i, e)[j] = IF j < i THEN ms[j] ELSE IF j = i THEN e ELSE ms[j - 1]
<1>. DEFINE a == SubSeq(ms, 1, i - 1)
            b == SubSeq(ms, i, Len(ms))
<1>0. Len(ms) \in Nat /\ i \in Nat /\ i >= 1 /\ i <= Len(ms)
  OBVIOUS
<1>1. a \in Seq(S) /\ Len(a) = i - 1 /\ \A j \in 1 .. i - 1 : a[j] = ms[j]
  BY <1>0, SubSeqProperties
<1>2. b \in Seq(S) /\ Len(b) = Len(ms) - i + 1 /\ \A j \in 1 .. Len(ms) - i + 1 : b[j] = ms[i + j - 1]
  BY <1>0, SubSeqProperties
<1>. HIDE DEF a, b
<1>3. <<e>> \in Seq(S) /\ Len(<<e>>) = 1 /\ <<e>>[1] = e
  OBVIOUS
<1>. DEFINE c == a \o <<e>>
<1>4. /\ c \in Seq(S) /\ Len(c) = i
      /\ \A j \in 1 .. i : c[j] = IF j < i THEN ms[j] ELSE e
  <2>1. /\ c \in Seq(S) /\ Len(c) = Len(a) + 1
        /\ \A j \in 1 .. Len(a) + 1 : c[j] = IF j <= Len(a) THEN a[j] ELSE <<e>>[j - Len(a)]
    BY <1>1, <1>3, ConcatProperties
  <2>2. ASSUME NEW j \in 1 .. i PROVE c[j] = IF j < i THEN ms[j] ELSE e
    <3>1. CASE j < i
      <4>1. j \in 1 .. i - 1 /\ j <= Len(a) /\ j \in 1 .. Len(a) + 1
        BY <1>0, <1>1, <3>1
      <4>. QED BY <1>1, <2>1, <3>1, <4>1
    <3>2. CASE j = i
      <4>1. j - Len(a) = 1 /\ ~(j <= Len(a)) /\ j \in 1 .. Len(a) + 1
        BY <1>0, <1>1, <3>2
      <4>. QED BY <1>3, <2>1, <3>2, <4>1
    <3>3. j < i \/ j = i
      BY <1>0
    <3>. QED BY <3>1, <3>2, <3>3
  <2>3. Len(c) = i
    BY <1>0, <1>1, <2>1
  <2>. HIDE DEF c
  <2>. QED BY <2>1, <2>2, <2>3
<1>. HIDE DEF c
<1>5. InsertAt(ms, i, e) = c \o b
  BY DEF InsertAt, a, b, c
<1>5a. /\ c \o b \in Seq(S) /\ Len(c \o b) = Len(c) + Len(b)
       /\ \A j \in 1 .. Len(c) + Len(b) : (c \o b)[j] = IF j <= Len(c) THEN c[j] ELSE b[j - Len(c)]
  BY <1>2, <1>4, ConcatProperties
<1>6. /\ InsertAt(ms, i, e) \in Seq(S) /\ Len(InsertAt(ms, i, e)) = Len(c) + Len(b)
      /\ \A j \in 1 .. Len(c) + Len(b) :
            InsertAt(ms, i, e)[j] = IF j <= Len(c) THEN c[j] ELSE b[j - Len(c)]
  BY <1>5, <1>5a
<1>7. Len(c) + Len(b) = Len(ms) + 1
  BY <1>0, <1>2, <1>4
<1>8. ASSUME NEW j \in 1 .. Len(ms) + 1
      PROVE  InsertAt(ms, i, e)[j] = IF j < i THEN ms[j] ELSE IF j = i THEN e ELSE ms[j - 1]
  <2>1. InsertAt(ms, i, e)[j] = IF j <= i THEN c[j] ELSE b[j - i]
    BY <1>4, <1>6, <1>7
  <2>2. CASE j <= i
    <3>1. j \in 1 .. i
      BY <1>0, <2>2
    <3>. QED BY <1>0, <1>4, <2>1, <3>1
  <2>3. CASE ~(j <= i)
    <3>1. j - i \in 1 .. Len(ms) - i + 1 /\ i + (j - i) - 1 = j - 1
      BY <1>0, <2>3
    <3>2. b[j - i] = ms[j - 1]
      BY <1>2, <3>1
    <3>3. ~(j < i) /\ j # i
      BY <1>0, <2>3
    <3>. QED BY <2>1, <2>3, <3>2, <3>3
  <2>. QED BY <2>2, <2>3
<1>. QED BY <1>6, <1>7, <1>8

(* A context message put in before a question.                             *)
LEMMA InsertContext ==
  ASSUME NEW n, NEW ms, Shape(ms, n), NEW i \in 1 .. Len(ms), ms[i].kind = "user",
         NEW e \in MessageType, e.kind \in ContextKinds \cup {"attached-context"},
         e.kind \notin ContextKinds => e.keys = {}
  PROVE  LET ns == InsertAt(ms, i, e) IN
         /\ Shape(ns, n) /\ Len(ns) = Len(ms) + 1 /\ ns[Len(ns)] = ms[Len(ms)]
         /\ KeysIn(ns) = KeysIn(ms) \cup e.keys
         /\ AsksOf(ns) = AsksOf(ms) \cup {e}
         /\ i = Len(ms) => Before(ns) = Before(ms)
         /\ \A C : Apart(ms, C) /\ e.keys \cap KeysIn(ms) \cap C = {} => Apart(ns, C)
<1>. DEFINE ns == InsertAt(ms, i, e)
            l  == LastAssistant(ms)
<1>0. /\ ms \in Seq(MessageType) /\ BodyOK(ms, n) /\ Answered(ms) /\ Len(ms) \in Nat
      /\ ms # <<>> => ms[Len(ms)].kind \in {"user", "assistant"}
  BY DEF Shape
<1>1. /\ ns \in Seq(MessageType) /\ Len(ns) = Len(ms) + 1
      /\ \A j \in 1 .. Len(ms) + 1 : ns[j] = IF j < i THEN ms[j] ELSE IF j = i THEN e ELSE ms[j - 1]
  <2>1. ms \in Seq(MessageType) /\ i \in 1 .. Len(ms) /\ e \in MessageType
    BY <1>0
  <2>2. ns = InsertAt(ms, i, e)
    OBVIOUS
  <2>. HIDE DEF ns
  <2>3. /\ InsertAt(ms, i, e) \in Seq(MessageType) /\ Len(InsertAt(ms, i, e)) = Len(ms) + 1
        /\ \A j \in 1 .. Len(ms) + 1 :
              InsertAt(ms, i, e)[j] = IF j < i THEN ms[j] ELSE IF j = i THEN e ELSE ms[j - 1]
    BY <2>1, InsertIs
  <2>. QED BY <2>2, <2>3
<1>. HIDE DEF ns
<1>2. i \in Nat /\ i >= 1 /\ i <= Len(ms)
  BY <1>0
<1>3. ns[Len(ns)] = ms[Len(ms)]
  <2>1. Len(ms) + 1 \in 1 .. Len(ms) + 1 /\ ~(Len(ms) + 1 < i) /\ Len(ms) + 1 # i
    BY <1>0, <1>2
  <2>2. ns[Len(ms) + 1] = ms[Len(ms) + 1 - 1]
    BY <1>1, <2>1
  <2>3. Len(ms) + 1 - 1 = Len(ms)
    BY <1>0
  <2>. QED BY <1>1, <2>2, <2>3
<1>4. /\ \A j \in 1 .. Len(ms) : j < i => j \in 1 .. Len(ms) + 1 /\ ns[j] = ms[j]
      /\ i \in 1 .. Len(ms) + 1 /\ ns[i] = e
      /\ \A j \in 1 .. Len(ms) : j >= i => j + 1 \in 1 .. Len(ms) + 1 /\ ns[j + 1] = ms[j]
  BY <1>0, <1>1, <1>2
<1>5. \A j \in 1 .. Len(ms) + 1 :
         \/ j = i
         \/ j < i /\ j \in 1 .. Len(ms)
         \/ j > i /\ j - 1 \in 1 .. Len(ms) /\ j - 1 >= i
  BY <1>0, <1>2
<1>6. \A j \in 1 .. Len(ms) + 1 : j # i => \E k \in 1 .. Len(ms) : ns[j] = ms[k]
  BY <1>1, <1>5
<1>7. \A k \in 1 .. Len(ms) : \E j \in 1 .. Len(ms) + 1 : j # i /\ ns[j] = ms[k]
  <2>. TAKE k \in 1 .. Len(ms)
  <2>1. CASE k < i
    BY <1>0, <1>2, <1>4, <2>1
  <2>2. CASE k >= i
    <3>1. k + 1 # i
      BY <1>0, <1>2, <2>2
    <3>. QED BY <1>4, <2>2, <3>1
  <2>. QED BY <1>0, <1>2, <2>1, <2>2

(* The index in ms of an element of ns other than the new one.             *)
<1>. DEFINE g(j) == IF j < i THEN j ELSE j - 1
<1>8. \A j \in 1 .. Len(ms) + 1 : j # i => g(j) \in 1 .. Len(ms) /\ ns[j] = ms[g(j)]
  BY <1>1, <1>5
<1>9. \A j, k \in 1 .. Len(ms) + 1 : j # i /\ k # i /\ g(j) = g(k) => j = k
  BY <1>0, <1>2
<1>. HIDE DEF g
<1>10. BodyOK(ns, n)
  <2>1. ns[i].kind # "user" /\ (ns[i].kind \notin ContextKinds => ns[i].keys = {})
    BY <1>4 DEF ContextKinds
  <2>2. ASSUME NEW j \in 1 .. Len(ns)
        PROVE  /\ ns[j].kind \notin ContextKinds => ns[j].keys = {}
               /\ ns[j].kind = "user" => ns[j].id <= n
    BY <1>0, <1>1, <1>6, <2>1 DEF BodyOK
  <2>3. ASSUME NEW j \in 1 .. Len(ns), NEW k \in 1 .. Len(ns),
               ns[j].kind = "user", ns[k].kind = "user", ns[j].id = ns[k].id
        PROVE  j = k
    <3>1. j # i /\ k # i
      BY <2>1, <2>3
    <3>2. /\ g(j) \in 1 .. Len(ms) /\ ns[j] = ms[g(j)]
          /\ g(k) \in 1 .. Len(ms) /\ ns[k] = ms[g(k)]
      BY <1>1, <1>8, <3>1
    <3>3. g(j) = g(k)
      BY <1>0, <2>3, <3>2 DEF BodyOK
    <3>. QED BY <1>1, <1>9, <3>1, <3>3
  <2>. QED BY <2>2, <2>3 DEF BodyOK
<1>11. Answered(ns)
  <2>. SUFFICES ASSUME NEW j \in 1 .. Len(ns), ns[j].kind = "assistant"
                PROVE  j > 1 /\ ns[j - 1] = Message("user", ns[j].id, {})
    BY DEF Answered
  <2>1. j # i
    BY <1>4 DEF ContextKinds
  <2>2. CASE j < i
    <3>1. j \in 1 .. Len(ms) /\ ns[j] = ms[j]
      BY <1>1, <1>4, <1>5, <2>1, <2>2
    <3>2. j > 1 /\ ms[j - 1] = Message("user", ms[j].id, {})
      BY <1>0, <3>1 DEF Answered
    <3>3. j - 1 \in 1 .. Len(ms) /\ j - 1 < i
      BY <1>0, <1>2, <2>2, <3>1, <3>2
    <3>. QED BY <1>4, <3>1, <3>2, <3>3
  <2>3. CASE j > i
    <3>1. j - 1 \in 1 .. Len(ms) /\ j - 1 >= i /\ ns[j] = ms[j - 1]
      BY <1>0, <1>1, <1>2, <2>3
    <3>2. j - 1 > 1 /\ ms[j - 1 - 1] = Message("user", ms[j - 1].id, {})
      BY <1>0, <3>1 DEF Answered
    <3>3. j - 1 # i
      BY <3>1, <2>3, <2>1, <1>2
    <3>4. j - 2 \in 1 .. Len(ms) /\ j - 2 >= i /\ (j - 2) + 1 = j - 1 /\ j - 1 - 1 = j - 2
      BY <1>0, <1>2, <3>1, <3>2, <3>3
    <3>5. ns[j - 1] = ms[j - 2]
      BY <1>4, <3>4
    <3>6. j > 1
      BY <1>2, <2>3
    <3>. QED BY <3>1, <3>2, <3>4, <3>5, <3>6
  <2>. QED BY <1>1, <1>2, <2>1, <2>2, <2>3
<1>12. Shape(ns, n)
  <2>1. ms # <<>>
    BY <1>0, <1>2
  <2>. QED BY <1>0, <1>1, <1>3, <1>10, <1>11, <2>1 DEF Shape
<1>13. KeysIn(ns) = KeysIn(ms) \cup e.keys
  <2>1. ASSUME NEW k PROVE k \in KeysIn(ns) <=> k \in KeysIn(ms) \/ k \in e.keys
    <3>1. k \in KeysIn(ns) <=> \E j \in 1 .. Len(ms) + 1 : k \in ns[j].keys
      BY <1>1, KeysInIs
    <3>2. k \in KeysIn(ms) <=> \E j \in 1 .. Len(ms) : k \in ms[j].keys
      BY <1>0, KeysInIs
    <3>. QED BY <1>4, <1>6, <1>7, <3>1, <3>2
  <2>. QED BY <2>1
<1>14. AsksOf(ns) = AsksOf(ms) \cup {e}
  <2>1. ASSUME NEW m PROVE m \in AsksOf(ns) <=> m \in AsksOf(ms) \/ m = e
    <3>1. m \in AsksOf(ns) <=> \E j \in 1 .. Len(ms) + 1 : m = ns[j] /\ m.kind # "assistant"
      BY <1>1, AsksOfIs
    <3>2. m \in AsksOf(ms) <=> \E j \in 1 .. Len(ms) : m = ms[j] /\ m.kind # "assistant"
      BY <1>0, AsksOfIs
    <3>3. e.kind # "assistant"
      BY DEF ContextKinds
    <3>. QED BY <1>4, <1>6, <1>7, <3>1, <3>2, <3>3
  <2>. QED BY <2>1
<1>15. ASSUME i = Len(ms) PROVE Before(ns) = Before(ms)
  <2>1. /\ l \in 0 .. Len(ms) /\ (l # 0 => ms[l].kind = "assistant")
        /\ \A j \in 1 .. Len(ms) : ms[j].kind = "assistant" => j <= l
    BY <1>0, LastAssistantIs
  <2>. HIDE DEF l
  <2>2. l # i
    BY <2>1, <1>2
  <2>3. \A j \in 1 .. l : j \in 1 .. Len(ms) /\ j < i /\ ns[j] = ms[j]
    BY <1>0, <1>2, <1>4, <1>15, <2>1, <2>2
  <2>4. l \in 0 .. Len(ns)
    BY <1>0, <1>1, <2>1
  <2>5. l # 0 => ns[l].kind = "assistant"
    BY <2>1, <2>3
  <2>6. ASSUME NEW j \in 1 .. Len(ns), ns[j].kind = "assistant" PROVE j <= l
    <3>1. j # i
      BY <1>4, <2>6 DEF ContextKinds
    <3>2. j # Len(ms) + 1
      BY <1>0, <1>1, <1>2, <1>3, <1>15, <2>6
    <3>3. j \in 1 .. Len(ms) /\ j < i
      BY <1>0, <1>1, <1>15, <3>1, <3>2
    <3>. QED BY <1>4, <2>1, <2>6, <3>3
  <2>7. LastAssistant(ns) = l
    BY <1>1, <2>4, <2>5, <2>6, IsLastAssistant
  <2>8. ASSUME NEW m PROVE m \in Before(ns) <=> m \in Before(ms)
    <3>1. m \in Before(ns) <=> \E j \in 1 .. l : m = ns[j] /\ m.kind # "assistant"
      BY <1>1, <2>7, BeforeIs
    <3>2. m \in Before(ms) <=> \E j \in 1 .. l : m = ms[j] /\ m.kind # "assistant"
      BY <1>0, BeforeIs DEF l
    <3>. QED BY <2>3, <3>1, <3>2
  <2>. QED BY <2>8, <1>0, <1>1 DEF Before, AsksOf
<1>16. ASSUME NEW C, Apart(ms, C), e.keys \cap KeysIn(ms) \cap C = {} PROVE Apart(ns, C)
  <2>. SUFFICES ASSUME NEW j \in 1 .. Len(ns), NEW k \in 1 .. Len(ns),
                       ns[j].keys \cap ns[k].keys \cap C # {}
                PROVE  j = k
    BY DEF Apart
  <2>0. \A x \in 1 .. Len(ms) : ms[x].keys \subseteq KeysIn(ms)
    BY <1>0, KeysInIs
  <2>1. CASE j = i /\ k # i
    <3>1. g(k) \in 1 .. Len(ms) /\ ns[k] = ms[g(k)] /\ ns[j] = e
      BY <1>1, <1>4, <1>8, <2>1
    <3>2. ns[k].keys \subseteq KeysIn(ms)
      BY <2>0, <3>1
    <3>. QED BY <1>16, <3>1, <3>2
  <2>2. CASE j # i /\ k = i
    <3>1. g(j) \in 1 .. Len(ms) /\ ns[j] = ms[g(j)] /\ ns[k] = e
      BY <1>1, <1>4, <1>8, <2>2
    <3>2. ns[j].keys \subseteq KeysIn(ms)
      BY <2>0, <3>1
    <3>. QED BY <1>16, <3>1, <3>2
  <2>3. CASE j # i /\ k # i
    <3>1. /\ g(j) \in 1 .. Len(ms) /\ ns[j] = ms[g(j)]
          /\ g(k) \in 1 .. Len(ms) /\ ns[k] = ms[g(k)]
      BY <1>1, <1>8, <2>3
    <3>2. g(j) = g(k)
      BY <1>16, <3>1 DEF Apart
    <3>. QED BY <1>1, <1>9, <2>3, <3>2
  <2>. QED BY <2>1, <2>2, <2>3
<1>. QED BY <1>1, <1>3, <1>12, <1>13, <1>14, <1>15, <1>16 DEF ns

(* A question asked at the end; what went before need not be complete.     *)
LEMMA AskedAtEnd ==
  ASSUME NEW n \in Nat, NEW ms \in Seq(MessageType), BodyOK(ms, n), Answered(ms),
         NEW s \in 1 .. MaxSends, n < s
  PROVE  LET e == Message("user", s, {})
             ns == Append(ms, e) IN
         /\ Shape(ns, s) /\ Len(ns) = Len(ms) + 1 /\ ns # <<>> /\ ns[Len(ns)] = e
         /\ KeysIn(ns) = KeysIn(ms)
         /\ Before(ns) = Before(ms)
         /\ \A i \in 1 .. Len(ns) : ns[i] # e => i \in 1 .. Len(ms) /\ ns[i] = ms[i]
         /\ \A C : Apart(ms, C) => Apart(ns, C)
<1>. DEFINE e  == Message("user", s, {})
            ns == Append(ms, e)
            l  == LastAssistant(ms)
<1>0. /\ MaxSends \in Nat /\ MaxContexts \in Nat
      /\ s \in 0 .. MaxSends + MaxContexts /\ s \in Nat /\ Len(ms) \in Nat
  <2>1. MaxSends \in Nat /\ MaxContexts \in Nat
    BY ChatAssumption
  <2>2. Len(ms) \in Nat
    OBVIOUS
  <2>3. s \in Nat /\ s <= MaxSends
    BY <2>1
  <2>. QED BY <2>1, <2>2, <2>3
<1>1. e \in MessageType /\ e.kind = "user" /\ e.id = s /\ e.keys = {}
  <2>1. "user" \in {"user", "assistant", "attached-context"} \cup ContextKinds /\ {} \in SUBSET Keys
    OBVIOUS
  <2>. DEFINE x == "user"
              k == {}
  <2>. HIDE DEF x, k
  <2>2. x \in {"user", "assistant", "attached-context"} \cup ContextKinds /\ k \in SUBSET Keys
    BY <2>1 DEF x, k
  <2>5. s \in 0 .. MaxSends + MaxContexts
    BY <1>0
  <2>3. /\ Message(x, s, k) \in MessageType /\ Message(x, s, k).kind = x
        /\ Message(x, s, k).id = s /\ Message(x, s, k).keys = k
    <3>. HIDE DEF e, ns, l
    <3>. QED BY <2>2, <2>5, MessageOK
  <2>4. e = Message(x, s, k) /\ x = "user" /\ k = {}
    BY DEF x, k
  <2>. HIDE DEF e
  <2>. QED BY <2>3, <2>4
<1>. HIDE DEF e
<1>2. /\ ns \in Seq(MessageType) /\ Len(ns) = Len(ms) + 1 /\ ns[Len(ms) + 1] = e
      /\ \A i \in 1 .. Len(ms) : ns[i] = ms[i]
  BY <1>1, AppendProperties
<1>. HIDE DEF ns
<1>3. \A i \in 1 .. Len(ns) : i = Len(ms) + 1 \/ (i \in 1 .. Len(ms) /\ ns[i] = ms[i])
  BY <1>0, <1>2
<1>4. ASSUME NEW i \in 1 .. Len(ms), ms[i].kind = "user" PROVE ms[i].id # s
  <2>1. ms[i].id <= n
    BY <1>4 DEF BodyOK
  <2>2. ms[i].id \in 0 .. MaxSends + MaxContexts
    BY IsMessage
  <2>. QED BY <1>0, <2>1, <2>2
<1>5. BodyOK(ns, s)
  <2>1. ASSUME NEW j \in 1 .. Len(ns) PROVE ns[j].kind \notin ContextKinds => ns[j].keys = {}
    BY <1>1, <1>2, <1>3 DEF BodyOK
  <2>2. ASSUME NEW j \in 1 .. Len(ns), ns[j].kind = "user" PROVE ns[j].id <= s
    <3>1. CASE j = Len(ms) + 1
      BY <1>0, <1>1, <1>2, <3>1
    <3>2. CASE j \in 1 .. Len(ms) /\ ns[j] = ms[j]
      <4>1. ms[j].id <= n /\ ms[j].id \in 0 .. MaxSends + MaxContexts
        BY <2>2, <3>2, IsMessage DEF BodyOK
      <4>. QED BY <1>0, <3>2, <4>1
    <3>. QED BY <1>3, <3>1, <3>2
  <2>3. ASSUME NEW j \in 1 .. Len(ns), NEW k \in 1 .. Len(ns),
               ns[j].kind = "user", ns[k].kind = "user", ns[j].id = ns[k].id
        PROVE  j = k
    <3>1. CASE j \in 1 .. Len(ms) /\ ns[j] = ms[j] /\ k \in 1 .. Len(ms) /\ ns[k] = ms[k]
      BY <2>3, <3>1 DEF BodyOK
    <3>. QED BY <1>1, <1>2, <1>3, <1>4, <2>3, <3>1
  <2>. QED BY <2>1, <2>2, <2>3 DEF BodyOK
<1>6. Answered(ns)
  <2>. SUFFICES ASSUME NEW j \in 1 .. Len(ns), ns[j].kind = "assistant"
                PROVE  j > 1 /\ ns[j - 1] = Message("user", ns[j].id, {})
    BY DEF Answered
  <2>1. j \in 1 .. Len(ms) /\ ns[j] = ms[j]
    BY <1>1, <1>2, <1>3
  <2>2. j > 1 /\ ms[j - 1] = Message("user", ms[j].id, {})
    BY <2>1 DEF Answered
  <2>3. j - 1 \in 1 .. Len(ms)
    BY <1>0, <2>1, <2>2
  <2>. QED BY <1>2, <2>1, <2>2, <2>3
<1>7. ns # <<>> /\ ns[Len(ns)] = e
  BY <1>0, <1>2
<1>8. Shape(ns, s)
  BY <1>1, <1>2, <1>5, <1>6, <1>7 DEF Shape
<1>9. Len(ms) + 1 \in 1 .. Len(ns) /\ \A i \in 1 .. Len(ms) : i \in 1 .. Len(ns)
  BY <1>0, <1>2
<1>10. KeysIn(ns) = KeysIn(ms)
  <2>1. ASSUME NEW k PROVE k \in KeysIn(ns) <=> k \in KeysIn(ms)
    <3>1. k \in KeysIn(ns) <=> \E j \in 1 .. Len(ns) : k \in ns[j].keys
      BY <1>2, KeysInIs
    <3>2. k \in KeysIn(ms) <=> \E j \in 1 .. Len(ms) : k \in ms[j].keys
      BY KeysInIs
    <3>. QED BY <1>1, <1>2, <1>3, <1>9, <3>1, <3>2
  <2>. QED BY <2>1
<1>11. Before(ns) = Before(ms)
  <2>1. /\ l \in 0 .. Len(ms) /\ (l # 0 => ms[l].kind = "assistant")
        /\ \A j \in 1 .. Len(ms) : ms[j].kind = "assistant" => j <= l
    BY LastAssistantIs
  <2>. HIDE DEF l
  <2>2. l \in 0 .. Len(ns) /\ \A j \in 1 .. l : j \in 1 .. Len(ms) /\ ns[j] = ms[j]
    BY <1>0, <1>2, <2>1
  <2>3. l # 0 => ns[l].kind = "assistant"
    BY <2>1, <2>2
  <2>4. ASSUME NEW j \in 1 .. Len(ns), ns[j].kind = "assistant" PROVE j <= l
    BY <1>1, <1>2, <1>3, <2>1, <2>4
  <2>5. LastAssistant(ns) = l
    BY <1>2, <2>2, <2>3, <2>4, IsLastAssistant
  <2>6. ASSUME NEW m PROVE m \in Before(ns) <=> m \in Before(ms)
    <3>1. m \in Before(ns) <=> \E j \in 1 .. l : m = ns[j] /\ m.kind # "assistant"
      BY <1>2, <2>5, BeforeIs
    <3>2. m \in Before(ms) <=> \E j \in 1 .. l : m = ms[j] /\ m.kind # "assistant"
      BY BeforeIs DEF l
    <3>. QED BY <2>2, <3>1, <3>2
  <2>. QED BY <2>6 DEF Before, AsksOf
<1>12. ASSUME NEW C, Apart(ms, C) PROVE Apart(ns, C)
  <2>1. ASSUME NEW j \in 1 .. Len(ns), NEW k \in 1 .. Len(ns), ns[j].keys \cap ns[k].keys \cap C # {}
        PROVE  j = k
    BY <1>1, <1>2, <1>3, <1>12, <2>1 DEF Apart
  <2>. QED BY <2>1 DEF Apart
<1>13. \A i \in 1 .. Len(ns) : ns[i] # e => i \in 1 .. Len(ms) /\ ns[i] = ms[i]
  BY <1>2, <1>3
<1>. QED BY <1>2, <1>7, <1>8, <1>10, <1>11, <1>12, <1>13 DEF e, ns

(* An answer begins behind its question.                                   *)
LEMMA AnswerBegins ==
  ASSUME NEW n, NEW ms, Shape(ms, n), NEW s \in 1 .. MaxSends,
         ms # <<>>, ms[Len(ms)].kind = "user", ms[Len(ms)].id = s
  PROVE  LET ns == Append(ms, Message("assistant", s, {})) IN
         /\ Shape(ns, n) /\ ns # <<>> /\ ns[Len(ns)] = Message("assistant", s, {})
         /\ ns[Len(ns)].kind = "assistant" /\ ns[Len(ns)].id = s
         /\ KeysIn(ns) = KeysIn(ms) /\ AsksOf(ns) = AsksOf(ms)
         /\ \A i \in 1 .. Len(ns) : IsAttached(ns[i]) => i \in 1 .. Len(ms) /\ ns[i] = ms[i]
         /\ \A C : Apart(ms, C) => Apart(ns, C)
<1>. DEFINE e  == Message("assistant", s, {})
            ns == Append(ms, e)
<1>0. /\ ms \in Seq(MessageType) /\ BodyOK(ms, n) /\ Answered(ms) /\ Len(ms) \in Nat
      /\ Len(ms) \in 1 .. Len(ms)
      /\ s \in 0 .. MaxSends + MaxContexts
  <2>1. MaxSends \in Nat /\ MaxContexts \in Nat
    BY ChatAssumption
  <2>2. ms \in Seq(MessageType) /\ BodyOK(ms, n) /\ Answered(ms)
    BY DEF Shape
  <2>. QED BY <2>1, <2>2
<1>1. e \in MessageType /\ e.kind = "assistant" /\ e.id = s /\ e.keys = {}
  BY <1>0, MessageOK
<1>2. /\ ns \in Seq(MessageType) /\ Len(ns) = Len(ms) + 1 /\ ns[Len(ms) + 1] = e
      /\ \A i \in 1 .. Len(ms) : ns[i] = ms[i]
  <2>. HIDE DEF e
  <2>. QED BY <1>0, <1>1, AppendProperties
<1>3. ms[Len(ms)] = Message("user", s, {})
  <2>1. ms[Len(ms)].keys = {} /\ ms[Len(ms)] \in MessageType
    BY <1>0, IsMessage DEF BodyOK, ContextKinds
  <2>. QED BY <2>1 DEF MessageType, Message
<1>. HIDE DEF ns, e
<1>4. \A i \in 1 .. Len(ns) : i = Len(ms) + 1 \/ (i \in 1 .. Len(ms) /\ ns[i] = ms[i])
  BY <1>0, <1>2
<1>5. Len(ms) + 1 \in 1 .. Len(ns) /\ \A i \in 1 .. Len(ms) : i \in 1 .. Len(ns)
  BY <1>0, <1>2
<1>6. BodyOK(ns, n)
  <2>1. ASSUME NEW j \in 1 .. Len(ns)
        PROVE  /\ ns[j].kind \notin ContextKinds => ns[j].keys = {}
               /\ ns[j].kind = "user" => ns[j].id <= n
    BY <1>0, <1>1, <1>2, <1>4 DEF BodyOK
  <2>2. ASSUME NEW j \in 1 .. Len(ns), NEW k \in 1 .. Len(ns),
               ns[j].kind = "user", ns[k].kind = "user", ns[j].id = ns[k].id
        PROVE  j = k
    <3>1. j \in 1 .. Len(ms) /\ ns[j] = ms[j] /\ k \in 1 .. Len(ms) /\ ns[k] = ms[k]
      BY <1>1, <1>2, <1>4, <2>2
    <3>. QED BY <1>0, <2>2, <3>1 DEF BodyOK
  <2>. QED BY <2>1, <2>2 DEF BodyOK
<1>7. Answered(ns)
  <2>. SUFFICES ASSUME NEW j \in 1 .. Len(ns), ns[j].kind = "assistant"
                PROVE  j > 1 /\ ns[j - 1] = Message("user", ns[j].id, {})
    BY DEF Answered
  <2>1. CASE j = Len(ms) + 1
    <3>1. j > 1 /\ j - 1 = Len(ms) /\ ns[j - 1] = ms[Len(ms)] /\ ns[j].id = s
      BY <1>0, <1>1, <1>2, <2>1
    <3>. QED BY <1>3, <3>1
  <2>2. CASE j \in 1 .. Len(ms) /\ ns[j] = ms[j]
    <3>1. j > 1 /\ ms[j - 1] = Message("user", ms[j].id, {})
      BY <1>0, <2>2 DEF Answered
    <3>2. j - 1 \in 1 .. Len(ms)
      BY <1>0, <2>2, <3>1
    <3>. QED BY <1>2, <2>2, <3>1, <3>2
  <2>. QED BY <1>4, <2>1, <2>2
<1>8. ns # <<>> /\ ns[Len(ns)] = e
  BY <1>0, <1>2
<1>9. Shape(ns, n)
  BY <1>1, <1>2, <1>6, <1>7, <1>8 DEF Shape
<1>10. KeysIn(ns) = KeysIn(ms)
  <2>1. ASSUME NEW k PROVE k \in KeysIn(ns) <=> k \in KeysIn(ms)
    <3>1. k \in KeysIn(ns) <=> \E j \in 1 .. Len(ns) : k \in ns[j].keys
      BY <1>2, KeysInIs
    <3>2. k \in KeysIn(ms) <=> \E j \in 1 .. Len(ms) : k \in ms[j].keys
      BY <1>0, KeysInIs
    <3>. QED BY <1>1, <1>2, <1>4, <1>5, <3>1, <3>2
  <2>. QED BY <2>1
<1>11. AsksOf(ns) = AsksOf(ms)
  <2>1. ASSUME NEW m PROVE m \in AsksOf(ns) <=> m \in AsksOf(ms)
    <3>1. m \in AsksOf(ns) <=> \E j \in 1 .. Len(ns) : m = ns[j] /\ m.kind # "assistant"
      BY <1>2, AsksOfIs
    <3>2. m \in AsksOf(ms) <=> \E j \in 1 .. Len(ms) : m = ms[j] /\ m.kind # "assistant"
      BY <1>0, AsksOfIs
    <3>. QED BY <1>1, <1>2, <1>4, <1>5, <3>1, <3>2
  <2>. QED BY <2>1
<1>12. ASSUME NEW C, Apart(ms, C) PROVE Apart(ns, C)
  <2>1. ASSUME NEW j \in 1 .. Len(ns), NEW k \in 1 .. Len(ns), ns[j].keys \cap ns[k].keys \cap C # {}
        PROVE  j = k
    BY <1>1, <1>2, <1>4, <1>12, <2>1 DEF Apart
  <2>. QED BY <2>1 DEF Apart
<1>13. \A i \in 1 .. Len(ns) : IsAttached(ns[i]) => i \in 1 .. Len(ms) /\ ns[i] = ms[i]
  BY <1>1, <1>2, <1>4 DEF IsAttached
<1>. QED BY <1>1, <1>8, <1>9, <1>10, <1>11, <1>12, <1>13 DEF e, ns

(* All of a conversation that ends with an answer comes before it.         *)
LEMMA BeforeTheEnd ==
  ASSUME NEW ms \in Seq(MessageType), ms # <<>>, ms[Len(ms)].kind = "assistant"
  PROVE  Before(ms) = AsksOf(ms)
<1>1. Len(ms) \in 1 .. Len(ms) /\ Len(ms) \in 0 .. Len(ms)
  OBVIOUS
<1>2. LastAssistant(ms) = Len(ms)
  BY <1>1, IsLastAssistant
<1>3. ASSUME NEW m PROVE m \in Before(ms) <=> m \in AsksOf(ms)
  <2>1. m \in Before(ms) <=> \E j \in 1 .. Len(ms) : m = ms[j] /\ m.kind # "assistant"
    BY <1>2, BeforeIs
  <2>2. m \in AsksOf(ms) <=> \E j \in 1 .. Len(ms) : m = ms[j] /\ m.kind # "assistant"
    BY AsksOfIs
  <2>. QED BY <2>1, <2>2
<1>. QED BY <1>3 DEF Before, AsksOf

(* With a chain, what it stands for and what follows it is all there is.   *)
LEMMA BeforeAndAfter ==
  ASSUME NEW ms \in Seq(MessageType)
  PROVE  AsksOf(ms) = Before(ms) \cup AsksOf(SubSeq(ms, LastAssistant(ms) + 1, Len(ms)))
<1>. DEFINE l == LastAssistant(ms)
            a == SubSeq(ms, l + 1, Len(ms))
<1>1. l \in 0 .. Len(ms) /\ Len(ms) \in Nat
  BY LastAssistantIs
<1>2. \A m : m \in Before(ms) <=> \E j \in 1 .. l : m = ms[j] /\ m.kind # "assistant"
  BY BeforeIs
<1>3. \A m : m \in AsksOf(a) <=> \E j \in l + 1 .. Len(ms) : m = ms[j] /\ m.kind # "assistant"
  BY AfterIs
<1>4. \A m : m \in AsksOf(ms) <=> \E j \in 1 .. Len(ms) : m = ms[j] /\ m.kind # "assistant"
  BY AsksOfIs
<1>. HIDE DEF l, a
<1>5. \A j : j \in 1 .. Len(ms) <=> j \in 1 .. l \/ j \in l + 1 .. Len(ms)
  BY <1>1
<1>6. ASSUME NEW m PROVE m \in AsksOf(ms) <=> m \in Before(ms) \/ m \in AsksOf(a)
  BY <1>2, <1>3, <1>4, <1>5
<1>. QED BY <1>6 DEF l, a
----------
(* What the panel's operations leave of a conversation. *)

LEMMA AttachedIs ==
  ASSUME NEW m \in MessageType
  PROVE  m \in Attachments <=> IsAttached(m)
  BY DEF Attachments

(* Without its attached statements, a conversation is one still.           *)
LEMMA Removed ==
  ASSUME NEW n, NEW ms, Shape(ms, n)
  PROVE  LET ns == RemovePromptOnly(ms) IN
         /\ Shape(ns, n)
         /\ ms = <<>> => ns = <<>>
         /\ ms # <<>> => ns # <<>> /\ ns[Len(ns)] = ms[Len(ms)]
         /\ KeysIn(ns) = KeysIn(ms)
         /\ \A m : m \in AsksOf(ns) <=> m \in AsksOf(ms) /\ ~IsAttached(m)
         /\ \A m : m \in Before(ns) <=> m \in Before(ms) /\ ~IsAttached(m)
         /\ \A C : Apart(ms, C) => Apart(ns, C)
<1>. DEFINE ns == RemovePromptOnly(ms)
            l  == LastAssistant(ms)
<1>0. /\ ms \in Seq(MessageType) /\ BodyOK(ms, n) /\ Answered(ms) /\ Len(ms) \in Nat
      /\ ms # <<>> => ms[Len(ms)].kind \in {"user", "assistant"}
  BY DEF Shape
<1>1. /\ ns \in Seq(MessageType)
      /\ \E h : /\ PartOf(ms, ns, h)
                /\ \A k \in 1 .. Len(ns) : ns[k] \in MessageType \ Attachments
                /\ \A i \in 1 .. Len(ms) : ms[i] \in MessageType \ Attachments =>
                     \E k \in 1 .. Len(ns) : h[k] = i
  <2>. DEFINE P == MessageType \ Attachments
  <2>1. ns = Filter(ms, P)
    BY DEF RemovePromptOnly
  <2>. HIDE DEF P, ns
  <2>2. /\ Filter(ms, P) \in Seq(MessageType)
        /\ \E h : /\ PartOf(ms, Filter(ms, P), h)
                  /\ \A k \in 1 .. Len(Filter(ms, P)) : Filter(ms, P)[k] \in P
                  /\ \A i \in 1 .. Len(ms) : ms[i] \in P =>
                       \E k \in 1 .. Len(Filter(ms, P)) : h[k] = i
    BY <1>0, FilterPart
  <2>. QED BY <2>1, <2>2 DEF P
<1>. HIDE DEF ns
<1>2. PICK h : /\ PartOf(ms, ns, h)
               /\ \A k \in 1 .. Len(ns) : ns[k] \in MessageType \ Attachments
               /\ \A i \in 1 .. Len(ms) : ms[i] \in MessageType \ Attachments =>
                    \E k \in 1 .. Len(ns) : h[k] = i
  BY <1>1
<1>3. /\ Len(ns) \in Nat
      /\ \A k \in 1 .. Len(ns) : h[k] \in 1 .. Len(ms) /\ ns[k] = ms[h[k]]
      /\ \A j, k \in 1 .. Len(ns) : j < k => h[j] < h[k]
      /\ \A k \in 1 .. Len(ns) : ~IsAttached(ns[k])
      /\ \A i \in 1 .. Len(ms) : ~IsAttached(ms[i]) => \E k \in 1 .. Len(ns) : h[k] = i
  <2>1. \A k \in 1 .. Len(ns) : ~IsAttached(ns[k])
    BY <1>2, AttachedIs
  <2>2. \A i \in 1 .. Len(ms) : ~IsAttached(ms[i]) => ms[i] \in MessageType \ Attachments
    BY <1>0, IsMessage, AttachedIs
  <2>3. Len(ns) \in Nat
    BY <1>1
  <2>4. /\ \A k \in 1 .. Len(ns) : h[k] \in 1 .. Len(ms) /\ ns[k] = ms[h[k]]
        /\ \A j, k \in 1 .. Len(ns) : j < k => h[j] < h[k]
    BY <1>2 DEF PartOf
  <2>5. \A i \in 1 .. Len(ms) : ~IsAttached(ms[i]) => \E k \in 1 .. Len(ns) : h[k] = i
    BY <1>2, <2>2
  <2>. QED BY <2>1, <2>3, <2>4, <2>5
<1>4. \A j, k \in 1 .. Len(ns) : h[j] <= h[k] => j <= k
  <2>. SUFFICES ASSUME NEW j \in 1 .. Len(ns), NEW k \in 1 .. Len(ns), h[j] <= h[k], ~(j <= k) PROVE FALSE
    OBVIOUS
  <2>1. k < j
    BY <1>3
  <2>2. h[k] < h[j] /\ h[k] \in 1 .. Len(ms) /\ h[j] \in 1 .. Len(ms)
    BY <1>3, <2>1
  <2>. QED BY <1>0, <2>2
<1>5. BodyOK(ns, n) /\ KeysIn(ns) \subseteq KeysIn(ms) /\ \A C : Apart(ms, C) => Apart(ns, C)
  BY <1>0, <1>1, <1>2, PartKept
<1>6. Answered(ns)
  <2>. SUFFICES ASSUME NEW j \in 1 .. Len(ns), ns[j].kind = "assistant"
                PROVE  j > 1 /\ ns[j - 1] = Message("user", ns[j].id, {})
    BY DEF Answered
  <2>1. h[j] \in 1 .. Len(ms) /\ ns[j] = ms[h[j]]
    BY <1>3
  <2>2. h[j] > 1 /\ ms[h[j] - 1] = Message("user", ms[h[j]].id, {})
    BY <1>0, <2>1 DEF Answered
  <2>3. h[j] - 1 \in 1 .. Len(ms) /\ ~IsAttached(ms[h[j] - 1])
    BY <1>0, <2>1, <2>2 DEF IsAttached, Message
  <2>4. PICK k \in 1 .. Len(ns) : h[k] = h[j] - 1
    BY <1>3, <2>3
  <2>5. k <= j /\ k # j
    BY <1>0, <1>4, <2>1, <2>4
  <2>6. j - 1 \in 1 .. Len(ns) /\ j > 1
    BY <1>3, <2>5
  <2>7. h[j - 1] < h[j] /\ h[j - 1] \in 1 .. Len(ms)
    BY <1>3, <2>6
  <2>8. h[j - 1] <= h[k]
    BY <1>0, <2>1, <2>4, <2>7
  <2>9. j - 1 = k
    BY <1>3, <1>4, <2>5, <2>6, <2>8
  <2>. QED BY <1>3, <2>1, <2>2, <2>4, <2>6, <2>9
<1>7. ms = <<>> => ns = <<>>
  <2>. SUFFICES ASSUME ms = <<>>, ns # <<>> PROVE FALSE
    OBVIOUS
  <2>1. 1 \in 1 .. Len(ns)
    BY <1>1
  <2>2. h[1] \in 1 .. 0
    BY <1>3, <2>1
  <2>. QED BY <2>2
<1>8. ms # <<>> => ns # <<>> /\ ns[Len(ns)] = ms[Len(ms)]
  <2>. SUFFICES ASSUME ms # <<>> PROVE ns # <<>> /\ ns[Len(ns)] = ms[Len(ms)]
    OBVIOUS
  <2>1. Len(ms) \in 1 .. Len(ms) /\ ~IsAttached(ms[Len(ms)])
    BY <1>0 DEF IsAttached
  <2>2. PICK k \in 1 .. Len(ns) : h[k] = Len(ms)
    BY <1>3, <2>1
  <2>3. Len(ns) \in 1 .. Len(ns) /\ ns # <<>>
    BY <1>1, <1>3
  <2>4. h[Len(ns)] <= h[k]
    BY <1>3, <2>2, <2>3
  <2>5. Len(ns) = k
    BY <1>3, <1>4, <2>3, <2>4
  <2>. QED BY <1>3, <2>2, <2>3, <2>5
<1>9. Shape(ns, n)
  BY <1>0, <1>1, <1>5, <1>6, <1>7, <1>8 DEF Shape
<1>10. KeysIn(ns) = KeysIn(ms)
  <2>. SUFFICES ASSUME NEW x \in KeysIn(ms) PROVE x \in KeysIn(ns)
    BY <1>5
  <2>1. PICK i \in 1 .. Len(ms) : x \in ms[i].keys
    BY <1>0, KeysInIs
  <2>2. ~IsAttached(ms[i])
    BY <1>0, <2>1 DEF BodyOK, ContextKinds, IsAttached
  <2>3. PICK k \in 1 .. Len(ns) : h[k] = i
    BY <1>3, <2>2
  <2>. QED BY <1>1, <1>3, <2>1, <2>3, KeysInIs
<1>11. ASSUME NEW m PROVE m \in AsksOf(ns) <=> m \in AsksOf(ms) /\ ~IsAttached(m)
  <2>1. m \in AsksOf(ns) <=> \E j \in 1 .. Len(ns) : m = ns[j] /\ m.kind # "assistant"
    BY <1>1, AsksOfIs
  <2>2. m \in AsksOf(ms) <=> \E j \in 1 .. Len(ms) : m = ms[j] /\ m.kind # "assistant"
    BY <1>0, AsksOfIs
  <2>3. ASSUME NEW j \in 1 .. Len(ms), m = ms[j], m.kind # "assistant", ~IsAttached(m)
        PROVE  \E k \in 1 .. Len(ns) : m = ns[k]
    <3>1. PICK k \in 1 .. Len(ns) : h[k] = j
      BY <1>3, <2>3
    <3>. QED BY <1>3, <2>3, <3>1
  <2>. QED BY <1>3, <2>1, <2>2, <2>3
<1>12. /\ l \in 0 .. Len(ms) /\ (l # 0 => ms[l].kind = "assistant")
       /\ \A j \in 1 .. Len(ms) : ms[j].kind = "assistant" => j <= l
  BY <1>0, LastAssistantIs
<1>13. \A m : m \in Before(ms) <=> \E j \in 1 .. l : m = ms[j] /\ m.kind # "assistant"
  BY <1>0, BeforeIs
<1>. HIDE DEF l
<1>14. ASSUME NEW m PROVE m \in Before(ns) <=> m \in Before(ms) /\ ~IsAttached(m)
  <2>1. CASE l = 0
    <3>1. \A j \in 1 .. Len(ns) : ns[j].kind # "assistant"
      BY <1>0, <1>3, <1>12, <2>1
    <3>2. 0 \in 0 .. Len(ns)
      BY <1>3
    <3>3. LastAssistant(ns) = 0
      BY <1>1, <3>1, <3>2, IsLastAssistant
    <3>4. m \notin Before(ns)
      BY <1>1, <3>3, BeforeIs
    <3>. QED BY <1>13, <2>1, <3>4
  <2>2. CASE l # 0
    <3>1. l \in 1 .. Len(ms) /\ ms[l].kind = "assistant" /\ ~IsAttached(ms[l])
      BY <1>0, <1>12, <2>2 DEF IsAttached
    <3>2. PICK k \in 1 .. Len(ns) : h[k] = l
      BY <1>3, <3>1
    <3>3. k \in 0 .. Len(ns) /\ ns[k].kind = "assistant"
      BY <1>3, <3>1, <3>2
    <3>4. ASSUME NEW j \in 1 .. Len(ns), ns[j].kind = "assistant" PROVE j <= k
      <4>1. h[j] <= h[k]
        BY <1>3, <1>12, <3>2, <3>4
      <4>. QED BY <1>4, <4>1
    <3>5. LastAssistant(ns) = k
      BY <1>1, <3>3, <3>4, IsLastAssistant
    <3>6. m \in Before(ns) <=> \E j \in 1 .. k : m = ns[j] /\ m.kind # "assistant"
      BY <1>1, <3>5, BeforeIs
    <3>7. ASSUME NEW j \in 1 .. k, m = ns[j], m.kind # "assistant"
          PROVE  m \in Before(ms) /\ ~IsAttached(m)
      <4>1. j \in 1 .. Len(ns) /\ (j < k \/ j = k)
        BY <1>3
      <4>2. h[j] \in 1 .. Len(ms) /\ h[j] <= h[k]
        BY <1>0, <1>3, <4>1
      <4>3. h[j] \in 1 .. l
        BY <1>0, <3>1, <3>2, <4>2
      <4>. QED BY <1>3, <1>13, <3>7, <4>1, <4>3
    <3>8. ASSUME NEW i \in 1 .. l, m = ms[i], m.kind # "assistant", ~IsAttached(m)
          PROVE  \E j \in 1 .. k : m = ns[j] /\ m.kind # "assistant"
      <4>1. i \in 1 .. Len(ms)
        BY <1>0, <3>1
      <4>2. PICK j \in 1 .. Len(ns) : h[j] = i
        BY <1>3, <3>8, <4>1
      <4>3. h[j] <= h[k]
        BY <3>1, <3>2, <4>2
      <4>4. j <= k
        BY <1>4, <4>3
      <4>5. j \in 1 .. k /\ m = ns[j]
        BY <1>3, <3>8, <4>2, <4>4
      <4>. QED BY <3>8, <4>5
    <3>. QED BY <1>13, <3>6, <3>7, <3>8
  <2>. QED BY <2>1, <2>2
<1>. QED BY <1>5, <1>7, <1>8, <1>9, <1>10, <1>11, <1>14 DEF ns

(* A failed question typed again: the conversation up to it.               *)
LEMMA LastDropped ==
  ASSUME NEW n, NEW ms, Shape(ms, n), ms # <<>>, ms[Len(ms)].kind = "user"
  PROVE  LET ns == Front(ms) IN
         /\ ns \in Seq(MessageType) /\ BodyOK(ns, n) /\ Answered(ns)
         /\ KeysIn(ns) = KeysIn(ms) /\ Before(ns) = Before(ms)
         /\ \A i \in 1 .. Len(ns) : i \in 1 .. Len(ms) /\ ns[i] = ms[i]
         /\ \A C : Apart(ms, C) => Apart(ns, C)
<1>. DEFINE ns == Front(ms)
            l  == LastAssistant(ms)
            h  == [k \in 1 .. Len(ns) |-> k]
<1>0. /\ ms \in Seq(MessageType) /\ BodyOK(ms, n) /\ Answered(ms) /\ Len(ms) \in Nat
      /\ Len(ms) \in 1 .. Len(ms)
  <2>1. ms \in Seq(MessageType) /\ BodyOK(ms, n) /\ Answered(ms)
    BY DEF Shape
  <2>. QED BY <2>1
<1>1. ns = SubSeq(ms, 1, Len(ms) - 1)
  BY DEF Front
<1>2. ns \in Seq(MessageType) /\ Len(ns) = Len(ms) - 1 /\ \A i \in 1 .. Len(ms) - 1 : ns[i] = ms[i]
  <2>1. /\ SubSeq(ms, 1, Len(ms) - 1) \in Seq(MessageType)
        /\ Len(SubSeq(ms, 1, Len(ms) - 1)) = Len(ms) - 1
        /\ \A i \in 1 .. Len(ms) - 1 : SubSeq(ms, 1, Len(ms) - 1)[i] = ms[i]
    <3>. DEFINE b == SubSeq(ms, 1, Len(ms) - 1)
    <3>1. 1 \in 1 .. Len(ms) + 1 /\ Len(ms) - 1 \in 0 .. Len(ms)
      BY <1>0
    <3>2. /\ b \in Seq(MessageType)
          /\ Len(b) = IF 1 <= Len(ms) - 1 THEN (Len(ms) - 1) - 1 + 1 ELSE 0
          /\ \A i \in 1 .. (Len(ms) - 1) - 1 + 1 : b[i] = ms[1 + i - 1]
      BY <1>0, <3>1, SubSeqProperties
    <3>. HIDE DEF b
    <3>3. \A i \in 1 .. Len(ms) - 1 : i \in 1 .. (Len(ms) - 1) - 1 + 1 /\ 1 + i - 1 = i
      BY <1>0
    <3>4. Len(b) = Len(ms) - 1
      <4>1. Len(ms) \in Nat /\ Len(ms) >= 1
        BY <1>0
      <4>2. CASE 1 <= Len(ms) - 1
        <5>1. Len(b) = (Len(ms) - 1) - 1 + 1
          BY <3>2, <4>2
        <5>. QED BY <4>1, <5>1
      <4>3. CASE ~(1 <= Len(ms) - 1)
        <5>1. Len(b) = 0
          BY <3>2, <4>3
        <5>2. Len(ms) = 1
          BY <4>1, <4>3
        <5>. QED BY <5>1, <5>2
      <4>. QED BY <4>1, <4>2, <4>3
    <3>5. b \in Seq(MessageType) /\ Len(b) = Len(ms) - 1 /\ \A i \in 1 .. Len(ms) - 1 : b[i] = ms[i]
      BY <3>2, <3>3, <3>4
    <3>. QED BY <3>5 DEF b
  <2>. HIDE DEF ns
  <2>. QED BY <1>1, <2>1
<1>. HIDE DEF ns
<1>3. \A i \in 1 .. Len(ns) : i \in 1 .. Len(ms) /\ ns[i] = ms[i]
  BY <1>0, <1>2
<1>4. PartOf(ms, ns, h)
  BY <1>3 DEF PartOf
<1>5. BodyOK(ns, n) /\ KeysIn(ns) \subseteq KeysIn(ms) /\ \A C : Apart(ms, C) => Apart(ns, C)
  <2>. HIDE DEF h
  <2>. QED BY <1>0, <1>2, <1>4, PartKept
<1>6. Answered(ns)
  <2>. SUFFICES ASSUME NEW j \in 1 .. Len(ns), ns[j].kind = "assistant"
                PROVE  j > 1 /\ ns[j - 1] = Message("user", ns[j].id, {})
    BY DEF Answered
  <2>1. j \in 1 .. Len(ms) /\ ns[j] = ms[j]
    BY <1>3
  <2>2. j > 1 /\ ms[j - 1] = Message("user", ms[j].id, {})
    BY <1>0, <2>1 DEF Answered
  <2>3. j - 1 \in 1 .. Len(ns)
    BY <1>0, <1>2, <2>1, <2>2
  <2>. QED BY <1>3, <2>1, <2>2, <2>3
<1>7. KeysIn(ns) = KeysIn(ms)
  <2>. SUFFICES ASSUME NEW x \in KeysIn(ms) PROVE x \in KeysIn(ns)
    BY <1>5
  <2>1. PICK i \in 1 .. Len(ms) : x \in ms[i].keys
    BY <1>0, KeysInIs
  <2>2. i # Len(ms)
    BY <1>0, <2>1 DEF BodyOK, ContextKinds
  <2>3. i \in 1 .. Len(ns)
    BY <1>0, <1>2, <2>2
  <2>. QED BY <1>2, <1>3, <2>1, <2>3, KeysInIs
<1>8. Before(ns) = Before(ms)
  <2>1. /\ l \in 0 .. Len(ms) /\ (l # 0 => ms[l].kind = "assistant")
        /\ \A j \in 1 .. Len(ms) : ms[j].kind = "assistant" => j <= l
    BY <1>0, LastAssistantIs
  <2>2. \A m : m \in Before(ms) <=> \E j \in 1 .. l : m = ms[j] /\ m.kind # "assistant"
    BY <1>0, BeforeIs
  <2>. HIDE DEF l
  <2>3. l \in 0 .. Len(ns) /\ \A j \in 1 .. l : j \in 1 .. Len(ns) /\ ns[j] = ms[j]
    <3>1. l # Len(ms)
      BY <1>0, <2>1
    <3>2. l \in 0 .. Len(ns) /\ \A j \in 1 .. l : j \in 1 .. Len(ns)
      BY <1>0, <1>2, <2>1, <3>1
    <3>. QED BY <1>3, <3>2
  <2>4. l # 0 => ns[l].kind = "assistant"
    BY <2>1, <2>3
  <2>5. LastAssistant(ns) = l
    BY <1>2, <1>3, <2>1, <2>3, <2>4, IsLastAssistant
  <2>6. ASSUME NEW m PROVE m \in Before(ns) <=> m \in Before(ms)
    <3>1. m \in Before(ns) <=> \E j \in 1 .. l : m = ns[j] /\ m.kind # "assistant"
      BY <1>2, <2>5, BeforeIs
    <3>. QED BY <2>2, <2>3, <3>1
  <2>. QED BY <2>6 DEF Before, AsksOf
<1>. QED BY <1>2, <1>3, <1>5, <1>6, <1>7, <1>8 DEF ns

(* What SubSeq returns, at indices the code uses.                          *)
LEMMA PartFrom ==
  ASSUME NEW S, NEW ms \in Seq(S), NEW a \in 1 .. Len(ms) + 1, NEW b \in 0 .. Len(ms), a <= b + 1
  PROVE  /\ SubSeq(ms, a, b) \in Seq(S) /\ Len(SubSeq(ms, a, b)) = b - a + 1
         /\ \A i \in 1 .. b - a + 1 : SubSeq(ms, a, b)[i] = ms[a + i - 1] /\ a + i - 1 \in a .. b
<1>0. Len(ms) \in Nat /\ a \in Int /\ b \in Int /\ a >= 1 /\ b <= Len(ms)
  OBVIOUS
<1>1. \A i \in a .. b : i \in 1 .. Len(ms)
  BY <1>0
<1>2. \A i \in a .. b : ms[i] \in S
  BY <1>1, ElementOfSeq
<1>. DEFINE s == SubSeq(ms, a, b)
<1>3. /\ s \in Seq(S)
      /\ Len(s) = IF a <= b THEN b - a + 1 ELSE 0
      /\ \A i \in 1 .. b - a + 1 : s[i] = ms[a + i - 1]
  BY <1>0, <1>2, SubSeqProperties
<1>. HIDE DEF s
<1>4. Len(s) = b - a + 1
  <2>1. CASE a <= b
    BY <1>3, <2>1
  <2>2. CASE ~(a <= b)
    <3>1. Len(s) = 0
      BY <1>3, <2>2
    <3>2. b - a + 1 = 0
      BY <1>0, <2>2
    <3>. QED BY <3>1, <3>2
  <2>. QED BY <1>0, <2>1, <2>2
<1>5. \A i \in 1 .. b - a + 1 : a + i - 1 \in a .. b
  BY <1>0
<1>. QED BY <1>3, <1>4, <1>5 DEF s

(* Behind the last question there is at most its answer.                   *)
LEMMA LastQuestion ==
  ASSUME NEW n, NEW ms, Shape(ms, n), LastUser(ms) # 0
  PROVE  \A i \in 1 .. Len(ms) : i >= LastUser(ms) => ms[i].keys = {}
<1>. DEFINE u == LastUser(ms)
<1>0. /\ ms \in Seq(MessageType) /\ BodyOK(ms, n) /\ Answered(ms) /\ Len(ms) \in Nat
      /\ ms # <<>> => ms[Len(ms)].kind \in {"user", "assistant"}
  BY DEF Shape
<1>1. /\ u \in 1 .. Len(ms) /\ ms[u].kind = "user"
      /\ \A i \in 1 .. Len(ms) : ms[i].kind = "user" => i <= u
  BY <1>0, LastUserIs
<1>. HIDE DEF u
<1>2. Len(ms) \in 1 .. Len(ms) /\ ms # <<>>
  BY <1>0, <1>1
<1>3. Len(ms) = u \/ Len(ms) = u + 1
  <2>1. CASE ms[Len(ms)].kind = "user"
    BY <1>0, <1>1, <1>2, <2>1
  <2>2. CASE ms[Len(ms)].kind = "assistant"
    <3>1. Len(ms) > 1 /\ ms[Len(ms) - 1] = Message("user", ms[Len(ms)].id, {})
      BY <1>0, <1>2, <2>2 DEF Answered
    <3>2. Len(ms) - 1 \in 1 .. Len(ms) /\ ms[Len(ms) - 1].kind = "user"
      BY <1>0, <3>1 DEF Message
    <3>3. Len(ms) - 1 <= u
      BY <1>1, <3>2
    <3>. QED BY <1>0, <1>1, <3>3
  <2>. QED BY <1>0, <1>2, <2>1, <2>2
<1>4. ASSUME NEW i \in 1 .. Len(ms), i >= u PROVE ms[i].keys = {}
  <2>1. i = u \/ i = Len(ms)
    BY <1>0, <1>1, <1>3, <1>4
  <2>2. ms[i].kind \in {"user", "assistant"}
    BY <1>0, <1>1, <1>2, <2>1
  <2>. QED BY <1>0, <2>2 DEF BodyOK, ContextKinds
<1>. QED BY <1>4 DEF u

(* A retry leaves what came before the last question's turn, and of the    *)
(* turn its attached statements; each key is left or dropped.              *)
LEMMA Retried ==
  ASSUME NEW n, NEW ms, Shape(ms, n), LastUser(ms) # 0
  PROVE  LET user  == LastUser(ms)
             start == TurnStart(ms, user)
             turn  == SubSeq(ms, start, user - 1)
             rest  == SubSeq(ms, 1, start - 1) \o Filter(turn, Attachments)
         IN  /\ rest \in Seq(MessageType) /\ BodyOK(rest, n) /\ Answered(rest)
             /\ \A i \in 1 .. Len(rest) : \E j \in 1 .. Len(ms) : rest[i] = ms[j]
             /\ KeysIn(ms) = KeysIn(rest) \cup KeysIn(turn)
             /\ \A C : Apart(ms, C) => Apart(rest, C) /\ KeysIn(rest) \cap KeysIn(turn) \cap C = {}
<1>. DEFINE user  == LastUser(ms)
            start == TurnStart(ms, user)
            turn  == SubSeq(ms, start, user - 1)
            head  == SubSeq(ms, 1, start - 1)
            kept  == Filter(turn, Attachments)
            rest  == head \o kept
<1>0. /\ ms \in Seq(MessageType) /\ BodyOK(ms, n) /\ Answered(ms) /\ Len(ms) \in Nat
  BY DEF Shape
<1>1. user \in 1 .. Len(ms)
  BY <1>0, LastUserIs
<1>2. \A i \in 1 .. Len(ms) : i >= user => ms[i].keys = {}
  BY LastQuestion
<1>. HIDE DEF user
<1>3. /\ start \in 1 .. user
      /\ \A i \in start .. user - 1 : ms[i].kind \in ContextKinds \cup {"attached-context"}
  BY <1>0, <1>1, TurnStartIs
<1>. HIDE DEF start
<1>4. /\ turn \in Seq(MessageType) /\ Len(turn) = user - 1 - start + 1
      /\ \A i \in 1 .. user - 1 - start + 1 :
            turn[i] = ms[start + i - 1] /\ start + i - 1 \in start .. user - 1
  <2>1. start \in 1 .. Len(ms) + 1 /\ user - 1 \in 0 .. Len(ms) /\ start <= user - 1 + 1
    BY <1>0, <1>1, <1>3
  <2>. QED BY <1>0, <2>1, PartFrom
<1>5. /\ head \in Seq(MessageType) /\ Len(head) = start - 1
      /\ \A i \in 1 .. start - 1 : head[i] = ms[i] /\ i \in 1 .. Len(ms)
  <2>1. 1 \in 1 .. Len(ms) + 1 /\ start - 1 \in 0 .. Len(ms) /\ 1 <= start - 1 + 1
    BY <1>0, <1>1, <1>3
  <2>2. /\ head \in Seq(MessageType) /\ Len(head) = start - 1 - 1 + 1
        /\ \A i \in 1 .. start - 1 - 1 + 1 : head[i] = ms[1 + i - 1] /\ 1 + i - 1 \in 1 .. start - 1
    BY <1>0, <2>1, PartFrom
  <2>. HIDE DEF head
  <2>3. start - 1 - 1 + 1 = start - 1 /\ \A i \in 1 .. start - 1 : 1 + i - 1 = i /\ i \in 1 .. Len(ms)
    BY <1>0, <1>1, <1>3
  <2>. QED BY <2>2, <2>3
<1>6. /\ kept \in Seq(MessageType)
      /\ \E g : /\ PartOf(turn, kept, g)
                /\ \A k \in 1 .. Len(kept) : kept[k] \in Attachments
  <2>. HIDE DEF turn
  <2>. QED BY <1>4, FilterPart
<1>. HIDE DEF kept, head
<1>7. PICK g : PartOf(turn, kept, g) /\ \A k \in 1 .. Len(kept) : kept[k] \in Attachments
  BY <1>6
<1>. HIDE DEF turn
<1>8. /\ Len(kept) \in Nat /\ Len(head) \in Nat /\ Len(turn) \in Nat
      /\ \A k \in 1 .. Len(kept) : g[k] \in 1 .. Len(turn) /\ kept[k] = turn[g[k]] /\ IsAttached(kept[k])
      /\ \A j, k \in 1 .. Len(kept) : j < k => g[j] < g[k]
  <2>1. Len(kept) \in Nat /\ Len(head) \in Nat /\ Len(turn) \in Nat
    BY <1>4, <1>5, <1>6
  <2>2. /\ g \in [1 .. Len(kept) -> 1 .. Len(turn)]
        /\ \A j, k \in 1 .. Len(kept) : j < k => g[j] < g[k]
        /\ \A k \in 1 .. Len(kept) : kept[k] = turn[g[k]]
    BY <1>7 DEF PartOf
  <2>3. \A k \in 1 .. Len(kept) : IsAttached(kept[k])
    BY <1>7 DEF Attachments
  <2>. QED BY <2>1, <2>2, <2>3
<1>9. /\ rest \in Seq(MessageType) /\ Len(rest) = Len(head) + Len(kept)
      /\ \A i \in 1 .. Len(head) + Len(kept) :
            rest[i] = IF i <= Len(head) THEN head[i] ELSE kept[i - Len(head)]
  BY <1>5, <1>6, ConcatProperties
<1>. HIDE DEF rest
<1>. DEFINE h == [i \in 1 .. Len(rest) |-> IF i <= Len(head) THEN i ELSE start - 1 + g[i - Len(head)]]
<1>10. ASSUME NEW i \in 1 .. Len(rest)
       PROVE  \/ /\ i \in 1 .. start - 1 /\ i \in 1 .. Len(ms) /\ h[i] = i
                 /\ rest[i] = ms[i]
              \/ /\ i > start - 1 /\ i - (start - 1) \in 1 .. Len(kept)
                 /\ h[i] = start - 1 + g[i - (start - 1)] /\ h[i] \in start .. user - 1
                 /\ rest[i] = ms[h[i]] /\ IsAttached(rest[i])
  <2>1. CASE i <= Len(head)
    <3>1. i \in 1 .. start - 1 /\ i \in 1 .. Len(ms)
      BY <1>5, <1>8, <1>9, <2>1
    <3>. QED BY <1>5, <1>9, <2>1, <3>1
  <2>2. CASE ~(i <= Len(head))
    <3>. DEFINE k == i - (start - 1)
    <3>1. k \in 1 .. Len(kept) /\ k = i - Len(head) /\ i > start - 1
      BY <1>3, <1>5, <1>8, <1>9, <2>2
    <3>2. h[i] = start - 1 + g[k] /\ rest[i] = kept[k]
      BY <1>9, <2>2, <3>1
    <3>. HIDE DEF k, h
    <3>3. g[k] \in 1 .. user - 1 - start + 1 /\ kept[k] = turn[g[k]] /\ IsAttached(kept[k])
      BY <1>4, <1>8, <3>1
    <3>4. turn[g[k]] = ms[start + g[k] - 1] /\ start + g[k] - 1 \in start .. user - 1
      BY <1>4, <3>3
    <3>5. start + g[k] - 1 = start - 1 + g[k]
      BY <1>3, <3>3
    <3>. QED BY <3>1, <3>2, <3>3, <3>4, <3>5 DEF k
  <2>. QED BY <1>8, <2>1, <2>2
<1>11. h \in [1 .. Len(rest) -> Int]
  <2>1. h = [i \in 1 .. Len(rest) |-> h[i]]
    OBVIOUS
  <2>. HIDE DEF h
  <2>2. \A i \in 1 .. Len(rest) : h[i] \in Int
    BY <1>3, <1>10
  <2>. QED BY <2>1, <2>2
<1>. HIDE DEF h
<1>12. ASSUME NEW i \in 1 .. Len(rest)
       PROVE  h[i] \in 1 .. Len(ms) /\ rest[i] = ms[h[i]] /\ h[i] < user
  BY <1>0, <1>1, <1>3, <1>10
<1>13. ASSUME NEW j \in 1 .. Len(rest), NEW k \in 1 .. Len(rest), j < k PROVE h[j] < h[k]
  <2>1. CASE j \in 1 .. start - 1 /\ h[j] = j /\ k \in 1 .. start - 1 /\ h[k] = k
    BY <1>13, <2>1
  <2>2. CASE j \in 1 .. start - 1 /\ h[j] = j /\ h[k] \in start .. user - 1
    BY <1>1, <1>3, <2>2
  <2>3. CASE /\ j > start - 1 /\ j - (start - 1) \in 1 .. Len(kept) /\ h[j] = start - 1 + g[j - (start - 1)]
             /\ k > start - 1 /\ k - (start - 1) \in 1 .. Len(kept) /\ h[k] = start - 1 + g[k - (start - 1)]
    <3>1. j - (start - 1) < k - (start - 1)
      BY <1>3, <1>9, <1>8, <1>13
    <3>2. /\ g[j - (start - 1)] < g[k - (start - 1)] 
          /\ g[j - (start - 1)] \in 1 .. Len(turn) /\ g[k - (start - 1)] \in 1 .. Len(turn)
      BY <1>8, <2>3, <3>1
    <3>. QED BY <1>3, <1>8, <2>3, <3>2
  <2>4. ~(j > start - 1 /\ k \in 1 .. start - 1)
    BY <1>3, <1>9, <1>8, <1>13
  <2>. QED BY <1>10, <2>1, <2>2, <2>3, <2>4
<1>14. PartOf(ms, rest, h)
  <2>1. h \in [1 .. Len(rest) -> 1 .. Len(ms)]
    BY <1>11, <1>12
  <2>. QED BY <2>1, <1>12, <1>13 DEF PartOf
<1>15. BodyOK(rest, n) /\ KeysIn(rest) \subseteq KeysIn(ms) /\ \A C : Apart(ms, C) => Apart(rest, C)
  BY <1>0, <1>9, <1>14, PartKept
<1>16. Answered(rest)
  <2>. SUFFICES ASSUME NEW j \in 1 .. Len(rest), rest[j].kind = "assistant"
                PROVE  j > 1 /\ rest[j - 1] = Message("user", rest[j].id, {})
    BY DEF Answered
  <2>1. j \in 1 .. start - 1 /\ j \in 1 .. Len(ms) /\ rest[j] = ms[j]
    BY <1>10 DEF IsAttached
  <2>2. j > 1 /\ ms[j - 1] = Message("user", ms[j].id, {})
    BY <1>0, <2>1 DEF Answered
  <2>3. j - 1 \in 1 .. Len(rest) /\ j - 1 \in 1 .. start - 1
    BY <1>3, <1>8, <1>9, <2>1, <2>2
  <2>4. rest[j - 1] = ms[j - 1]
    BY <1>5, <1>8, <1>9, <2>3
  <2>. QED BY <2>1, <2>2, <2>4
<1>17. KeysIn(turn) \subseteq KeysIn(ms)
  <2>. SUFFICES ASSUME NEW x \in KeysIn(turn) PROVE x \in KeysIn(ms)
    OBVIOUS
  <2>1. PICK i \in 1 .. Len(turn) : x \in turn[i].keys
    BY <1>4, KeysInIs
  <2>2. turn[i] = ms[start + i - 1] /\ start + i - 1 \in start .. user - 1
    BY <1>4, <2>1
  <2>3. start + i - 1 \in 1 .. Len(ms)
    BY <1>0, <1>1, <1>3, <2>2
  <2>. QED BY <1>0, <2>1, <2>2, <2>3, KeysInIs
<1>18. KeysIn(ms) \subseteq KeysIn(rest) \cup KeysIn(turn)
  <2>. SUFFICES ASSUME NEW x \in KeysIn(ms) PROVE x \in KeysIn(rest) \cup KeysIn(turn)
    OBVIOUS
  <2>1. PICK i \in 1 .. Len(ms) : x \in ms[i].keys
    BY <1>0, KeysInIs
  <2>2. ~(i >= user)
    BY <1>2, <2>1
  <2>3. CASE i <= start - 1
    <3>1. i \in 1 .. start - 1 /\ i \in 1 .. Len(rest) /\ i <= Len(head)
      BY <1>3, <1>5, <1>8, <1>9, <2>3
    <3>2. rest[i] = ms[i]
      BY <1>5, <1>8, <1>9, <3>1
    <3>. QED BY <1>9, <2>1, <3>1, <3>2, KeysInIs
  <2>4. CASE ~(i <= start - 1)
    <3>1. i - start + 1 \in 1 .. user - 1 - start + 1 /\ start + (i - start + 1) - 1 = i
      BY <1>0, <1>1, <1>3, <2>2, <2>4
    <3>2. i - start + 1 \in 1 .. Len(turn) /\ turn[i - start + 1] = ms[i]
      BY <1>4, <3>1
    <3>. QED BY <1>4, <2>1, <3>2, KeysInIs
  <2>. QED BY <1>3, <2>3, <2>4
<1>19. ASSUME NEW C, Apart(ms, C) PROVE KeysIn(rest) \cap KeysIn(turn) \cap C = {}
  <2>. SUFFICES ASSUME NEW x, x \in KeysIn(rest), x \in KeysIn(turn), x \in C PROVE FALSE
    OBVIOUS
  <2>1. PICK i \in 1 .. Len(rest) : x \in rest[i].keys
    BY <1>9, KeysInIs
  <2>2. PICK j \in 1 .. Len(turn) : x \in turn[j].keys
    BY <1>4, KeysInIs
  <2>3. turn[j] = ms[start + j - 1] /\ start + j - 1 \in start .. user - 1 /\ start + j - 1 \in 1 .. Len(ms)
    <3>1. turn[j] = ms[start + j - 1] /\ start + j - 1 \in start .. user - 1
      BY <1>4, <2>2
    <3>. QED BY <1>0, <1>1, <1>3, <3>1
  <2>4. h[i] \in 1 .. Len(ms) /\ rest[i] = ms[h[i]]
    BY <1>12
  <2>5. h[i] = start + j - 1
    BY <1>19, <2>1, <2>2, <2>3, <2>4 DEF Apart
  <2>6. (i \in 1 .. start - 1 /\ h[i] = i) \/ IsAttached(rest[i])
    BY <1>10
  <2>7. ~IsAttached(rest[i])
    BY <1>9, <1>15, <2>1 DEF BodyOK, ContextKinds, IsAttached
  <2>. QED BY <1>1, <1>3, <2>3, <2>5, <2>6, <2>7
<1>. QED BY <1>9, <1>12, <1>15, <1>16, <1>17, <1>18, <1>19 DEF rest, head, kept, turn, start, user

LEMMA QuestionAtEnd ==
  ASSUME NEW n, NEW ms, Shape(ms, n), NEW id, ms # <<>>, ms[Len(ms)].kind = "user", ms[Len(ms)].id = id
  PROVE  IndexOfUser(ms, id) = Len(ms) /\ Len(ms) \in 1 .. Len(ms)
<1>. DEFINE x == IndexOfUser(ms, id)
<1>0. ms \in Seq(MessageType) /\ BodyOK(ms, n)
  BY DEF Shape
<1>1. Len(ms) \in 1 .. Len(ms)
  BY <1>0
<1>2. /\ x \in 0 .. Len(ms)
      /\ x # 0 => ms[x].kind = "user" /\ ms[x].id = id
      /\ x = 0 => \A i \in 1 .. Len(ms) : ~(ms[i].kind = "user" /\ ms[i].id = id)
  BY <1>0, IndexOfUserIs
<1>. HIDE DEF x
<1>3. x # 0
  BY <1>1, <1>2
<1>4. x \in 1 .. Len(ms)
  BY <1>1, <1>2, <1>3
<1>5. x = Len(ms)
  BY <1>0, <1>1, <1>2, <1>3, <1>4 DEF BodyOK
<1>. QED BY <1>1, <1>5 DEF x

(* The context of a turn goes before its question, if that is still there. *)
LEMMA ContextAdded ==
  ASSUME NEW n, NEW ms, Shape(ms, n), NEW id, NEW e \in MessageType, e.kind \in ContextKinds
  PROVE  LET ns == AppendContextMessage(ms, id, e) IN
         /\ Shape(ns, n)
         /\ ms = <<>> => ns = <<>>
         /\ ms # <<>> => ns # <<>> /\ ns[Len(ns)] = ms[Len(ms)]
         /\ KeysIn(ns) \subseteq KeysIn(ms) \cup e.keys
         /\ IndexOfUser(ms, id) # 0 => KeysIn(ns) = KeysIn(ms) \cup e.keys /\ IndexOfUser(ns, id) # 0
         /\ \A m : IsAttached(m) => (m \in AsksOf(ns) <=> m \in AsksOf(ms))
         /\ ms # <<>> /\ ms[Len(ms)].kind = "user" /\ ms[Len(ms)].id = id => Before(ns) = Before(ms)
         /\ \A C : Apart(ms, C) /\ e.keys \cap KeysIn(ms) \cap C = {} => Apart(ns, C)
<1>. DEFINE ns == AppendContextMessage(ms, id, e)
            i  == IndexOfUser(ms, id)
<1>0. ms \in Seq(MessageType)
  BY DEF Shape
<1>1. ns = IF i = 0 \/ e.keys = {} THEN ms ELSE InsertAt(ms, i, e)
  BY DEF AppendContextMessage
<1>2. i \in 0 .. Len(ms) /\ (i # 0 => ms[i].kind = "user" /\ ms[i].id = id)
  BY <1>0, IndexOfUserIs
<1>3. CASE i = 0 \/ e.keys = {}
  <2>1. ns = ms
    BY <1>1, <1>3
  <2>2. i # 0 => e.keys = {}
    BY <1>3
  <2>. HIDE DEF ns
  <2>3. KeysIn(ns) \subseteq KeysIn(ms) \cup e.keys /\ (i # 0 => KeysIn(ns) = KeysIn(ms) \cup e.keys)
    BY <2>1, <2>2
  <2>. QED BY <2>1, <2>3 DEF ns, i
<1>4. CASE ~(i = 0 \/ e.keys = {})
  <2>1. ns = InsertAt(ms, i, e)
    BY <1>1, <1>4
  <2>2. i \in 1 .. Len(ms) /\ ms[i].kind = "user" /\ ms[i].id = id
    BY <1>0, <1>2, <1>4
  <2>3. i # 0
    BY <1>4
  <2>. HIDE DEF ns, i
  <2>4. /\ Shape(ns, n) /\ Len(ns) = Len(ms) + 1 /\ ns[Len(ns)] = ms[Len(ms)]
        /\ KeysIn(ns) = KeysIn(ms) \cup e.keys
        /\ AsksOf(ns) = AsksOf(ms) \cup {e}
        /\ i = Len(ms) => Before(ns) = Before(ms)
        /\ \A C : Apart(ms, C) /\ e.keys \cap KeysIn(ms) \cap C = {} => Apart(ns, C)
    BY <2>1, <2>2, InsertContext DEF ContextKinds
  <2>5. ms # <<>> /\ ns # <<>> /\ Len(ms) \in Nat /\ ns \in Seq(MessageType)
    BY <1>0, <2>2, <2>4 DEF Shape
  <2>6. \A m : IsAttached(m) => (m \in AsksOf(ns) <=> m \in AsksOf(ms))
    BY <2>4 DEF IsAttached, ContextKinds
  <2>7. IndexOfUser(ns, id) # 0
    <3>1. ms[i] \in AsksOf(ms)
      BY <1>0, <2>2, AsksOfIs
    <3>2. PICK j \in 1 .. Len(ns) : ms[i] = ns[j]
      BY <2>4, <2>5, <3>1, AsksOfIs
    <3>. QED BY <2>2, <2>5, <3>2, IndexOfUserIs
  <2>8. ms[Len(ms)].kind = "user" /\ ms[Len(ms)].id = id => i = Len(ms)
    BY <2>5, QuestionAtEnd DEF i
  <2>. QED BY <2>3, <2>4, <2>5, <2>6, <2>7, <2>8 DEF ns, i
<1>. QED BY <1>3, <1>4

(* The attached statement put in, replaced where it stands, or taken out.  *)
LEMMA Upserted ==
  ASSUME NEW n, NEW ms, Shape(ms, n), NEW id, NEW v \in 0 .. MaxContexts
  PROVE  LET ns == UpsertPromptOnly(ms, id, v)
             S  == {Message("attached-context", w, {}) : w \in {v} \ {0}} IN
         /\ Shape(ns, n)
         /\ ms = <<>> => ns = <<>>
         /\ ms # <<>> => ns # <<>> /\ ns[Len(ns)] = ms[Len(ms)]
         /\ KeysIn(ns) = KeysIn(ms)
         /\ \A C : Apart(ms, C) => Apart(ns, C)
         /\ /\ ms # <<>> /\ ms[Len(ms)].kind = "user" /\ ms[Len(ms)].id = id
            /\ \A m : IsAttached(m) /\ m \in AsksOf(ms) => m \in S
            => /\ Before(ns) = Before(ms)
               /\ S \subseteq AsksOf(ns)
               /\ \A m : IsAttached(m) /\ m \in AsksOf(ns) => m \in S
<1>. DEFINE ns  == UpsertPromptOnly(ms, id, v)
            S   == {Message("attached-context", w, {}) : w \in {v} \ {0}}
            new == Message("attached-context", v, {})
            at  == FirstAttached(ms)
            i   == IndexOfUser(ms, id)
<1>0. /\ ms \in Seq(MessageType) /\ BodyOK(ms, n) /\ Answered(ms) /\ Len(ms) \in Nat
      /\ ms # <<>> => ms[Len(ms)].kind \in {"user", "assistant"}
  BY DEF Shape
<1>1. /\ v = 0 => ns = RemovePromptOnly(ms)
      /\ v # 0 /\ i = 0 => ns = ms
      /\ v # 0 /\ i # 0 /\ at # 0 => ns = [ms EXCEPT ![at] = new]
      /\ v # 0 /\ i # 0 /\ at = 0 => ns = InsertAt(ms, i, new)
  BY DEF UpsertPromptOnly, FirstAttached
<1>2. /\ i \in 0 .. Len(ms) /\ (i # 0 => ms[i].kind = "user" /\ ms[i].id = id)
  BY <1>0, IndexOfUserIs
<1>3. /\ at \in 0 .. Len(ms) /\ (at # 0 => IsAttached(ms[at]))
      /\ at = 0 => \A j \in 1 .. Len(ms) : ~IsAttached(ms[j])
  BY <1>0, FirstAttachedIs
<1>4. /\ new \in MessageType /\ new.kind = "attached-context" /\ new.keys = {} /\ new.id = v
  <2>1. MaxSends \in Nat /\ MaxContexts \in Nat
    BY ChatAssumption
  <2>2. v \in 0 .. MaxSends + MaxContexts
    BY <2>1
  <2>. QED BY <2>2, MessageOK
<1>5. (v = 0 => S = {}) /\ (v # 0 => S = {new})
  OBVIOUS
<1>6. ms # <<>> /\ ms[Len(ms)].kind = "user" /\ ms[Len(ms)].id = id => i = Len(ms) /\ i # 0
  <2>1. ms # <<>> /\ ms[Len(ms)].kind = "user" /\ ms[Len(ms)].id = id => i = Len(ms) /\ Len(ms) \in 1 .. Len(ms)
    BY QuestionAtEnd
  <2>. QED BY <1>0, <2>1
<1>. HIDE DEF ns, S, new, at, i
<1>7. CASE v = 0
  <2>1. ns = RemovePromptOnly(ms)
    BY <1>1, <1>7
  <2>2. /\ Shape(ns, n)
        /\ ms = <<>> => ns = <<>>
        /\ ms # <<>> => ns # <<>> /\ ns[Len(ns)] = ms[Len(ms)]
        /\ KeysIn(ns) = KeysIn(ms)
        /\ \A m : m \in AsksOf(ns) <=> m \in AsksOf(ms) /\ ~IsAttached(m)
        /\ \A m : m \in Before(ns) <=> m \in Before(ms) /\ ~IsAttached(m)
        /\ \A C : Apart(ms, C) => Apart(ns, C)
    BY <2>1, Removed
  <2>3. Before(ms) \subseteq AsksOf(ms)
    <3>1. \A m : m \in Before(ms) <=> \E j \in 1 .. LastAssistant(ms) : m = ms[j] /\ m.kind # "assistant"
      BY <1>0, BeforeIs
    <3>2. \A j \in 1 .. LastAssistant(ms) : j \in 1 .. Len(ms)
      BY <1>0, LastAssistantIs
    <3>. QED BY <1>0, <3>1, <3>2, AsksOfIs
  <2>4. ASSUME \A m : IsAttached(m) /\ m \in AsksOf(ms) => m \in S
        PROVE  Before(ns) = Before(ms)
    <3>1. \A m : m \in Before(ns) <=> m \in Before(ms)
      BY <1>5, <1>7, <2>2, <2>3, <2>4
    <3>. QED BY <3>1
  <2>. QED BY <1>5, <1>7, <2>2, <2>4 DEF ns, S
<1>8. CASE v # 0 /\ i = 0
  <2>1. ns = ms
    BY <1>1, <1>8
  <2>. QED BY <1>6, <1>8, <2>1 DEF ns
<1>9. CASE v # 0 /\ i # 0 /\ at # 0
  <2>1. ns = [ms EXCEPT ![at] = new]
    BY <1>1, <1>9
  <2>2. at \in 1 .. Len(ms) /\ IsAttached(ms[at])
    BY <1>0, <1>3, <1>9
  <2>3. /\ ns \in Seq(MessageType) /\ Len(ns) = Len(ms)
        /\ \A j \in 1 .. Len(ms) : ns[j] = IF j = at THEN new ELSE ms[j]
    BY <1>0, <1>4, <2>1, <2>2, ExceptSeq
  <2>4. ms[at].keys = {} /\ ms[at].kind = "attached-context"
    BY <1>0, <2>2 DEF BodyOK, IsAttached, ContextKinds
  <2>5. \A j \in 1 .. Len(ms) : ns[j].keys = ms[j].keys /\ ns[j].kind = ms[j].kind
    BY <1>4, <2>3, <2>4
  <2>6. BodyOK(ns, n)
    <3>1. \A j \in 1 .. Len(ms) : ns[j].kind = "user" => ns[j] = ms[j]
      BY <1>4, <2>3
    <3>. QED BY <1>0, <2>3, <2>5, <3>1 DEF BodyOK
  <2>7. Answered(ns)
    <3>. SUFFICES ASSUME NEW j \in 1 .. Len(ns), ns[j].kind = "assistant"
                  PROVE  j > 1 /\ ns[j - 1] = Message("user", ns[j].id, {})
      BY DEF Answered
    <3>1. j \in 1 .. Len(ms) /\ ns[j] = ms[j]
      BY <1>4, <2>3
    <3>2. j > 1 /\ ms[j - 1] = Message("user", ms[j].id, {})
      BY <1>0, <3>1 DEF Answered
    <3>3. j - 1 \in 1 .. Len(ms) /\ j - 1 # at
      BY <1>0, <2>4, <3>1, <3>2 DEF Message
    <3>. QED BY <2>3, <3>1, <3>2, <3>3
  <2>8. ms # <<>> /\ Len(ms) \in 1 .. Len(ms) /\ ns # <<>>
    BY <1>0, <2>2, <2>3
  <2>9. ns[Len(ns)] = ms[Len(ms)]
    BY <1>0, <2>3, <2>4, <2>8
  <2>10. Shape(ns, n)
    BY <1>0, <2>3, <2>6, <2>7, <2>8, <2>9 DEF Shape
  <2>11. KeysIn(ns) = KeysIn(ms)
    <3>1. \A x : x \in KeysIn(ns) <=> x \in KeysIn(ms)
      BY <1>0, <2>3, <2>5, KeysInIs
    <3>. QED BY <3>1
  <2>12. \A C : Apart(ms, C) => Apart(ns, C)
    BY <2>3, <2>5 DEF Apart
  <2>13. ASSUME \A m : IsAttached(m) /\ m \in AsksOf(ms) => m \in S
         PROVE  ns = ms /\ S \subseteq AsksOf(ms)
    <3>1. ms[at] \in AsksOf(ms)
      BY <1>0, <2>2, <2>4, AsksOfIs
    <3>2. ms[at] = new
      BY <1>5, <1>9, <2>2, <2>13, <3>1
    <3>3. \A j \in 1 .. Len(ms) : ns[j] = ms[j]
      BY <2>3, <3>2
    <3>4. ns = ms
      BY <1>0, <2>3, <3>3, SeqEqual
    <3>. QED BY <1>5, <1>9, <3>1, <3>2, <3>4
  <2>. QED BY <2>8, <2>9, <2>10, <2>11, <2>12, <2>13 DEF ns, S
<1>10. CASE v # 0 /\ i # 0 /\ at = 0
  <2>1. ns = InsertAt(ms, i, new)
    BY <1>1, <1>10
  <2>2. i \in 1 .. Len(ms) /\ ms[i].kind = "user"
    BY <1>0, <1>2, <1>10
  <2>3. /\ Shape(ns, n) /\ Len(ns) = Len(ms) + 1 /\ ns[Len(ns)] = ms[Len(ms)]
        /\ KeysIn(ns) = KeysIn(ms) \cup new.keys
        /\ AsksOf(ns) = AsksOf(ms) \cup {new}
        /\ i = Len(ms) => Before(ns) = Before(ms)
        /\ \A C : Apart(ms, C) /\ new.keys \cap KeysIn(ms) \cap C = {} => Apart(ns, C)
    <3>1. /\ new.kind \in ContextKinds \cup {"attached-context"}
          /\ new.kind \notin ContextKinds => new.keys = {}
      BY <1>4
    <3>2. LET is == InsertAt(ms, i, new) IN
          /\ Shape(is, n) /\ Len(is) = Len(ms) + 1 /\ is[Len(is)] = ms[Len(ms)]
          /\ KeysIn(is) = KeysIn(ms) \cup new.keys
          /\ AsksOf(is) = AsksOf(ms) \cup {new}
          /\ i = Len(ms) => Before(is) = Before(ms)
          /\ \A C : Apart(ms, C) /\ new.keys \cap KeysIn(ms) \cap C = {} => Apart(is, C)
      BY <1>4, <2>2, <3>1, InsertContext
    <3>. QED BY <2>1, <3>2
  <2>4. ms # <<>> /\ ns # <<>>
    BY <1>0, <2>2, <2>3 DEF Shape
  <2>5. KeysIn(ns) = KeysIn(ms) /\ \A C : Apart(ms, C) => Apart(ns, C)
    BY <1>4, <2>3
  <2>. QED BY <1>5, <1>6, <1>10, <2>3, <2>4, <2>5 DEF ns, S
<1>. QED BY <1>2, <1>7, <1>8, <1>9, <1>10
----------
(* The invariant holds initially and is kept by every step. *)

FlowType ==
  [id : Streams, stage : {"index", "memories", "search", "listen", "send"},
   attached : 0 .. MaxContexts, memories : SUBSET Memories]

LEMMA BudgetIs == Budget \in Nat /\ MaxSends \in Nat /\ MaxContexts \in Nat
  BY ChatAssumption

LEMMA NoMessages ==
  ASSUME NEW n
  PROVE  /\ Shape(<<>>, n) /\ KeysIn(<<>>) = {}
         /\ AsksOf(<<>>) = {} /\ Before(<<>>) = {} /\ \A C : Apart(<<>>, C)
         /\ KeysIn(<<>>) \cap Chunks = {} /\ Cardinality(KeysIn(<<>>) \cap Chunks) = 0
<1>0. <<>> \in Seq(MessageType) /\ Len(<<>>) = 0 /\ 1 .. 0 = {}
  OBVIOUS
<1>1. Shape(<<>>, n) /\ \A C : Apart(<<>>, C)
  <2>1. BodyOK(<<>>, n) /\ Answered(<<>>) /\ \A C : Apart(<<>>, C)
    BY <1>0 DEF BodyOK, Answered, Apart
  <2>. QED BY <1>0, <2>1 DEF Shape
<1>2. KeysIn(<<>>) = {} /\ AsksOf(<<>>) = {}
  BY <1>0, KeysInIs, AsksOfIs
<1>3. Before(<<>>) = {}
  <2>1. LastAssistant(<<>>) \in 0 .. 0
    BY <1>0, LastAssistantIs
  <2>2. LastAssistant(<<>>) = 0
    BY <2>1
  <2>3. \A m : m \notin Before(<<>>)
    BY <1>0, <2>2, BeforeIs
  <2>. QED BY <2>3
<1>4. KeysIn(<<>>) \cap Chunks = {} /\ Cardinality(KeysIn(<<>>) \cap Chunks) = 0
  BY <1>2, FS_EmptySet
<1>. QED BY <1>1, <1>2, <1>3, <1>4

LEMMA ChunkCount ==
  ASSUME NEW A, NEW B, A \subseteq B
  PROVE  /\ Cardinality(A \cap Chunks) \in Nat
         /\ Cardinality(A \cap Chunks) <= Cardinality(B \cap Chunks)
<1>1. IsFiniteSet(Chunks)
  BY ChatAssumption
<1>2. IsFiniteSet(B \cap Chunks) /\ A \cap Chunks \subseteq B \cap Chunks
  BY <1>1, FS_Subset
<1>3. /\ IsFiniteSet(A \cap Chunks)
      /\ Cardinality(A \cap Chunks) <= Cardinality(B \cap Chunks)
  BY <1>2, FS_Subset
<1>. QED BY <1>3, FS_CardinalityType

LEMMA ChunkSum ==
  ASSUME NEW A, NEW c \in SUBSET Chunks
  PROVE  /\ Cardinality(c) \in Nat
         /\ Cardinality((A \cup c) \cap Chunks) <= Cardinality(A \cap Chunks) + Cardinality(c)
<1>1. IsFiniteSet(Chunks)
  BY ChatAssumption
<1>2. IsFiniteSet(A \cap Chunks) /\ IsFiniteSet(c)
  BY <1>1, FS_Subset
<1>3. (A \cup c) \cap Chunks = (A \cap Chunks) \cup c
  OBVIOUS
<1>4. /\ Cardinality(c) \in Nat /\ Cardinality(A \cap Chunks) \in Nat
      /\ Cardinality((A \cap Chunks) \cap c) \in Nat
  <2>1. IsFiniteSet((A \cap Chunks) \cap c)
    BY <1>2, FS_Subset
  <2>. QED BY <1>2, <2>1, FS_CardinalityType
<1>5. Cardinality((A \cap Chunks) \cup c)
        = Cardinality(A \cap Chunks) + Cardinality(c) - Cardinality((A \cap Chunks) \cap c)
  BY <1>2, FS_Union
<1>6. Cardinality((A \cap Chunks) \cup c) <= Cardinality(A \cap Chunks) + Cardinality(c)
  BY <1>4, <1>5
<1>. QED BY <1>3, <1>4, <1>6

(* While a flow of the active stream is under way, its question is last.   *)
LEMMA QuestionLast ==
  ASSUME TabIInv, NEW f \in flows, f.id = chat.stream
  PROVE  /\ messages # <<>> /\ messages[Len(messages)].kind = "user"
         /\ messages[Len(messages)].id = f.id /\ ~Answering
<1>1. f.id \in 1 .. MaxSends
  BY DEF TabIInv, TabTypeOK, Streams
<1>2. f.id # 0
  BY <1>1
<1>. QED BY <1>2 DEF TabIInv, MessagesInv, Answering, Shape

(* A flow that ends or moves on leaves the others as they are.             *)
LEMMA FlowsAfter ==
  ASSUME TabIInv, NEW f \in flows, NEW g \in FlowType, g.id = f.id,
         flows' = flows \ {f} \/ flows' = (flows \ {f}) \cup {g}
  PROVE  /\ flows' \subseteq FlowType
         /\ \A h \in flows' : h.id <= sent /\ h.id \in 1 .. MaxSends
         /\ \A h, k \in flows' : h.id = k.id => h = k
         /\ \A h \in flows' : h.id \notin live
         /\ \A h \in flows' : h = g \/ (h \in flows /\ h.id # f.id)
         /\ Answering => \A h \in flows' : h.id # chat.stream
<1>0. /\ flows \subseteq FlowType
      /\ \A h \in flows : h.id <= sent
      /\ \A h, k \in flows : h.id = k.id => h = k
      /\ \A h \in flows : h.id \notin live
      /\ Answering => \A h \in flows : h.id # chat.stream
  BY DEF TabIInv, TabTypeOK, OwnerInv, MessagesInv, FlowType
<1>1. \A h \in flows' : h = g \/ (h \in flows /\ h.id # f.id)
  BY <1>0
<1>2. flows' \subseteq FlowType
  BY <1>0
<1>3. \A h \in flows' : h.id \in 1 .. MaxSends
  BY <1>2 DEF FlowType, Streams
<1>4. \A h, k \in flows' : h.id = k.id => h = k
  BY <1>0, <1>1
<1>. QED BY <1>0, <1>1, <1>2, <1>3, <1>4

LEMMA InitInv == ChatInit => TabIInv
<1>. SUFFICES ASSUME ChatInit PROVE TabIInv
  OBVIOUS
<1>0. /\ chat = NewTab /\ messages = <<>> /\ flows = {} /\ listeners = {} /\ live = {}
      /\ sent = 0 /\ Late = {}
  BY DEF ChatInit, Late
<1>1. /\ chat \in ChatType
      /\ chat.stream = 0 /\ chat.error = FALSE /\ chat.output = FALSE /\ chat.chain = {} /\ chat.prompt = {}
      /\ chat.keys = {} /\ chat.cost = 0 /\ chat.listener = 0 /\ chat.open /\ chat.attached = 0
  BY <1>0, BudgetIs DEF NewTab, ChatType, NoChain
<1>2. TabTypeOK
  <2>1. messages \in Seq(MessageType) /\ 0 \in 0 .. MaxSends
    BY <1>0, BudgetIs
  <2>. QED BY <1>0, <1>1, <2>1 DEF TabTypeOK
<1>3. OwnerInv
  BY <1>0, <1>1 DEF OwnerInv, ListenersAreOwned
<1>4. Shape(messages, sent) /\ Before(messages) = {} /\ KeysIn(messages) = {}
      /\ \A C : Apart(messages, C)
  BY <1>0, NoMessages
<1>5. MessagesInv
  BY <1>0, <1>1, <1>4 DEF MessagesInv, Answering
<1>6. KeysInv
  <2>1. Cardinality(KeysIn(messages) \cap Chunks) = 0 /\ KeysIn(messages) \cap Chunks = {}
    BY <1>0, NoMessages
  <2>. QED BY <1>1, <1>4, <2>1 DEF KeysInv
<1>7. MemoriesInv
  BY <1>0, <1>1, <1>4 DEF MemoriesInv
<1>8. ChainInv
  <2>1. \A i \in 1 .. Len(messages) : FALSE
    BY <1>0
  <2>. QED BY <1>0, <1>1, <2>1 DEF ChainInv, NoChain
<1>. QED BY <1>2, <1>3, <1>5, <1>6, <1>7, <1>8 DEF TabIInv

(* A request is started on a tab that awaits nothing, with a conversation  *)
(* that fits its keys and its chain.                                       *)
LEMMA Started ==
  ASSUME TabIInv, NEW t \in ChatType, NEW ms, StartStream(t, ms),
         UNCHANGED <<listeners, live>>, Late' = Late,
         chat.stream = 0, t.open, t.shown = chat.shown, t.listener = chat.listener,
         t.attached = chat.attached,
         ms \in Seq(MessageType), BodyOK(ms, sent), Answered(ms),
         Apart(ms, Chunks), KeysIn(ms) \cap Chunks \subseteq t.keys,
         Cardinality(KeysIn(ms) \cap Chunks) <= t.cost,
         Late = {} =>
           /\ Apart(ms, Keys) /\ t.keys = KeysIn(ms)
           /\ \A i \in 1 .. Len(ms) : IsAttached(ms[i]) => ms[i] \in Statement
           /\ t.chain # NoChain => Before(ms) \subseteq t.chain /\ t.chain \subseteq Before(ms) \cup Statement
  PROVE  TabIInv'
<1>. DEFINE s == sent + 1
            q == Message("user", s, {})
<1>0. /\ sent \in Nat /\ sent < MaxSends /\ s \in 1 .. MaxSends /\ s \in Nat /\ sent < s
  BY BudgetIs DEF TabIInv, TabTypeOK, StartStream
<1>1. /\ sent' = s
      /\ messages' = Append(ms, q)
      /\ chat' = [t EXCEPT !.stream = s, !.error = FALSE, !.output = FALSE, !.prompt = {}]
      /\ \E stage \in {"index", "memories"} :
           flows' = flows \cup {[id |-> s, stage |-> stage, attached |-> t.attached, memories |-> {}]}
      /\ listeners' = listeners /\ live' = live /\ Late' = Late
  BY DEF StartStream
<1>2. PICK stage \in {"index", "memories"} :
        flows' = flows \cup {[id |-> s, stage |-> stage, attached |-> t.attached, memories |-> {}]}
  BY <1>1
<1>. DEFINE g == [id |-> s, stage |-> stage, attached |-> t.attached, memories |-> {}]
<1>3. /\ g.id = s /\ g.stage \notin {"search", "listen", "send"} /\ g.attached = t.attached
      /\ g \in FlowType
  BY <1>0 DEF FlowType, Streams, ChatType
<1>4. flows' = flows \cup {g}
  BY <1>2
<1>. HIDE DEF g, q
<1>5. /\ chat' \in ChatType
      /\ chat'.stream = s /\ chat'.error = FALSE /\ chat'.output = FALSE /\ chat'.prompt = {}
      /\ chat'.open = t.open /\ chat'.shown = t.shown /\ chat'.attached = t.attached
      /\ chat'.chain = t.chain /\ chat'.keys = t.keys /\ chat'.cost = t.cost /\ chat'.listener = t.listener
  <2>1. s \in 0 .. MaxSends
    BY <1>0
  <2>. HIDE DEF s
  <2>2. chat' = [t EXCEPT !.stream = s, !.error = FALSE, !.output = FALSE, !.prompt = {}]
    BY <1>1
  <2>. QED BY <2>1, <2>2 DEF ChatType
<1>. HIDE DEF s
<1>6. /\ Shape(messages', s) /\ Len(messages') = Len(ms) + 1
      /\ messages' # <<>> /\ messages'[Len(messages')] = q
      /\ KeysIn(messages') = KeysIn(ms)
      /\ Before(messages') = Before(ms)
      /\ \A i \in 1 .. Len(messages') : messages'[i] # q => i \in 1 .. Len(ms) /\ messages'[i] = ms[i]
      /\ \A C : Apart(ms, C) => Apart(messages', C)
  BY <1>0, <1>1, AskedAtEnd DEF q
<1>7. q.kind = "user" /\ q.id = s
  BY DEF q, Message
<1>8. \A f \in flows : f.id <= sent /\ f.id # s
  <2>1. \A f \in flows : f.id <= sent /\ f.id \in 1 .. MaxSends
    BY DEF TabIInv, OwnerInv, TabTypeOK, Streams
  <2>. QED BY <1>0, <2>1
<1>9. \A x \in live : x <= sent /\ x # s
  <2>1. \A x \in live : x <= sent /\ x \in 1 .. MaxSends
    BY DEF TabIInv, OwnerInv, TabTypeOK, Streams
  <2>. QED BY <1>0, <2>1
<1>10. TabTypeOK'
  <2>1. messages' \in Seq(MessageType)
    BY <1>6 DEF Shape
  <2>2. flows' \subseteq FlowType
    BY <1>3, <1>4 DEF TabIInv, TabTypeOK, FlowType
  <2>3. sent' \in 0 .. MaxSends
    BY <1>0, <1>1
  <2>. QED BY <1>1, <1>5, <2>1, <2>2, <2>3 DEF TabTypeOK, FlowType, TabIInv
<1>11. OwnerInv'
  <2>1. ListenersAreOwned'
    BY <1>0, <1>1, <1>5 DEF TabIInv, OwnerInv, ListenersAreOwned
  <2>3. \A f \in flows' : f.id <= sent' /\ f.id \notin live'
    <3>1. \A f \in flows : f.id <= s /\ f.id \notin live
      <4>1. \A f \in flows : f.id <= sent /\ f.id \notin live /\ f.id \in 1 .. MaxSends
        BY DEF TabIInv, OwnerInv, TabTypeOK, Streams
      <4>. QED BY <1>0, <4>1
    <3>2. g.id <= s /\ g.id \notin live
      BY <1>0, <1>3, <1>9
    <3>. QED BY <1>1, <1>4, <3>1, <3>2
  <2>4. \A f, h \in flows' : f.id = h.id => f = h
    BY <1>3, <1>4, <1>8 DEF TabIInv, OwnerInv
  <2>5. \A x \in live' : x <= sent'
    <3>1. \A x \in live : x <= sent /\ x \in 1 .. MaxSends
      BY DEF TabIInv, OwnerInv, TabTypeOK, Streams
    <3>2. \A x \in live : x <= s
      BY <1>0, <3>1
    <3>. QED BY <1>1, <3>2
  <2>6. chat'.stream <= sent' /\ chat'.open
    BY <1>0, <1>1, <1>5
  <2>. QED BY <1>5, <2>1, <2>3, <2>4, <2>5, <2>6 DEF OwnerInv
<1>12. MessagesInv' /\ ~Answering'
  <2>1. ~Answering'
    BY <1>6, <1>7 DEF Answering
  <2>2. Shape(messages', sent')
    BY <1>1, <1>6
  <2>. QED BY <1>5, <1>6, <1>7, <2>1, <2>2 DEF MessagesInv
<1>13. KeysInv'
  BY <1>5, <1>6 DEF KeysInv
<1>14. MemoriesInv'
  <2>. SUFFICES ASSUME Late' = {}
                PROVE  /\ Apart(messages', Keys) /\ chat'.keys = KeysIn(messages')
                       /\ \A f \in flows' : f.stage = "search" /\ f.id = chat'.stream => f.memories \cap chat'.keys = {}
    BY DEF MemoriesInv
  <2>1. Apart(messages', Keys) /\ chat'.keys = KeysIn(messages')
    BY <1>1, <1>5, <1>6
  <2>2. \A f \in flows' : f.id = chat'.stream => f = g
    BY <1>4, <1>5, <1>8
  <2>. QED BY <1>3, <2>1, <2>2
<1>15. ChainInv'
  <2>. SUFFICES ASSUME Late' = {} PROVE ChainInv'
    BY DEF ChainInv
  <2>0. Late = {}
    BY <1>1
  <2>1. Statement' = Statement
    BY <1>5 DEF Statement
  <2>2. \A i \in 1 .. Len(messages') : IsAttached(messages'[i]) => messages'[i] \in Statement'
    BY <1>6, <1>7, <2>0, <2>1 DEF IsAttached
  <2>3. \A f \in flows' : f.id = chat'.stream => f = g
    BY <1>4, <1>5, <1>8
  <2>4. chat'.chain # NoChain =>
          Before(messages') \subseteq chat'.chain /\ chat'.chain \subseteq Before(messages') \cup Statement'
    BY <1>5, <1>6, <2>0, <2>1
  <2>5. \A f \in flows' : f.id = chat'.stream =>
            /\ f.attached = chat'.attached /\ f.stage \notin {"listen", "send"}
    BY <1>3, <1>5, <2>3
  <2>. QED BY <1>5, <2>2, <2>4, <2>5 DEF ChainInv
<1>. QED BY <1>10, <1>11, <1>12, <1>13, <1>14, <1>15 DEF TabIInv

LEMMA SendStep == TabIInv /\ SendMessage => TabIInv'
<1>. SUFFICES ASSUME TabIInv, SendMessage PROVE TabIInv'
  OBVIOUS
<1>1. /\ chat.shown /\ chat.stream = 0 /\ UNCHANGED <<listeners, live>> /\ Late' = Late
      /\ \E same \in IF chat.error /\ messages # <<>> /\ Last(messages).kind = "user"
                     THEN BOOLEAN ELSE {FALSE} :
           StartStream(chat, IF same THEN Front(messages) ELSE messages)
  BY DEF SendMessage, Late
<1>2. PICK same \in IF chat.error /\ messages # <<>> /\ Last(messages).kind = "user"
                    THEN BOOLEAN ELSE {FALSE} :
        StartStream(chat, IF same THEN Front(messages) ELSE messages)
  BY <1>1
<1>. DEFINE ms == IF same THEN Front(messages) ELSE messages
<1>3. chat \in ChatType /\ chat.open
  BY <1>1 DEF TabIInv, TabTypeOK, OwnerInv
<1>4. Shape(messages, sent) /\ ~Answering
  BY <1>1 DEF TabIInv, MessagesInv, Answering
<1>5. /\ ms \in Seq(MessageType) /\ BodyOK(ms, sent) /\ Answered(ms)
      /\ KeysIn(ms) = KeysIn(messages) /\ Before(ms) = Before(messages)
      /\ \A i \in 1 .. Len(ms) : i \in 1 .. Len(messages) /\ ms[i] = messages[i]
      /\ \A C : Apart(messages, C) => Apart(ms, C)
  <2>1. CASE same
    <3>1. messages # <<>> /\ messages[Len(messages)].kind = "user"
      BY <1>2, <2>1 DEF Last
    <3>2. LET ns == Front(messages) IN
          /\ ns \in Seq(MessageType) /\ BodyOK(ns, sent) /\ Answered(ns)
          /\ KeysIn(ns) = KeysIn(messages) /\ Before(ns) = Before(messages)
          /\ \A i \in 1 .. Len(ns) : i \in 1 .. Len(messages) /\ ns[i] = messages[i]
          /\ \A C : Apart(messages, C) => Apart(ns, C)
      BY <1>4, <3>1, LastDropped
    <3>3. ms = Front(messages)
      BY <2>1
    <3>. HIDE DEF ms
    <3>. QED BY <3>2, <3>3
  <2>2. CASE ~same
    <3>1. ms = messages
      BY <2>2
    <3>. HIDE DEF ms
    <3>. QED BY <1>4, <3>1 DEF Shape
  <2>. QED BY <2>1, <2>2
<1>6. StartStream(chat, ms)
  BY <1>2
<1>. HIDE DEF ms
<1>7. /\ Apart(ms, Chunks) /\ KeysIn(ms) \cap Chunks \subseteq chat.keys
      /\ Cardinality(KeysIn(ms) \cap Chunks) <= chat.cost
  BY <1>5 DEF TabIInv, KeysInv
<1>8. ASSUME Late = {}
      PROVE  /\ Apart(ms, Keys) /\ chat.keys = KeysIn(ms)
             /\ \A i \in 1 .. Len(ms) : IsAttached(ms[i]) => ms[i] \in Statement
             /\ chat.chain # NoChain => Before(ms) \subseteq chat.chain /\ chat.chain \subseteq Before(ms) \cup Statement
  <2>1. Apart(ms, Keys) /\ chat.keys = KeysIn(ms)
    BY <1>5, <1>8 DEF TabIInv, MemoriesInv
  <2>2. \A i \in 1 .. Len(ms) : IsAttached(ms[i]) => ms[i] \in Statement
    BY <1>5, <1>8 DEF TabIInv, ChainInv
  <2>3. chat.chain # NoChain => Before(ms) \subseteq chat.chain /\ chat.chain \subseteq Before(ms) \cup Statement
    BY <1>4, <1>5, <1>8 DEF TabIInv, ChainInv
  <2>. QED BY <2>1, <2>2, <2>3
<1>. QED BY <1>1, <1>3, <1>5, <1>6, <1>7, <1>8, Started

LEMMA RetryStep == TabIInv /\ RetryLastMessage => TabIInv'
<1>. SUFFICES ASSUME TabIInv, RetryLastMessage PROVE TabIInv'
  OBVIOUS
<1>. DEFINE user  == LastUser(messages)
            start == TurnStart(messages, user)
            turn  == SubSeq(messages, start, user - 1)
            rest  == SubSeq(messages, 1, start - 1) \o Filter(turn, Attachments)
            t     == [ResponseChainReset(ActiveRequestReset(chat)) EXCEPT
                         !.keys = @ \ KeysIn(turn),
                         !.cost = Cardinality(KeysIn(rest) \cap Chunks)]
<1>1. /\ chat.shown /\ chat.error /\ UNCHANGED <<listeners, live>> /\ Late' = Late
      /\ user # 0 /\ StartStream(t, rest)
  BY DEF RetryLastMessage, Late
<1>2. chat.stream = 0 /\ chat.open /\ chat \in ChatType
  BY <1>1 DEF TabIInv, OwnerInv, TabTypeOK
<1>3. /\ rest \in Seq(MessageType) /\ BodyOK(rest, sent) /\ Answered(rest)
      /\ \A i \in 1 .. Len(rest) : \E j \in 1 .. Len(messages) : rest[i] = messages[j]
      /\ KeysIn(messages) = KeysIn(rest) \cup KeysIn(turn)
      /\ \A C : Apart(messages, C) => Apart(rest, C) /\ KeysIn(rest) \cap KeysIn(turn) \cap C = {}
  <2>1. Shape(messages, sent)
    BY DEF TabIInv, MessagesInv
  <2>. QED BY <1>1, <2>1, Retried
<1>. HIDE DEF rest, turn
<1>4. /\ Apart(messages, Chunks) /\ KeysIn(messages) \cap Chunks \subseteq chat.keys
      /\ Cardinality(KeysIn(messages) \cap Chunks) <= chat.cost
  BY DEF TabIInv, KeysInv
<1>5. /\ Cardinality(KeysIn(rest) \cap Chunks) \in 0 .. Budget
  <2>1. /\ Cardinality(KeysIn(rest) \cap Chunks) \in Nat
        /\ Cardinality(KeysIn(rest) \cap Chunks) <= Cardinality(KeysIn(messages) \cap Chunks)
        /\ Cardinality(KeysIn(messages) \cap Chunks) \in Nat
    BY <1>3, ChunkCount
  <2>2. chat.cost \in 0 .. Budget
    BY <1>2 DEF ChatType
  <2>. QED BY <1>4, <2>1, <2>2, BudgetIs
<1>6. /\ t \in ChatType /\ t.open = chat.open /\ t.shown = chat.shown /\ t.listener = chat.listener
      /\ t.attached = chat.attached /\ t.chain = NoChain
      /\ t.keys = chat.keys \ KeysIn(turn) /\ t.cost = Cardinality(KeysIn(rest) \cap Chunks)
  <2>. DEFINE c == Cardinality(KeysIn(rest) \cap Chunks)
              k == KeysIn(turn)
  <2>. HIDE DEF c, k
  <2>1. c \in 0 .. Budget
    BY <1>5 DEF c
  <2>2. t = [ResponseChainReset(ActiveRequestReset(chat)) EXCEPT !.keys = @ \ k, !.cost = c]
    BY DEF c, k
  <2>. HIDE DEF t
  <2>3. 0 \in 0 .. MaxSends
    BY BudgetIs
  <2>4. /\ t \in ChatType /\ t.open = chat.open /\ t.shown = chat.shown /\ t.listener = chat.listener
        /\ t.attached = chat.attached /\ t.chain = NoChain /\ t.keys = chat.keys \ k /\ t.cost = c
    BY <1>2, <2>1, <2>2, <2>3 DEF ChatType, ResponseChainReset, ActiveRequestReset, NoChain
  <2>. QED BY <2>4 DEF c, k
<1>. HIDE DEF t
<1>7. /\ Apart(rest, Chunks) /\ KeysIn(rest) \cap Chunks \subseteq t.keys
      /\ Cardinality(KeysIn(rest) \cap Chunks) <= t.cost
  BY <1>3, <1>4, <1>5, <1>6
<1>8. ASSUME Late = {}
      PROVE  /\ Apart(rest, Keys) /\ t.keys = KeysIn(rest)
             /\ \A i \in 1 .. Len(rest) : IsAttached(rest[i]) => rest[i] \in Statement
  <2>1. Apart(messages, Keys) /\ chat.keys = KeysIn(messages)
    BY <1>8 DEF TabIInv, MemoriesInv
  <2>2. KeysIn(messages) \subseteq Keys
    BY KeysInIs DEF TabIInv, TabTypeOK
  <2>3. Apart(rest, Keys) /\ t.keys = KeysIn(rest)
    BY <1>3, <1>6, <2>1, <2>2
  <2>4. \A i \in 1 .. Len(rest) : IsAttached(rest[i]) => rest[i] \in Statement
    BY <1>3, <1>8 DEF TabIInv, ChainInv
  <2>. QED BY <2>3, <2>4
<1>. QED BY <1>1, <1>2, <1>3, <1>6, <1>7, <1>8, Started

(* Steps that leave the tab and its conversation alone.                    *)
LEMMA FlowsOnly ==
  ASSUME TabIInv, NEW f \in flows, NEW g \in FlowType, g.id = f.id,
         flows' = flows \ {f} \/ flows' = (flows \ {f}) \cup {g},
         UNCHANGED <<chat, messages, listeners, sent>>, Late' = Late,
         live' = live \/ (flows' = flows \ {f} /\ live' = live \cup {f.id}),
         g.stage = "search" => g.memories \cap chat.keys = {},
         g.stage \notin {"listen", "send"}, g.attached = f.attached,
         f.stage # "send" \/ flows' = flows \ {f}
  PROVE  TabIInv'
<1>1. /\ flows' \subseteq FlowType
      /\ \A h \in flows' : h.id <= sent /\ h.id \in 1 .. MaxSends
      /\ \A h, k \in flows' : h.id = k.id => h = k
      /\ \A h \in flows' : h.id \notin live
      /\ \A h \in flows' : h = g \/ (h \in flows /\ h.id # f.id)
      /\ Answering => \A h \in flows' : h.id # chat.stream
  BY FlowsAfter
<1>2. f.id \in 1 .. MaxSends /\ f.id <= sent
  BY DEF TabIInv, TabTypeOK, OwnerInv, Streams
<1>3. /\ chat' = chat /\ messages' = messages /\ listeners' = listeners
      /\ sent' = sent /\ Late' = Late
  OBVIOUS
<1>4. TabTypeOK'
  <2>1. live' \subseteq Streams
    BY <1>2 DEF TabIInv, TabTypeOK, Streams
  <2>. QED BY <1>1, <1>3, <2>1 DEF TabIInv, TabTypeOK, FlowType
<1>5. OwnerInv'
  <2>1. \A h \in flows' : h.id \notin live'
    <3>1. CASE live' = live
      BY <1>1, <3>1
    <3>2. CASE flows' = flows \ {f} /\ live' = live \cup {f.id}
      BY <1>1, <3>2 DEF TabIInv, OwnerInv
    <3>. QED BY <3>1, <3>2
  <2>2. \A x \in live' : x <= sent'
    BY <1>2, <1>3 DEF TabIInv, OwnerInv
  <2>3. ListenersAreOwned'
    BY <1>3 DEF TabIInv, OwnerInv, ListenersAreOwned
  <2>4. /\ chat'.shown => chat'.open
        /\ ~chat'.open => chat'.stream = 0 /\ messages' = <<>> /\ chat'.keys = {}
        /\ chat'.error => chat'.stream = 0
        /\ chat'.stream <= sent'
    BY <1>3 DEF TabIInv, OwnerInv
  <2>5. \A h \in flows' : h.id <= sent'
    BY <1>1, <1>3
  <2>. QED BY <1>1, <2>1, <2>2, <2>3, <2>4, <2>5 DEF OwnerInv
<1>6. MessagesInv' /\ (Answering' <=> Answering)
  BY <1>1, <1>3 DEF TabIInv, MessagesInv, Answering
<1>7. KeysInv'
  BY <1>3 DEF TabIInv, KeysInv
<1>8. MemoriesInv'
  BY <1>1, <1>3 DEF TabIInv, MemoriesInv
<1>9. ChainInv'
  <2>. SUFFICES ASSUME Late' = {} PROVE ChainInv'
    BY DEF ChainInv
  <2>0. Late = {}
    BY <1>3
  <2>1. Statement' = Statement
    BY <1>3 DEF Statement
  <2>2. /\ \A i \in 1 .. Len(messages) : IsAttached(messages[i]) => messages[i] \in Statement
        /\ \A h \in flows : h.id = chat.stream =>
              /\ h.attached = chat.attached
              /\ h.stage \in {"listen", "send"} => Statement \subseteq AsksOf(messages)
              /\ chat.prompt # {} => h.stage = "send"
        /\ chat.prompt # {} => chat.stream # 0 /\ chat.prompt = AsksOf(messages)
        /\ chat.output => Answering
        /\ chat.chain # NoChain /\ ~Answering =>
              Before(messages) \subseteq chat.chain /\ chat.chain \subseteq Before(messages) \cup Statement
    BY <2>0 DEF TabIInv, ChainInv
  <2>3. ASSUME NEW h \in flows', h.id = chat.stream
        PROVE  /\ h.attached = chat.attached
               /\ h.stage \in {"listen", "send"} => Statement \subseteq AsksOf(messages)
               /\ chat.prompt # {} => h.stage = "send"
    <3>1. CASE h \in flows
      BY <2>2, <2>3, <3>1
    <3>2. CASE h = g /\ h \notin flows
      <4>1. flows' = (flows \ {f}) \cup {g} /\ f.stage # "send"
        BY <3>2, <2>3
      <4>2. f.attached = chat.attached /\ chat.prompt = {}
        BY <2>2, <2>3, <3>2, <4>1
      <4>. QED BY <3>2, <4>2
    <3>. QED BY <1>1, <3>1, <3>2
  <2>. QED BY <1>3, <1>6, <2>1, <2>2, <2>3 DEF ChainInv
<1>. QED BY <1>4, <1>5, <1>6, <1>7, <1>8, <1>9 DEF TabIInv

LEMMA FlowMoved ==
  ASSUME TabIInv, NEW f \in flows, NEW stage \in {"index", "memories", "search", "listen", "send"}
  PROVE  LET h == [f EXCEPT !.stage = stage] IN
         /\ h \in FlowType /\ h.id = f.id /\ h.stage = stage /\ h.attached = f.attached
         /\ h.memories = f.memories
<1>1. f \in FlowType
  BY DEF TabIInv, TabTypeOK, FlowType
<1>. QED BY <1>1 DEF FlowType

LEMMA IndexStep == ASSUME TabIInv, NEW f \in flows, IndexWaitEnds(f) PROVE TabIInv'
<1>. DEFINE g == [f EXCEPT !.stage = "memories"]
<1>1. /\ f.stage = "index" /\ flows' = (flows \ {f}) \cup {g}
      /\ chat' = IF chat.open THEN chat ELSE [NewTab EXCEPT !.shown = FALSE]
      /\ UNCHANGED <<messages, listeners, live, sent>> /\ Late' = Late
  BY DEF IndexWaitEnds, Stage, Late
<1>2. /\ g \in FlowType /\ g.id = f.id /\ g.stage = "memories" /\ g.attached = f.attached
      /\ g.memories = f.memories
  BY FlowMoved
<1>. HIDE DEF g
<1>3. CASE chat.open
  <2>1. chat' = chat
    BY <1>1, <1>3
  <2>. QED BY <1>1, <1>2, <2>1, FlowsOnly
<1>4. CASE ~chat.open
  <2>1. /\ chat.stream = 0 /\ messages = <<>> /\ chat \in ChatType
        /\ listeners = {chat.listener} \ {0} /\ chat.listener \in {0, chat.stream}
    BY <1>4 DEF TabIInv, OwnerInv, TabTypeOK, ListenersAreOwned
  <2>2. /\ chat' \in ChatType /\ chat'.open /\ ~chat'.shown
        /\ chat'.stream = 0 /\ chat'.error = FALSE /\ chat'.output = FALSE /\ chat'.chain = {}
        /\ chat'.prompt = {} /\ chat'.keys = {} /\ chat'.cost = 0 /\ chat'.listener = 0 /\ chat'.attached = 0
    <3>1. chat' = [NewTab EXCEPT !.shown = FALSE]
      BY <1>1, <1>4
    <3>2. 0 \in 0 .. MaxSends /\ 0 \in 0 .. MaxContexts /\ 0 \in 0 .. Budget
      BY BudgetIs
    <3>. QED BY <3>1, <3>2 DEF NewTab, ChatType, NoChain
  <2>3. /\ flows' \subseteq FlowType
        /\ \A h \in flows' : h.id <= sent /\ h.id \in 1 .. MaxSends
        /\ \A h, k \in flows' : h.id = k.id => h = k
        /\ \A h \in flows' : h.id \notin live
    BY <1>1, <1>2, FlowsAfter
  <2>4. \A h \in flows' : h.id # 0
    BY <2>3
  <2>5. /\ Shape(messages, sent) /\ KeysIn(messages) = {}
        /\ \A C : Apart(messages, C)
        /\ KeysIn(messages) \cap Chunks = {}
        /\ Cardinality(KeysIn(messages) \cap Chunks) = 0
    BY <2>1, NoMessages
  <2>6. TabTypeOK'
    BY <1>1, <2>2, <2>3 DEF TabIInv, TabTypeOK, FlowType
  <2>7. OwnerInv'
    <3>1. ListenersAreOwned'
      BY <1>1, <2>1, <2>2 DEF ListenersAreOwned
    <3>2. chat'.stream <= sent' /\ \A x \in live' : x <= sent'
      BY <1>1, <2>2 DEF TabIInv, OwnerInv, TabTypeOK
    <3>. QED BY <1>1, <2>2, <2>3, <3>1, <3>2 DEF OwnerInv
  <2>8. MessagesInv' /\ KeysInv' /\ MemoriesInv'
    <3>1. messages' = messages /\ sent' = sent
      BY <1>1
    <3>2. MessagesInv'
      BY <2>2, <2>5, <3>1 DEF MessagesInv, Answering
    <3>3. KeysInv'
      <4>1. KeysIn(messages') \cap Chunks = {} /\ Cardinality(KeysIn(messages') \cap Chunks) = 0
        BY <2>5, <3>1
      <4>2. Apart(messages', Chunks)
        BY <2>5, <3>1
      <4>. QED BY <2>2, <4>1, <4>2 DEF KeysInv
    <3>4. MemoriesInv'
      BY <2>2, <2>4, <2>5, <3>1 DEF MemoriesInv
    <3>. QED BY <3>2, <3>3, <3>4
  <2>9. ChainInv'
    <3>1. \A i \in 1 .. Len(messages') : FALSE
      BY <1>1, <2>1
    <3>. QED BY <2>2, <2>4, <3>1 DEF ChainInv, NoChain
  <2>. QED BY <2>6, <2>7, <2>8, <2>9 DEF TabIInv
<1>. QED BY <1>3, <1>4

LEMMA MemoriesStep == ASSUME TabIInv, NEW f \in flows, MemoriesReply(f) PROVE TabIInv'
<1>1. PICK found \in SUBSET Memories :
        flows' = (flows \ {f}) \cup {[f EXCEPT !.stage = "search", !.memories = found \ chat.keys]}
  BY DEF MemoriesReply
<1>. DEFINE g == [f EXCEPT !.stage = "search", !.memories = found \ chat.keys]
<1>2. /\ g \in FlowType /\ g.id = f.id /\ g.stage = "search" /\ g.attached = f.attached
      /\ g.memories = found \ chat.keys
  <2>. DEFINE m == found \ chat.keys
  <2>1. m \in SUBSET Memories
    OBVIOUS
  <2>2. g = [f EXCEPT !.stage = "search", !.memories = m]
    OBVIOUS
  <2>. HIDE DEF m, g
  <2>3. LET k == [f EXCEPT !.stage = "search", !.memories = m] IN
        k \in FlowType /\ k.id = f.id /\ k.stage = "search" /\ k.attached = f.attached /\ k.memories = m
    <3>1. f \in FlowType
      BY DEF TabIInv, TabTypeOK, FlowType
    <3>. QED BY <2>1, <3>1 DEF FlowType
  <2>. QED BY <2>2, <2>3 DEF m
<1>3. flows' = (flows \ {f}) \cup {g}
  BY <1>1
<1>4. g.memories \cap chat.keys = {} /\ g.stage \notin {"listen", "send"}
  BY <1>2
<1>. HIDE DEF g
<1>5. f.stage = "memories" /\ UNCHANGED <<chat, messages, listeners, live, sent>> /\ Late' = Late
  BY DEF MemoriesReply, Late
<1>. QED BY <1>2, <1>3, <1>4, <1>5, FlowsOnly

(* A continuation that finds its stream gone, or its request sent, ends.   *)
LEMMA FlowEnds ==
  ASSUME TabIInv, NEW f \in flows, EndFlow(f), live' = live \/ live' = live \cup {f.id},
         UNCHANGED <<chat, messages, listeners, sent>>, Late' = Late
  PROVE  TabIInv'
<1>. DEFINE g == [f EXCEPT !.stage = "index"]
<1>1. /\ g \in FlowType /\ g.id = f.id /\ g.stage = "index" /\ g.attached = f.attached
  BY FlowMoved
<1>2. flows' = flows \ {f}
  BY DEF EndFlow
<1>. HIDE DEF g
<1>. QED BY <1>1, <1>2, FlowsOnly

LEMMA SendReplyStep == ASSUME TabIInv, NEW f \in flows, SendReply(f) PROVE TabIInv'
  BY FlowEnds DEF SendReply, Late

LEMMA ListenStep == ASSUME TabIInv, NEW f \in flows, ListenReply(f) PROVE TabIInv'
<1>0. f.stage = "listen" /\ UNCHANGED <<messages, live, sent>> /\ Late' = Late
  BY DEF ListenReply, Late
<1>1. CASE ~(chat.open /\ chat.stream = f.id)
  <2>1. EndFlow(f) /\ UNCHANGED <<chat, listeners>>
    BY <1>1 DEF ListenReply
  <2>. QED BY <1>0, <2>1, FlowEnds
<1>2. CASE chat.open /\ chat.stream = f.id
  <2>. DEFINE g == [f EXCEPT !.stage = "send"]
              items == SubSeq(messages, LastAssistant(messages) + 1, Len(messages))
              p == AsksOf(ResponsesInputItems) \cup chat.chain
  <2>1. /\ flows' = (flows \ {f}) \cup {g} /\ listeners' = listeners \cup {f.id}
        /\ chat' = [chat EXCEPT !.listener = f.id, !.prompt = p]
    BY <1>2 DEF ListenReply, Stage
  <2>2. g \in FlowType /\ g.id = f.id /\ g.stage = "send" /\ g.attached = f.attached
    BY FlowMoved
  <2>. HIDE DEF g
  <2>3. /\ flows' \subseteq FlowType
        /\ \A h \in flows' : h.id <= sent /\ h.id \in 1 .. MaxSends
        /\ \A h, k \in flows' : h.id = k.id => h = k
        /\ \A h \in flows' : h.id \notin live
        /\ \A h \in flows' : h = g \/ (h \in flows /\ h.id # f.id)
        /\ Answering => \A h \in flows' : h.id # chat.stream
    BY <2>1, <2>2, FlowsAfter
  <2>4. messages \in Seq(MessageType) /\ chat \in ChatType /\ f.id \in 1 .. MaxSends
    BY DEF TabIInv, TabTypeOK, Streams
  <2>5. /\ messages # <<>> /\ messages[Len(messages)].kind = "user"
        /\ messages[Len(messages)].id = f.id /\ ~Answering
    BY <1>2, QuestionLast
  <2>6. p \subseteq MessageType
    <3>1. AsksOf(messages) \subseteq MessageType /\ AsksOf(messages) = Before(messages) \cup AsksOf(items)
      BY <2>4, AsksOfIs, BeforeAndAfter
    <3>2. AsksOf(ResponsesInputItems) = AsksOf(messages) \/ AsksOf(ResponsesInputItems) = AsksOf(items)
      BY DEF ResponsesInputItems
    <3>3. chat.chain \subseteq MessageType
      BY <2>4 DEF ChatType
    <3>. QED BY <3>1, <3>2, <3>3
  <2>7. ASSUME Late = {} PROVE p = AsksOf(messages)
    <3>1. AsksOf(messages) = Before(messages) \cup AsksOf(items)
      BY <2>4, BeforeAndAfter
    <3>2. /\ Statement \subseteq AsksOf(messages)
          /\ chat.chain # NoChain =>
               Before(messages) \subseteq chat.chain /\ chat.chain \subseteq Before(messages) \cup Statement
      BY <1>0, <1>2, <2>5, <2>7 DEF TabIInv, ChainInv
    <3>3. CASE chat.chain = NoChain
      <4>1. p = AsksOf(messages) \cup {}
        BY <3>3 DEF ResponsesInputItems, NoChain
      <4>. QED BY <4>1
    <3>4. CASE chat.chain # NoChain
      <4>1. p = AsksOf(items) \cup chat.chain
        BY <3>4 DEF ResponsesInputItems
      <4>. HIDE DEF p, items
      <4>. QED BY <3>1, <3>2, <3>4, <4>1
    <3>. QED BY <3>3, <3>4
  <2>. HIDE DEF p
  <2>8. /\ chat' \in ChatType /\ chat'.listener = f.id /\ chat'.prompt = p
        /\ chat'.open = chat.open /\ chat'.shown = chat.shown /\ chat'.stream = chat.stream
        /\ chat'.error = chat.error /\ chat'.output = chat.output /\ chat'.attached = chat.attached
        /\ chat'.chain = chat.chain /\ chat'.keys = chat.keys /\ chat'.cost = chat.cost
    <3>1. f.id \in 0 .. MaxSends
      BY <2>4, BudgetIs
    <3>. QED BY <2>1, <2>4, <2>6, <3>1 DEF ChatType
  <2>9. messages' = messages /\ live' = live /\ sent' = sent /\ Late' = Late
    BY <1>0
  <2>10. TabTypeOK'
    <3>1. listeners' \subseteq Streams
      BY <2>1, <2>4 DEF TabIInv, TabTypeOK, Streams
    <3>. QED BY <2>3, <2>8, <2>9, <3>1 DEF TabIInv, TabTypeOK, FlowType
  <2>11. OwnerInv'
    <3>1. ListenersAreOwned'
      <4>1. listeners = {chat.listener} \ {0} /\ chat.listener \in {0, chat.stream}
        BY DEF TabIInv, OwnerInv, ListenersAreOwned
      <4>2. f.id # 0
        BY <2>4
      <4>. QED BY <1>2, <2>1, <2>8, <4>1, <4>2 DEF ListenersAreOwned
    <3>3. /\ chat'.shown => chat'.open
          /\ ~chat'.open => chat'.stream = 0 /\ messages' = <<>> /\ chat'.keys = {}
          /\ chat'.error => chat'.stream = 0
          /\ chat'.stream <= sent' /\ \A x \in live' : x <= sent'
      BY <2>8, <2>9 DEF TabIInv, OwnerInv
    <3>. QED BY <2>3, <2>9, <3>1, <3>3 DEF OwnerInv
  <2>12. MessagesInv' /\ ~Answering'
    BY <2>3, <2>5, <2>8, <2>9 DEF TabIInv, MessagesInv, Answering
  <2>13. KeysInv'
    BY <2>8, <2>9 DEF TabIInv, KeysInv
  <2>14. MemoriesInv'
    BY <1>2, <2>2, <2>3, <2>8, <2>9 DEF TabIInv, MemoriesInv
  <2>15. ChainInv'
    <3>. SUFFICES ASSUME Late' = {} PROVE ChainInv'
      BY DEF ChainInv
    <3>0. Late = {} /\ f.id # 0
      BY <2>4, <2>9
    <3>1. Statement' = Statement
      BY <2>8 DEF Statement
    <3>2. /\ \A i \in 1 .. Len(messages) : IsAttached(messages[i]) => messages[i] \in Statement
          /\ f.attached = chat.attached /\ Statement \subseteq AsksOf(messages)
          /\ chat.output => Answering
          /\ chat.chain # NoChain =>
                Before(messages) \subseteq chat.chain /\ chat.chain \subseteq Before(messages) \cup Statement
      BY <1>0, <1>2, <2>5, <3>0 DEF TabIInv, ChainInv
    <3>3. \A h \in flows' : h.id = chat'.stream => h = g
      BY <1>2, <2>3, <2>8
    <3>4. \A h \in flows' : h.id = chat'.stream =>
             /\ h.attached = chat'.attached
             /\ h.stage \in {"listen", "send"} => Statement' \subseteq AsksOf(messages')
             /\ chat'.prompt # {} => h.stage = "send"
      BY <2>2, <2>8, <2>9, <3>1, <3>2, <3>3
    <3>5. chat'.prompt # {} => chat'.stream # 0 /\ chat'.prompt = AsksOf(messages')
      BY <1>2, <2>7, <2>8, <2>9, <3>0
    <3>. QED BY <2>5, <2>8, <2>9, <2>12, <3>1, <3>2, <3>4, <3>5 DEF ChainInv
  <2>. QED BY <2>10, <2>11, <2>12, <2>13, <2>14, <2>15 DEF TabIInv
<1>. QED BY <1>1, <1>2

(* The active request is given up or done: nothing is awaited any more.    *)
LEMMA Stopped ==
  ASSUME TabIInv,
         chat' \in ChatType, chat'.open = chat.open, chat'.shown = chat.shown, chat'.stream = 0,
         chat'.output = FALSE, chat'.prompt = {}, chat'.listener = 0, chat'.keys = chat.keys,
         chat'.cost = chat.cost, chat'.attached = chat.attached,
         listeners' = listeners \ {chat.listener},
         messages' = messages, sent' = sent, live' \subseteq live, flows' \subseteq flows,
         Late \subseteq Late',
         Late' = {} /\ chat'.chain # NoChain =>
           Before(messages) \subseteq chat'.chain /\ chat'.chain \subseteq Before(messages) \cup Statement
  PROVE  TabIInv'
<1>1. TabTypeOK'
  <2>1. listeners' \subseteq Streams /\ live' \subseteq Streams /\ flows' \subseteq FlowType
    BY DEF TabIInv, TabTypeOK, FlowType
  <2>. QED BY <2>1 DEF TabIInv, TabTypeOK, FlowType
<1>2. \A h \in flows' : h.id \in 1 .. MaxSends /\ h.id # chat'.stream
  <2>1. \A h \in flows' : h.id \in 1 .. MaxSends
    BY DEF TabIInv, TabTypeOK, Streams
  <2>. QED BY <2>1
<1>3. OwnerInv'
  <2>1. ListenersAreOwned'
    BY DEF TabIInv, OwnerInv, ListenersAreOwned
  <2>2. chat'.stream <= sent'
    BY DEF TabIInv, TabTypeOK
  <2>. QED BY <2>1, <2>2 DEF TabIInv, OwnerInv
<1>4. MessagesInv' /\ ~Answering'
  BY DEF TabIInv, MessagesInv, Answering
<1>5. KeysInv'
  BY DEF TabIInv, KeysInv
<1>6. MemoriesInv'
  BY <1>2 DEF TabIInv, MemoriesInv
<1>7. ChainInv'
  <2>. SUFFICES ASSUME Late' = {} PROVE ChainInv'
    BY DEF ChainInv
  <2>0. Late = {}
    OBVIOUS
  <2>1. Statement' = Statement
    BY DEF Statement
  <2>2. \A i \in 1 .. Len(messages) : IsAttached(messages[i]) => messages[i] \in Statement
    BY <2>0 DEF TabIInv, ChainInv
  <2>. QED BY <1>2, <2>1, <2>2 DEF ChainInv
<1>. QED BY <1>1, <1>3, <1>4, <1>5, <1>6, <1>7 DEF TabIInv

(* The chain an idle or unanswered conversation has.                       *)
LEMMA ChainIs ==
  ASSUME TabIInv, Late = {}, ~Answering, chat.chain # NoChain
  PROVE  Before(messages) \subseteq chat.chain /\ chat.chain \subseteq Before(messages) \cup Statement
  BY DEF TabIInv, ChainInv

LEMMA TabReset ==
  ASSUME NEW t \in ChatType
  PROVE  LET r == [ActiveRequestReset(t) EXCEPT !.listener = 0] IN
         /\ r \in ChatType /\ r.open = t.open /\ r.shown = t.shown /\ r.stream = 0
         /\ r.output = FALSE /\ r.prompt = {} /\ r.listener = 0 /\ r.keys = t.keys
         /\ r.cost = t.cost /\ r.attached = t.attached /\ r.error = t.error /\ r.chain = t.chain
<1>1. 0 \in 0 .. MaxSends
  BY BudgetIs
<1>. QED BY <1>1 DEF ActiveRequestReset, ChatType

LEMMA FailStep == ASSUME TabIInv, NEW f \in flows, FlowFails(f) PROVE TabIInv'
<1>0. f.stage \in {"listen", "send"} /\ EndFlow(f) /\ UNCHANGED <<messages, live, sent>>
  BY DEF FlowFails
<1>1. CASE ~chat.open
  <2>1. UNCHANGED <<chat, listeners>> /\ Late' = Late
    BY <1>1 DEF FlowFails, Late
  <2>. QED BY <1>0, <2>1, FlowEnds
<1>2. CASE chat.open
  <2>1. /\ listeners' = listeners \ {chat.listener}
        /\ chat' = [ActiveRequestReset(chat) EXCEPT !.listener = 0, !.error = TRUE]
        /\ gaps' = IF chat.stream \notin {0, f.id} THEN gaps \cup {"kill"} ELSE gaps
    BY <1>2 DEF FlowFails, CallUnlistenSafely
  <2>2. chat \in ChatType
    BY DEF TabIInv, TabTypeOK
  <2>3. /\ chat' \in ChatType /\ chat'.open = chat.open /\ chat'.shown = chat.shown /\ chat'.stream = 0
        /\ chat'.output = FALSE /\ chat'.prompt = {} /\ chat'.listener = 0 /\ chat'.keys = chat.keys
        /\ chat'.cost = chat.cost /\ chat'.attached = chat.attached /\ chat'.chain = chat.chain
    <3>1. 0 \in 0 .. MaxSends
      BY BudgetIs
    <3>. QED BY <2>1, <2>2, <3>1 DEF ActiveRequestReset, ChatType
  <2>4. Late \subseteq Late' /\ (Late' = {} => chat.stream \in {0, f.id})
    BY <2>1 DEF Late
  <2>5. ASSUME Late' = {}, chat'.chain # NoChain
        PROVE  Before(messages) \subseteq chat'.chain /\ chat'.chain \subseteq Before(messages) \cup Statement
    <3>1. Late = {} /\ chat.stream \in {0, f.id}
      BY <2>4, <2>5
    <3>2. ~Answering
      BY <3>1, QuestionLast DEF Answering
    <3>. QED BY <2>3, <2>5, <3>1, <3>2, ChainIs
  <2>6. flows' \subseteq flows
    BY <1>0 DEF EndFlow
  <2>. QED BY <1>0, <2>1, <2>3, <2>4, <2>5, <2>6, Stopped
<1>. QED BY <1>1, <1>2

(* Events of streams nobody listens to.                                    *)
LEMMA Unheard ==
  ASSUME TabIInv, live' \subseteq live, UNCHANGED <<chat, messages, flows, listeners, sent>>,
         Late' = Late
  PROVE  TabIInv'
<1>1. /\ chat' = chat /\ messages' = messages /\ flows' = flows /\ listeners' = listeners
      /\ sent' = sent /\ Late' = Late
  OBVIOUS
<1>2. TabTypeOK'
  BY <1>1 DEF TabIInv, TabTypeOK
<1>3. OwnerInv'
  BY <1>1 DEF TabIInv, OwnerInv, ListenersAreOwned
<1>4. MessagesInv' /\ KeysInv' /\ MemoriesInv'
  BY <1>1 DEF TabIInv, MessagesInv, KeysInv, MemoriesInv, Answering
<1>5. ChainInv'
  BY <1>1 DEF TabIInv, ChainInv, Statement, Answering
<1>. QED BY <1>2, <1>3, <1>4, <1>5 DEF TabIInv

LEMMA DoneStep == ASSUME TabIInv, NEW s \in live, OnStreamDone(s) PROVE TabIInv'
<1>1. PICK responses \in BOOLEAN :
        Finish(s, [chat EXCEPT !.chain = IF responses /\ chat.output THEN chat.prompt ELSE NoChain])
  BY DEF OnStreamDone
<1>. DEFINE c == IF responses /\ chat.output THEN chat.prompt ELSE NoChain
            t == [chat EXCEPT !.chain = c]
<1>2. /\ live' = live \ {s} /\ UNCHANGED <<messages, flows, sent>> /\ Late' = Late
      /\ Heard(s) => /\ chat' = [ActiveRequestReset(t) EXCEPT !.listener = 0]
                     /\ listeners' = listeners \ {chat.listener}
      /\ ~Heard(s) => UNCHANGED <<chat, listeners>>
  BY <1>1 DEF Finish, CallUnlistenSafely, Late
<1>3. CASE ~Heard(s)
  BY <1>2, <1>3, Unheard
<1>4. CASE Heard(s)
  <2>1. chat \in ChatType /\ messages \in Seq(MessageType)
    BY DEF TabIInv, TabTypeOK
  <2>2. c \subseteq MessageType
    BY <2>1 DEF ChatType, NoChain
  <2>3. ASSUME Late = {}, c # NoChain PROVE c = Before(messages)
    <3>1. chat.output /\ c = chat.prompt /\ c # {}
      BY <2>3 DEF NoChain
    <3>2. Answering /\ chat.prompt = AsksOf(messages)
      BY <2>3, <3>1 DEF TabIInv, ChainInv
    <3>. QED BY <2>1, <3>1, <3>2, BeforeTheEnd DEF Answering
  <2>. HIDE DEF c
  <2>4. /\ t \in ChatType /\ t.open = chat.open /\ t.shown = chat.shown /\ t.keys = chat.keys
        /\ t.cost = chat.cost /\ t.attached = chat.attached /\ t.chain = c
    BY <2>1, <2>2 DEF ChatType
  <2>. HIDE DEF t
  <2>5. /\ chat' \in ChatType /\ chat'.open = chat.open /\ chat'.shown = chat.shown /\ chat'.stream = 0
        /\ chat'.output = FALSE /\ chat'.prompt = {} /\ chat'.listener = 0 /\ chat'.keys = chat.keys
        /\ chat'.cost = chat.cost /\ chat'.attached = chat.attached /\ chat'.chain = c
    BY <1>2, <1>4, <2>4, TabReset
  <2>. QED BY <1>2, <1>4, <2>1, <2>3, <2>5, Stopped
<1>. QED BY <1>3, <1>4

LEMMA ErrorStep == ASSUME TabIInv, NEW s \in live, OnStreamError(s) PROVE TabIInv'
<1>. DEFINE t == [ResponseChainReset(chat) EXCEPT !.error = TRUE]
<1>2. /\ live' = live \ {s} /\ UNCHANGED <<messages, flows, sent>> /\ Late' = Late
      /\ Heard(s) => /\ chat' = [ActiveRequestReset(t) EXCEPT !.listener = 0]
                     /\ listeners' = listeners \ {chat.listener}
      /\ ~Heard(s) => UNCHANGED <<chat, listeners>>
  BY DEF OnStreamError, Finish, CallUnlistenSafely, Late
<1>3. CASE ~Heard(s)
  BY <1>2, <1>3, Unheard
<1>4. CASE Heard(s)
  <2>1. chat \in ChatType
    BY DEF TabIInv, TabTypeOK
  <2>4. /\ t \in ChatType /\ t.open = chat.open /\ t.shown = chat.shown /\ t.keys = chat.keys
        /\ t.cost = chat.cost /\ t.attached = chat.attached /\ t.chain = NoChain
    BY <2>1 DEF ChatType, ResponseChainReset, NoChain
  <2>. HIDE DEF t
  <2>5. /\ chat' \in ChatType /\ chat'.open = chat.open /\ chat'.shown = chat.shown /\ chat'.stream = 0
        /\ chat'.output = FALSE /\ chat'.prompt = {} /\ chat'.listener = 0 /\ chat'.keys = chat.keys
        /\ chat'.cost = chat.cost /\ chat'.attached = chat.attached /\ chat'.chain = NoChain
    BY <1>2, <1>4, <2>4, TabReset
  <2>. QED BY <1>2, <1>4, <2>1, <2>5, Stopped
<1>. QED BY <1>3, <1>4

LEMMA CancelStreamStep == TabIInv /\ CancelStream => TabIInv'
<1>. SUFFICES ASSUME TabIInv, CancelStream PROVE TabIInv'
  OBVIOUS
<1>1. /\ chat' = [ResponseChainReset(ActiveRequestReset(chat)) EXCEPT !.listener = 0]
      /\ listeners' = listeners \ {chat.listener}
      /\ live' \subseteq live /\ UNCHANGED <<messages, flows, sent>> /\ Late' = Late
  BY DEF CancelStream, CallUnlistenSafely, Cancel, Late
<1>2. chat \in ChatType
  BY DEF TabIInv, TabTypeOK
<1>3. /\ chat' \in ChatType /\ chat'.open = chat.open /\ chat'.shown = chat.shown /\ chat'.stream = 0
      /\ chat'.output = FALSE /\ chat'.prompt = {} /\ chat'.listener = 0 /\ chat'.keys = chat.keys
      /\ chat'.cost = chat.cost /\ chat'.attached = chat.attached /\ chat'.chain = NoChain
  <2>1. 0 \in 0 .. MaxSends
    BY BudgetIs
  <2>. QED BY <1>1, <1>2, <2>1 DEF ResponseChainReset, ActiveRequestReset, ChatType, NoChain
<1>. QED BY <1>1, <1>2, <1>3, Stopped

LEMMA ChunkStep == ASSUME TabIInv, NEW s \in live, OnStreamChunk(s) PROVE TabIInv'
<1>1. /\ Heard(s)
      /\ \E answers \in BOOLEAN : chat' = [chat EXCEPT !.output = @ \/ answers]
      /\ messages' = IF messages[Len(messages)].kind = "assistant" THEN messages
                     ELSE Append(messages, Message("assistant", s, {}))
      /\ UNCHANGED <<flows, listeners, live, sent>> /\ Late' = Late
  BY DEF OnStreamChunk, Last, Late
<1>2. /\ chat.stream = s /\ s \in 1 .. MaxSends /\ s # 0 /\ chat \in ChatType
  <2>1. s \in 1 .. MaxSends
    BY DEF TabIInv, TabTypeOK, Streams
  <2>. QED BY <1>1, <2>1 DEF Heard, TabIInv, TabTypeOK
<1>3. PICK answers \in BOOLEAN : chat' = [chat EXCEPT !.output = @ \/ answers]
  BY <1>1
<1>4. /\ chat' \in ChatType /\ chat'.stream = chat.stream /\ chat'.prompt = chat.prompt
      /\ chat'.open = chat.open /\ chat'.shown = chat.shown /\ chat'.listener = chat.listener
      /\ chat'.error = chat.error /\ chat'.attached = chat.attached
      /\ chat'.chain = chat.chain /\ chat'.keys = chat.keys /\ chat'.cost = chat.cost
  <2>. DEFINE b == chat.output \/ answers
  <2>1. b \in BOOLEAN /\ chat' = [chat EXCEPT !.output = b]
    BY <1>3
  <2>. HIDE DEF b
  <2>. QED BY <1>2, <2>1 DEF ChatType
<1>5. \A h \in flows' : h.id # chat'.stream
  BY <1>1, <1>2, <1>4 DEF TabIInv, OwnerInv
<1>6. /\ Shape(messages, sent) /\ messages # <<>> /\ messages[Len(messages)].id = s
      /\ messages[Len(messages)].kind \in {"user", "assistant"}
  BY <1>2 DEF TabIInv, MessagesInv, Shape
<1>7. /\ Shape(messages', sent) /\ messages' # <<>>
      /\ messages'[Len(messages')].kind = "assistant" /\ messages'[Len(messages')].id = s
      /\ KeysIn(messages') = KeysIn(messages) /\ AsksOf(messages') = AsksOf(messages)
      /\ \A i \in 1 .. Len(messages') :
            IsAttached(messages'[i]) => i \in 1 .. Len(messages) /\ messages'[i] = messages[i]
      /\ \A C : Apart(messages, C) => Apart(messages', C)
  <2>1. CASE messages[Len(messages)].kind = "assistant"
    <3>1. messages' = messages
      BY <1>1, <2>1
    <3>. QED BY <1>6, <2>1, <3>1
  <2>2. CASE messages[Len(messages)].kind = "user"
    <3>1. messages' = Append(messages, Message("assistant", s, {}))
      BY <1>1, <2>2
    <3>2. LET ns == Append(messages, Message("assistant", s, {})) IN
          /\ Shape(ns, sent) /\ ns # <<>> /\ ns[Len(ns)] = Message("assistant", s, {})
          /\ ns[Len(ns)].kind = "assistant" /\ ns[Len(ns)].id = s
          /\ KeysIn(ns) = KeysIn(messages) /\ AsksOf(ns) = AsksOf(messages)
          /\ \A i \in 1 .. Len(ns) : IsAttached(ns[i]) => i \in 1 .. Len(messages) /\ ns[i] = messages[i]
          /\ \A C : Apart(messages, C) => Apart(ns, C)
      BY <1>2, <1>6, <2>2, AnswerBegins
    <3>. QED BY <3>1, <3>2
  <2>. QED BY <1>6, <2>1, <2>2
<1>8. /\ flows' = flows /\ listeners' = listeners /\ live' = live
      /\ sent' = sent /\ Late' = Late
  BY <1>1
<1>9. TabTypeOK'
  BY <1>4, <1>7, <1>8 DEF TabIInv, TabTypeOK, Shape
<1>10. OwnerInv'
  <2>1. ListenersAreOwned'
    BY <1>4, <1>8 DEF TabIInv, OwnerInv, ListenersAreOwned
  <2>2. chat'.open
    BY <1>1, <1>4 DEF Heard
  <2>. QED BY <1>4, <1>8, <2>1, <2>2 DEF TabIInv, OwnerInv
<1>11. MessagesInv' /\ Answering'
  BY <1>2, <1>4, <1>5, <1>7, <1>8 DEF MessagesInv, Answering
<1>12. KeysInv'
  BY <1>4, <1>7 DEF TabIInv, KeysInv
<1>13. MemoriesInv'
  BY <1>4, <1>5, <1>7, <1>8 DEF TabIInv, MemoriesInv
<1>14. ChainInv'
  <2>. SUFFICES ASSUME Late' = {} PROVE ChainInv'
    BY DEF ChainInv
  <2>0. Late = {}
    BY <1>8
  <2>1. Statement' = Statement
    BY <1>4 DEF Statement
  <2>2. \A i \in 1 .. Len(messages') : IsAttached(messages'[i]) => messages'[i] \in Statement'
    BY <1>7, <2>0, <2>1 DEF TabIInv, ChainInv
  <2>3. chat'.prompt # {} => chat'.stream # 0 /\ chat'.prompt = AsksOf(messages')
    BY <1>4, <1>7, <2>0 DEF TabIInv, ChainInv
  <2>. QED BY <1>5, <1>11, <2>2, <2>3 DEF ChainInv
<1>. QED BY <1>9, <1>10, <1>11, <1>12, <1>13, <1>14 DEF TabIInv

LEMMA ContextApplied ==
  ASSUME NEW f, NEW chunks, ApplyCurrentTurnContext(f, chunks)
  PROVE  /\ messages' = UpsertPromptOnly(
                           AppendContextMessage(
                             AppendContextMessage(messages, f.id, Message("schema-context", f.id, chunks)),
                             f.id, Message("memory-context", f.id, f.memories)),
                           f.id, f.attached)
         /\ chat' = [chat EXCEPT !.keys = @ \cup chunks \cup f.memories,
                                !.cost = @ + Cardinality(chunks)]
         /\ gaps' = IF chat.stream # f.id THEN gaps \cup {"stray"} ELSE gaps
  BY DEF ApplyCurrentTurnContext, UpdateIndices

(* The context found for a turn is put in the conversation, also when the  *)
(* turn's stream is no longer the active one.                              *)
LEMMA Recorded ==
  ASSUME TabIInv, NEW f \in flows, f.stage = "search", chat.open, NEW mem \in SUBSET Memories,
         mem \subseteq f.memories,
         NEW chunks \in SUBSET (Chunks \ chat.keys), chat.cost + Cardinality(chunks) <= Budget,
         ApplyCurrentTurnContext([f EXCEPT !.memories = mem], chunks),
         IF chat.stream = f.id THEN Stage(f, "listen") ELSE EndFlow(f),
         UNCHANGED <<listeners, live, sent>>
  PROVE  TabIInv'
<1>. DEFINE d  == [f EXCEPT !.memories = mem]
            g  == [f EXCEPT !.stage = "listen"]
            e1 == Message("schema-context", f.id, chunks)
            e2 == Message("memory-context", f.id, mem)
            m1 == AppendContextMessage(messages, f.id, e1)
            m2 == AppendContextMessage(m1, f.id, e2)
<1>0. f \in FlowType /\ chat \in ChatType /\ messages \in Seq(MessageType)
  BY DEF TabIInv, TabTypeOK, FlowType
<1>1. d.id = f.id /\ d.memories = mem /\ d.attached = f.attached /\ f.attached \in 0 .. MaxContexts
      /\ f.id \in 1 .. MaxSends
  BY <1>0 DEF FlowType, Streams
<1>2. /\ messages' = UpsertPromptOnly(m2, f.id, f.attached)
      /\ chat' = [chat EXCEPT !.keys = @ \cup chunks \cup mem, !.cost = @ + Cardinality(chunks)]
      /\ gaps' = IF chat.stream # f.id THEN gaps \cup {"stray"} ELSE gaps
  <2>1. ApplyCurrentTurnContext(d, chunks)
    OBVIOUS
  <2>. HIDE DEF d
  <2>. QED BY <1>1, <2>1, ContextApplied
<1>3. g \in FlowType /\ g.id = f.id /\ g.stage = "listen" /\ g.attached = f.attached
  BY FlowMoved
<1>4. /\ chat.stream = f.id => flows' = (flows \ {f}) \cup {g}
      /\ chat.stream # f.id => flows' = flows \ {f}
  BY DEF Stage, EndFlow
<1>. HIDE DEF d, g
<1>5. /\ flows' \subseteq FlowType
      /\ \A h \in flows' : h.id <= sent /\ h.id \in 1 .. MaxSends
      /\ \A h, k \in flows' : h.id = k.id => h = k
      /\ \A h \in flows' : h.id \notin live
      /\ \A h \in flows' : h = g \/ (h \in flows /\ h.id # f.id)
      /\ Answering => \A h \in flows' : h.id # chat.stream
  <2>1. flows' = flows \ {f} \/ flows' = (flows \ {f}) \cup {g}
    BY <1>4
  <2>. QED BY <1>3, <2>1, FlowsAfter
<1>6. /\ e1 \in MessageType /\ e1.kind \in ContextKinds /\ e1.keys = chunks
      /\ e2 \in MessageType /\ e2.kind \in ContextKinds /\ e2.keys = mem
  <2>1. f.id \in 0 .. MaxSends + MaxContexts /\ chunks \in SUBSET Keys /\ mem \in SUBSET Keys
    BY <1>1, BudgetIs DEF Keys
  <2>2. "schema-context" \in ContextKinds /\ "memory-context" \in ContextKinds
    BY DEF ContextKinds
  <2>. QED BY <2>1, <2>2, MessageOK
<1>. HIDE DEF e1, e2
<1>7. Shape(messages, sent) /\ sent' = sent
  BY DEF TabIInv, MessagesInv
<1>8. /\ Shape(m1, sent)
      /\ messages = <<>> => m1 = <<>>
      /\ messages # <<>> => m1 # <<>> /\ m1[Len(m1)] = messages[Len(messages)]
      /\ KeysIn(m1) \subseteq KeysIn(messages) \cup chunks
      /\ IndexOfUser(messages, f.id) # 0 =>
           KeysIn(m1) = KeysIn(messages) \cup chunks /\ IndexOfUser(m1, f.id) # 0
      /\ \A m : IsAttached(m) => (m \in AsksOf(m1) <=> m \in AsksOf(messages))
      /\ messages # <<>> /\ messages[Len(messages)].kind = "user" /\ messages[Len(messages)].id = f.id
           => Before(m1) = Before(messages)
      /\ \A C : Apart(messages, C) /\ chunks \cap KeysIn(messages) \cap C = {} => Apart(m1, C)
  BY <1>6, <1>7, ContextAdded
<1>. HIDE DEF m1
<1>9. /\ Shape(m2, sent)
      /\ m1 = <<>> => m2 = <<>>
      /\ m1 # <<>> => m2 # <<>> /\ m2[Len(m2)] = m1[Len(m1)]
      /\ KeysIn(m2) \subseteq KeysIn(m1) \cup mem
      /\ IndexOfUser(m1, f.id) # 0 => KeysIn(m2) = KeysIn(m1) \cup mem
      /\ \A m : IsAttached(m) => (m \in AsksOf(m2) <=> m \in AsksOf(m1))
      /\ m1 # <<>> /\ m1[Len(m1)].kind = "user" /\ m1[Len(m1)].id = f.id => Before(m2) = Before(m1)
      /\ \A C : Apart(m1, C) /\ mem \cap KeysIn(m1) \cap C = {} => Apart(m2, C)
  BY <1>6, <1>8, ContextAdded
<1>. HIDE DEF m2
<1>. DEFINE S == {Message("attached-context", w, {}) : w \in {f.attached} \ {0}}
<1>10. /\ Shape(messages', sent)
       /\ m2 = <<>> => messages' = <<>>
       /\ m2 # <<>> => messages' # <<>> /\ messages'[Len(messages')] = m2[Len(m2)]
       /\ KeysIn(messages') = KeysIn(m2)
       /\ \A C : Apart(m2, C) => Apart(messages', C)
       /\ /\ m2 # <<>> /\ m2[Len(m2)].kind = "user" /\ m2[Len(m2)].id = f.id
          /\ \A m : IsAttached(m) /\ m \in AsksOf(m2) => m \in S
          => /\ Before(messages') = Before(m2)
             /\ S \subseteq AsksOf(messages')
             /\ \A m : IsAttached(m) /\ m \in AsksOf(messages') => m \in S
  <2>. DEFINE ns == UpsertPromptOnly(m2, f.id, f.attached)
  <2>1. /\ Shape(ns, sent)
        /\ m2 = <<>> => ns = <<>>
        /\ m2 # <<>> => ns # <<>> /\ ns[Len(ns)] = m2[Len(m2)]
        /\ KeysIn(ns) = KeysIn(m2)
        /\ \A C : Apart(m2, C) => Apart(ns, C)
        /\ /\ m2 # <<>> /\ m2[Len(m2)].kind = "user" /\ m2[Len(m2)].id = f.id
           /\ \A m : IsAttached(m) /\ m \in AsksOf(m2) => m \in S
           => /\ Before(ns) = Before(m2)
              /\ S \subseteq AsksOf(ns)
              /\ \A m : IsAttached(m) /\ m \in AsksOf(ns) => m \in S
    BY <1>1, <1>9, Upserted
  <2>2. messages' = ns
    BY <1>2
  <2>. HIDE DEF ns, S
  <2>. QED BY <2>1, <2>2
<1>. HIDE DEF S
<1>11. /\ messages = <<>> => messages' = <<>>
       /\ messages # <<>> => messages' # <<>> /\ messages'[Len(messages')] = messages[Len(messages)]
  BY <1>8, <1>9, <1>10
<1>12. /\ Cardinality(chunks) \in Nat
       /\ chat' \in ChatType /\ chat'.keys = chat.keys \cup chunks \cup mem
       /\ chat'.cost = chat.cost + Cardinality(chunks)
       /\ chat'.open = chat.open /\ chat'.shown = chat.shown /\ chat'.stream = chat.stream
       /\ chat'.error = chat.error /\ chat'.output = chat.output /\ chat'.attached = chat.attached
       /\ chat'.chain = chat.chain /\ chat'.prompt = chat.prompt /\ chat'.listener = chat.listener
  <2>1. Cardinality(chunks) \in Nat
    BY ChunkSum
  <2>2. chat.cost + Cardinality(chunks) \in 0 .. Budget
    BY <1>0, <2>1, BudgetIs DEF ChatType
  <2>3. chat.keys \cup chunks \cup mem \in SUBSET Keys
    BY <1>0 DEF ChatType, Keys
  <2>. QED BY <1>0, <1>2, <2>1, <2>2, <2>3 DEF ChatType
<1>13. KeysIn(messages') \subseteq (KeysIn(messages) \cup chunks) \cup mem
  BY <1>8, <1>9, <1>10
<1>14. mem \cap Chunks = {} /\ chunks \subseteq Chunks
  BY ChatAssumption
<1>15. listeners' = listeners /\ live' = live /\ sent' = sent
  OBVIOUS
<1>16. TabTypeOK'
  <2>1. messages' \in Seq(MessageType)
    BY <1>10 DEF Shape
  <2>. QED BY <1>5, <1>12, <1>15, <2>1 DEF TabIInv, TabTypeOK, FlowType
<1>17. OwnerInv'
  <2>1. ListenersAreOwned'
    BY <1>12, <1>15 DEF TabIInv, OwnerInv, ListenersAreOwned
  <2>2. /\ chat'.open /\ (chat'.error => chat'.stream = 0) /\ chat'.stream <= sent'
        /\ \A x \in live' : x <= sent'
    BY <1>12, <1>15 DEF TabIInv, OwnerInv
  <2>. QED BY <1>5, <1>15, <2>1, <2>2 DEF OwnerInv
<1>18. (Answering' <=> Answering) /\ MessagesInv'
  <2>1. Answering' <=> Answering
    BY <1>11, <1>12 DEF Answering
  <2>2. chat'.stream # 0 => messages' # <<>> /\ messages'[Len(messages')].id = chat'.stream
    BY <1>11, <1>12 DEF TabIInv, MessagesInv
  <2>. QED BY <1>5, <1>7, <1>10, <1>12, <2>1, <2>2 DEF MessagesInv
<1>19. KeysInv'
  <2>1. /\ Apart(messages, Chunks) /\ KeysIn(messages) \cap Chunks \subseteq chat.keys
        /\ Cardinality(KeysIn(messages) \cap Chunks) <= chat.cost
    BY DEF TabIInv, KeysInv
  <2>2. Apart(messages', Chunks)
    <3>1. chunks \cap KeysIn(messages) \cap Chunks = {} /\ mem \cap KeysIn(m1) \cap Chunks = {}
      BY <1>14, <2>1
    <3>. QED BY <1>8, <1>9, <1>10, <2>1, <3>1
  <2>3. KeysIn(messages') \cap Chunks \subseteq chat'.keys
    BY <1>12, <1>13, <2>1
  <2>4. Cardinality(KeysIn(messages') \cap Chunks) <= chat'.cost
    <3>1. KeysIn(messages') \cap Chunks = (KeysIn(messages') \cap Chunks) \cap Chunks
      OBVIOUS
    <3>2. KeysIn(messages') \cap Chunks \subseteq KeysIn(messages) \cup chunks
      BY <1>13, <1>14
    <3>3. /\ Cardinality(KeysIn(messages') \cap Chunks) \in Nat
          /\ Cardinality(KeysIn(messages') \cap Chunks) <= Cardinality((KeysIn(messages) \cup chunks) \cap Chunks)
      BY <3>1, <3>2, ChunkCount
    <3>4. Cardinality((KeysIn(messages) \cup chunks) \cap Chunks)
            <= Cardinality(KeysIn(messages) \cap Chunks) + Cardinality(chunks)
      BY <1>14, ChunkSum
    <3>5. /\ Cardinality((KeysIn(messages) \cup chunks) \cap Chunks) \in Nat
          /\ Cardinality(KeysIn(messages) \cap Chunks) \in Nat
      BY ChunkCount
    <3>6. chat.cost \in Nat
      BY <1>0, BudgetIs DEF ChatType
    <3>. QED BY <1>12, <2>1, <3>3, <3>4, <3>5, <3>6
  <2>. QED BY <2>2, <2>3, <2>4 DEF KeysInv
<1>20. ASSUME Late' = {}
       PROVE  /\ Late = {} /\ chat.stream = f.id
              /\ messages # <<>> /\ messages[Len(messages)].kind = "user"
              /\ messages[Len(messages)].id = f.id /\ ~Answering
              /\ IndexOfUser(messages, f.id) # 0
              /\ \A h \in flows' : h.id = chat'.stream => h = g
  <2>1. Late = {} /\ chat.stream = f.id
    BY <1>2, <1>20 DEF Late
  <2>2. /\ messages # <<>> /\ messages[Len(messages)].kind = "user"
        /\ messages[Len(messages)].id = f.id /\ ~Answering
    BY <2>1, QuestionLast
  <2>3. IndexOfUser(messages, f.id) # 0
    <3>1. IndexOfUser(messages, f.id) = Len(messages) /\ Len(messages) \in 1 .. Len(messages)
      BY <1>7, <2>2, QuestionAtEnd
    <3>. QED BY <1>0, <3>1
  <2>4. \A h \in flows' : h.id = chat'.stream => h = g
    BY <1>5, <1>12, <2>1
  <2>. QED BY <2>1, <2>2, <2>3, <2>4
<1>21. MemoriesInv'
  <2>. SUFFICES ASSUME Late' = {}
                PROVE  /\ Apart(messages', Keys) /\ chat'.keys = KeysIn(messages')
                       /\ \A h \in flows' : h.stage = "search" /\ h.id = chat'.stream =>
                            h.memories \cap chat'.keys = {}
    BY DEF MemoriesInv
  <2>1. /\ Apart(messages, Keys) /\ chat.keys = KeysIn(messages) /\ f.memories \cap chat.keys = {}
    BY <1>20 DEF TabIInv, MemoriesInv
  <2>2. chat'.keys = KeysIn(messages')
    BY <1>8, <1>9, <1>10, <1>12, <1>20, <2>1
  <2>3. chunks \cap KeysIn(messages) \cap Keys = {}
    BY <2>1
  <2>4. mem \cap KeysIn(m1) \cap Keys = {}
    BY <1>8, <1>14, <2>1
  <2>5. Apart(messages', Keys)
    BY <1>8, <1>9, <1>10, <2>1, <2>3, <2>4
  <2>. QED BY <1>3, <1>20, <2>2, <2>5
<1>22. ChainInv'
  <2>. SUFFICES ASSUME Late' = {} PROVE ChainInv'
    BY DEF ChainInv
  <2>1. /\ \A i \in 1 .. Len(messages) : IsAttached(messages[i]) => messages[i] \in Statement
        /\ f.attached = chat.attached /\ chat.prompt = {} /\ ~chat.output
        /\ chat.chain # NoChain =>
              Before(messages) \subseteq chat.chain /\ chat.chain \subseteq Before(messages) \cup Statement
    BY <1>20 DEF TabIInv, ChainInv
  <2>2. S = Statement /\ Statement' = Statement
    BY <1>12, <2>1 DEF S, Statement
  <2>3. \A m : IsAttached(m) /\ m \in AsksOf(messages) => m \in S
    BY <1>0, <2>1, <2>2, AsksOfIs
  <2>4. \A m : IsAttached(m) /\ m \in AsksOf(m2) => m \in S
    BY <1>8, <1>9, <2>3
  <2>5. m1 # <<>> /\ m1[Len(m1)].kind = "user" /\ m1[Len(m1)].id = f.id
    BY <1>8, <1>20
  <2>6. m2 # <<>> /\ m2[Len(m2)].kind = "user" /\ m2[Len(m2)].id = f.id
    BY <1>9, <2>5
  <2>7. /\ Before(messages') = Before(m2) /\ S \subseteq AsksOf(messages')
        /\ \A m : IsAttached(m) /\ m \in AsksOf(messages') => m \in S
    BY <1>10, <2>4, <2>6
  <2>8. Before(messages') = Before(messages)
    BY <1>8, <1>9, <1>20, <2>5, <2>7
  <2>9. \A i \in 1 .. Len(messages') : IsAttached(messages'[i]) => messages'[i] \in Statement'
    <3>1. messages' \in Seq(MessageType)
      BY <1>10 DEF Shape
    <3>2. \A i \in 1 .. Len(messages') : IsAttached(messages'[i]) => messages'[i] \in AsksOf(messages')
      BY <3>1, AsksOfIs DEF IsAttached
    <3>. QED BY <2>2, <2>7, <3>2
  <2>10. \A h \in flows' : h.id = chat'.stream =>
            /\ h.attached = chat'.attached
            /\ h.stage \in {"listen", "send"} => Statement' \subseteq AsksOf(messages')
            /\ chat'.prompt # {} => h.stage = "send"
    BY <1>3, <1>12, <1>20, <2>1, <2>2, <2>7
  <2>11. chat'.chain # NoChain =>
            Before(messages') \subseteq chat'.chain /\ chat'.chain \subseteq Before(messages') \cup Statement'
    BY <1>12, <2>1, <2>2, <2>8
  <2>. QED BY <1>12, <2>1, <2>9, <2>10, <2>11 DEF ChainInv
<1>. QED BY <1>16, <1>17, <1>18, <1>19, <1>21, <1>22 DEF TabIInv

LEMMA SearchStep == ASSUME TabIInv, NEW f \in flows, SearchReply(f) PROVE TabIInv'
<1>0. /\ f.stage = "search" /\ UNCHANGED <<listeners, live, sent>>
      /\ IF chat.open /\ chat.stream = f.id THEN Stage(f, "listen") ELSE EndFlow(f)
  BY DEF SearchReply
<1>1. CASE ~chat.open
  <2>1. EndFlow(f) /\ UNCHANGED <<chat, messages>> /\ Late' = Late
    BY <1>0, <1>1 DEF SearchReply, Late
  <2>. QED BY <1>0, <2>1, FlowEnds
<1>2. CASE chat.open
  <2>0. f \in FlowType /\ chat.cost \in 0 .. Budget
    BY DEF TabIInv, TabTypeOK, FlowType, ChatType
  <2>1. /\ \/ \E found \in SUBSET Chunks : \E chunks \in Novel(found) : ApplyCurrentTurnContext(f, chunks)
           \/ ApplyCurrentTurnContext([f EXCEPT !.memories = {}], {})
        /\ IF chat.stream = f.id THEN Stage(f, "listen") ELSE EndFlow(f)
    BY <1>0, <1>2 DEF SearchReply
  <2>2. ASSUME NEW found \in SUBSET Chunks, NEW chunks \in Novel(found), ApplyCurrentTurnContext(f, chunks)
        PROVE  TabIInv'
    <3>1. chunks \in SUBSET (Chunks \ chat.keys) /\ chat.cost + Cardinality(chunks) <= Budget
      BY <2>2 DEF Novel
    <3>2. f.memories \in SUBSET Memories /\ [f EXCEPT !.memories = f.memories] = f
      BY <2>0 DEF FlowType
    <3>3. ApplyCurrentTurnContext([f EXCEPT !.memories = f.memories], chunks)
      BY <2>2, <3>2
    <3>. QED BY <1>0, <1>2, <2>1, <3>1, <3>2, <3>3, Recorded
  <2>3. ASSUME ApplyCurrentTurnContext([f EXCEPT !.memories = {}], {}) PROVE TabIInv'
    <3>1. {} \in SUBSET (Chunks \ chat.keys) /\ chat.cost + Cardinality({}) <= Budget
      BY <2>0, BudgetIs, FS_EmptySet
    <3>2. {} \in SUBSET Memories /\ {} \subseteq f.memories
      OBVIOUS
    <3>. QED BY <1>0, <1>2, <2>1, <2>3, <3>1, <3>2, Recorded
  <2>. QED BY <2>1, <2>2, <2>3
<1>. QED BY <1>1, <1>2

(* The attached statement is another: its message is taken out, and the    *)
(* chain is kept only if that message was the new statement's.             *)
LEMMA Swapped ==
  ASSUME TabIInv, chat.open, NEW v \in 0 .. MaxContexts, NEW c \in SUBSET MessageType,
         chat' = [chat EXCEPT !.chain = c, !.attached = v],
         messages' = RemovePromptOnly(messages), Late' = Late \cup Swap,
         UNCHANGED <<flows, listeners, live, sent>>,
         c = NoChain \/ (c = chat.chain /\ \E i \in 1 .. Len(messages) :
                                            messages[i] = Message("attached-context", v, {}))
  PROVE  TabIInv'
<1>0. chat \in ChatType /\ messages \in Seq(MessageType) /\ Shape(messages, sent)
  BY DEF TabIInv, TabTypeOK, MessagesInv
<1>1. /\ chat' \in ChatType /\ chat'.chain = c /\ chat'.attached = v
      /\ chat'.open = chat.open /\ chat'.shown = chat.shown /\ chat'.stream = chat.stream
      /\ chat'.error = chat.error /\ chat'.output = chat.output /\ chat'.keys = chat.keys
      /\ chat'.cost = chat.cost /\ chat'.prompt = chat.prompt /\ chat'.listener = chat.listener
  BY <1>0 DEF ChatType
<1>2. /\ Shape(messages', sent)
      /\ messages = <<>> => messages' = <<>>
      /\ messages # <<>> => messages' # <<>> /\ messages'[Len(messages')] = messages[Len(messages)]
      /\ KeysIn(messages') = KeysIn(messages)
      /\ \A m : m \in AsksOf(messages') <=> m \in AsksOf(messages) /\ ~IsAttached(m)
      /\ \A m : m \in Before(messages') <=> m \in Before(messages) /\ ~IsAttached(m)
      /\ \A C : Apart(messages, C) => Apart(messages', C)
  BY <1>0, Removed
<1>3. /\ flows' = flows /\ listeners' = listeners /\ live' = live /\ sent' = sent
      /\ Late' = IF chat.stream # 0 THEN Late \cup {"swap"} ELSE Late
  BY DEF Swap
<1>4. messages' \in Seq(MessageType)
  BY <1>2 DEF Shape
<1>5. TabTypeOK'
  BY <1>1, <1>3, <1>4 DEF TabIInv, TabTypeOK
<1>6. OwnerInv'
  <2>1. ListenersAreOwned'
    BY <1>1, <1>3 DEF TabIInv, OwnerInv, ListenersAreOwned
  <2>. QED BY <1>1, <1>3, <2>1 DEF TabIInv, OwnerInv
<1>7. (Answering' <=> Answering) /\ MessagesInv'
  <2>1. Answering' <=> Answering
    BY <1>1, <1>2 DEF Answering
  <2>. QED BY <1>1, <1>2, <1>3, <2>1 DEF TabIInv, MessagesInv
<1>8. KeysInv'
  BY <1>1, <1>2 DEF TabIInv, KeysInv
<1>9. MemoriesInv'
  BY <1>1, <1>2, <1>3 DEF TabIInv, MemoriesInv
<1>10. ChainInv'
  <2>. SUFFICES ASSUME Late' = {} PROVE ChainInv'
    BY DEF ChainInv
  <2>0. Late = {} /\ chat.stream = 0
    BY <1>3
  <2>1. \A h \in flows' : h.id # chat'.stream
    <3>1. \A h \in flows : h.id \in 1 .. MaxSends
      BY DEF TabIInv, TabTypeOK, Streams
    <3>2. \A h \in flows : h.id # 0
      BY <3>1
    <3>. QED BY <1>1, <1>3, <2>0, <3>2
  <2>2. /\ \A i \in 1 .. Len(messages) : IsAttached(messages[i]) => messages[i] \in Statement
        /\ chat.prompt = {} /\ ~chat.output /\ ~Answering
        /\ chat.chain # NoChain =>
              Before(messages) \subseteq chat.chain /\ chat.chain \subseteq Before(messages) \cup Statement
    BY <2>0 DEF TabIInv, ChainInv, Answering
  <2>3. \A i \in 1 .. Len(messages') : ~IsAttached(messages'[i])
    <3>1. \A i \in 1 .. Len(messages') : IsAttached(messages'[i]) => messages'[i] \in AsksOf(messages')
      BY <1>4, AsksOfIs DEF IsAttached
    <3>. QED BY <1>2, <3>1
  <2>4. ASSUME chat'.chain # NoChain
        PROVE  Before(messages') \subseteq chat'.chain /\ chat'.chain \subseteq Before(messages') \cup Statement'
    <3>1. PICK i \in 1 .. Len(messages) : messages[i] = Message("attached-context", v, {})
      BY <1>1, <2>4
    <3>2. IsAttached(messages[i]) /\ messages[i].id = v
      BY <3>1 DEF IsAttached, Message
    <3>3. \A m \in Statement : m.id = chat.attached
      BY DEF Statement, Message
    <3>4. v = chat.attached
      BY <2>2, <3>2, <3>3
    <3>5. Statement' = Statement
      BY <1>1, <3>4 DEF Statement
    <3>6. c = chat.chain /\ c # NoChain
      BY <1>1, <2>4
    <3>7. \A m \in Before(messages) : IsAttached(m) => m \in Statement
      <4>1. \A m : m \in Before(messages) <=>
               \E j \in 1 .. LastAssistant(messages) : m = messages[j] /\ m.kind # "assistant"
        BY <1>0, BeforeIs
      <4>2. \A j \in 1 .. LastAssistant(messages) : j \in 1 .. Len(messages)
        BY <1>0, LastAssistantIs
      <4>. QED BY <2>2, <4>1, <4>2
    <3>. QED BY <1>1, <1>2, <2>2, <3>5, <3>6, <3>7
  <2>. QED BY <1>1, <2>1, <2>2, <2>3, <2>4 DEF ChainInv
<1>. QED BY <1>5, <1>6, <1>7, <1>8, <1>9, <1>10 DEF TabIInv

LEMMA SetStep == TabIInv /\ SetAttachedContext => TabIInv'
<1>. SUFFICES ASSUME TabIInv, SetAttachedContext PROVE TabIInv'
  OBVIOUS
<1>0. chat \in ChatType /\ messages \in Seq(MessageType) /\ chat.open
  BY DEF TabIInv, TabTypeOK, OwnerInv, SetAttachedContext
<1>1. PICK v \in {chat.attached, chat.attached + 1} \cap (1 .. MaxContexts) :
        /\ chat' = [(IF \E i \in DOMAIN messages : messages[i] = Message("attached-context", v, {})
                    THEN chat ELSE ResponseChainReset(chat)) EXCEPT !.attached = v]
        /\ messages' = RemovePromptOnly(messages)
  BY DEF SetAttachedContext
<1>2. Late' = Late \cup Swap /\ UNCHANGED <<flows, listeners, live, sent>>
  BY DEF SetAttachedContext, Late, Swap, Overwrites
<1>3. v \in 0 .. MaxContexts /\ DOMAIN messages = 1 .. Len(messages)
  BY <1>0
<1>. DEFINE same == \E i \in DOMAIN messages : messages[i] = Message("attached-context", v, {})
            c    == IF same THEN chat.chain ELSE NoChain
<1>4. c \in SUBSET MessageType
  BY <1>0 DEF ChatType, NoChain
<1>5. c = NoChain \/ (c = chat.chain /\ \E i \in 1 .. Len(messages) :
                                          messages[i] = Message("attached-context", v, {}))
  BY <1>3
<1>6. chat' = [chat EXCEPT !.chain = c, !.attached = v]
  <2>1. CASE same
    <3>1. chat' = [chat EXCEPT !.attached = v]
      BY <1>1, <2>1
    <3>2. c = chat.chain
      BY <2>1
    <3>. HIDE DEF c
    <3>. QED BY <1>0, <3>1, <3>2 DEF ChatType
  <2>2. CASE ~same
    <3>1. chat' = [ResponseChainReset(chat) EXCEPT !.attached = v]
      BY <1>1, <2>2
    <3>2. c = NoChain
      BY <2>2
    <3>. HIDE DEF c
    <3>. QED BY <1>0, <3>1, <3>2 DEF ChatType, ResponseChainReset
  <2>. QED BY <2>1, <2>2
<1>. HIDE DEF c
<1>. QED BY <1>0, <1>1, <1>2, <1>3, <1>4, <1>5, <1>6, Swapped

LEMMA ClearAttachedStep == TabIInv /\ ClearAttachedContext => TabIInv'
<1>. SUFFICES ASSUME TabIInv, ClearAttachedContext PROVE TabIInv'
  OBVIOUS
<1>0. chat \in ChatType /\ chat.open
  BY DEF TabIInv, TabTypeOK, OwnerInv, ClearAttachedContext
<1>1. /\ chat' = [ResponseChainReset(chat) EXCEPT !.attached = 0]
      /\ messages' = RemovePromptOnly(messages) /\ Late' = Late \cup Swap
      /\ UNCHANGED <<flows, listeners, live, sent>>
  BY DEF ClearAttachedContext, Late, Swap
<1>2. chat' = [chat EXCEPT !.chain = NoChain, !.attached = 0]
  BY <1>0, <1>1 DEF ChatType, ResponseChainReset
<1>3. 0 \in 0 .. MaxContexts /\ NoChain \in SUBSET MessageType
  BY BudgetIs DEF NoChain
<1>. QED BY <1>0, <1>1, <1>2, <1>3, Swapped

(* The conversation is given up; flows that are left find nothing of it.   *)
LEMMA Emptied ==
  ASSUME TabIInv,
         chat' \in ChatType, chat'.shown => chat'.open, chat'.stream = 0, chat'.output = FALSE,
         chat'.prompt = {}, chat'.listener = 0, chat'.keys = {}, chat'.cost = 0, chat'.chain = NoChain,
         messages' = <<>>, listeners' = listeners \ {chat.listener},
         sent' = sent, live' \subseteq live, flows' = flows, Late' = Late
  PROVE  TabIInv'
<1>1. /\ Shape(messages', sent) /\ KeysIn(messages') = {} /\ \A C : Apart(messages', C)
  BY NoMessages
<1>2. KeysIn(messages') \cap Chunks = {} /\ Cardinality(KeysIn(messages') \cap Chunks) = 0
  BY NoMessages
<1>3. \A h \in flows' : h.id # chat'.stream
  <2>1. \A h \in flows : h.id \in 1 .. MaxSends
    BY DEF TabIInv, TabTypeOK, Streams
  <2>. QED BY <2>1
<1>4. TabTypeOK'
  <2>1. messages' \in Seq(MessageType) /\ listeners' \subseteq Streams /\ live' \subseteq Streams
    BY <1>1 DEF TabIInv, TabTypeOK, Shape
  <2>. QED BY <2>1 DEF TabIInv, TabTypeOK
<1>5. OwnerInv'
  <2>1. ListenersAreOwned'
    BY DEF TabIInv, OwnerInv, ListenersAreOwned
  <2>2. chat'.stream <= sent' /\ \A x \in live' : x <= sent'
    BY DEF TabIInv, OwnerInv, TabTypeOK
  <2>3. /\ \A h \in flows' : h.id <= sent' /\ h.id \notin live'
        /\ \A h, k \in flows' : h.id = k.id => h = k
    BY DEF TabIInv, OwnerInv
  <2>. QED BY <2>1, <2>2, <2>3 DEF OwnerInv
<1>6. MessagesInv'
  BY <1>1 DEF MessagesInv, Answering
<1>7. KeysInv'
  BY <1>1, <1>2 DEF KeysInv
<1>8. MemoriesInv'
  BY <1>1, <1>3 DEF MemoriesInv
<1>9. ChainInv'
  <2>1. \A i \in 1 .. Len(messages') : FALSE
    OBVIOUS
  <2>. QED BY <1>3, <2>1 DEF ChainInv, NoChain
<1>. QED BY <1>4, <1>5, <1>6, <1>7, <1>8, <1>9 DEF TabIInv

LEMMA ClearStep == TabIInv /\ ClearConversation => TabIInv'
<1>. SUFFICES ASSUME TabIInv, ClearConversation PROVE TabIInv'
  OBVIOUS
<1>1. /\ chat' = [ResponseChainReset(ActiveRequestReset(chat)) EXCEPT
                   !.listener = 0, !.error = FALSE, !.keys = {}, !.cost = 0]
      /\ messages' = <<>> /\ listeners' = listeners \ {chat.listener}
      /\ live' \subseteq live /\ flows' = flows /\ sent' = sent /\ Late' = Late
  BY DEF ClearConversation, CallUnlistenSafely, Cancel, Late
<1>2. chat \in ChatType /\ (chat.shown => chat.open)
  BY DEF TabIInv, TabTypeOK, OwnerInv
<1>3. /\ chat' \in ChatType /\ chat'.open = chat.open /\ chat'.shown = chat.shown /\ chat'.stream = 0
      /\ chat'.output = FALSE /\ chat'.prompt = {} /\ chat'.listener = 0 /\ chat'.keys = {}
      /\ chat'.cost = 0 /\ chat'.chain = NoChain
  <2>1. 0 \in 0 .. MaxSends /\ 0 \in 0 .. Budget
    BY BudgetIs
  <2>. QED BY <1>1, <1>2, <2>1 DEF ResponseChainReset, ActiveRequestReset, ChatType, NoChain
<1>. QED BY <1>1, <1>2, <1>3, Emptied

LEMMA CleanupStep == TabIInv /\ CleanupTab => TabIInv'
<1>. SUFFICES ASSUME TabIInv, CleanupTab PROVE TabIInv'
  OBVIOUS
<1>1. /\ chat' = [NewTab EXCEPT !.open = FALSE, !.shown = FALSE]
      /\ messages' = <<>> /\ listeners' = listeners \ {chat.listener}
      /\ live' \subseteq live /\ flows' = flows /\ sent' = sent /\ Late' = Late
  BY DEF CleanupTab, CallUnlistenSafely, Cancel, Late
<1>2. /\ chat' \in ChatType /\ chat'.shown = FALSE /\ chat'.stream = 0
      /\ chat'.output = FALSE /\ chat'.prompt = {} /\ chat'.listener = 0 /\ chat'.keys = {}
      /\ chat'.cost = 0 /\ chat'.chain = NoChain
  <2>1. 0 \in 0 .. MaxSends /\ 0 \in 0 .. MaxContexts /\ 0 \in 0 .. Budget
    BY BudgetIs
  <2>. QED BY <1>1, <2>1 DEF NewTab, ChatType, NoChain
<1>. QED BY <1>1, <1>2, Emptied

----------
(* The query tab's lock. The AI store takes it when a request starts and   *)
(* gives it back when it ends; whoever else writes the status over it is   *)
(* noted.                                                                  *)
QueryStore == OpenReview \/ RejectReview \/ RunStarts \/ RunEnds \/ Validates \/ Validated

LEMMA ChatSteps ==
  ASSUME ChatNext
  PROVE  \/ SendMessage \/ CancelStream \/ RetryLastMessage
         \/ SetAttachedContext \/ ClearAttachedContext \/ ClearConversation \/ CleanupTab
         \/ QueryStore
         \/ \E f \in flows : FlowStep(f) \/ FlowFails(f)
         \/ \E s \in live : OnStreamChunk(s) \/ StreamEnds(s)
  BY DEF ChatNext, ChatUser, QueryReply, QueryStore

LEMMA StoreStep ==
  ASSUME TabIInv, QueryStore
  PROVE  TabIInv'
<1>1. PICK q : Writes(q)
  BY DEF QueryStore, OpenReview, RejectReview, RunStarts, RunEnds, Validates, Validated
<1>2. UNCHANGED <<chat, messages, flows, listeners, live, sent>> /\ Late' = Late
  BY <1>1 DEF Writes, Overwrites, Late
<1>. QED BY <1>2, Unheard

LEMMA RestoredIs ==
  ASSUME NEW q \in QueryType
  PROVE  Restored(q) \in QueryType /\ ~Locked(Restored(q)) /\ Restored(q).review = q.review
  BY DEF Restored, Locked, QueryType, QueryStatus, AiStatus

LEMMA LockIs ==
  ASSUME NEW q \in QueryType, NEW status \in AiStatus
  PROVE  SetTabStatus(q, status) \in QueryType /\ Locked(SetTabStatus(q, status))
  BY DEF SetTabStatus, Locked, QueryType, QueryStatus, AiStatus

(* The active request is given up, and with it the lock.                   *)
LEMMA LockReturned ==
  ASSUME LockInv, query' = Restored(query), chat'.stream = 0,
         gaps \subseteq gaps', gaps' \subseteq gaps \cup {"kill"}
  PROVE  LockInv'
  BY RestoredIs DEF LockInv, LockedWhileGenerating, Locked

(* Steps of the request that leave the lock alone.                         *)
LEMMA LockKept ==
  ASSUME LockInv, query' = query, chat'.stream = chat.stream,
         gaps \subseteq gaps', gaps' \subseteq gaps \cup {"stray", "swap"}
  PROVE  LockInv'
  BY DEF LockInv, LockedWhileGenerating, Locked

(* The status is written by another than the AI store.                     *)
LEMMA LockWritten ==
  ASSUME LockInv, NEW q \in QueryType, query' = q, chat'.stream = chat.stream,
         gaps \cup Overwrites(q) \subseteq gaps', gaps' \subseteq gaps \cup Overwrites(q) \cup {"swap"}
  PROVE  LockInv'
<1>1. gaps' \subseteq {"stray", "swap", "kill", "unlocked", "relocked"}
  BY DEF LockInv, Overwrites
<1>2. chat'.stream # 0 => Locked(q) \/ "unlocked" \in gaps'
  <2>1. CASE Locked(query) /\ ~Locked(q)
    BY <2>1 DEF Overwrites
  <2>2. CASE ~Locked(query)
    BY <2>2 DEF LockInv, LockedWhileGenerating
  <2>. QED BY <2>1, <2>2
<1>3. Locked(q) => chat'.stream # 0 \/ q.review \/ "relocked" \in gaps'
  BY DEF Overwrites
<1>. QED BY <1>1, <1>2, <1>3 DEF LockInv, LockedWhileGenerating, Locked

LEMMA LockStep ==
  ASSUME TabIInv, LockInv, ChatNext
  PROVE  LockInv'
<1>0. query \in QueryType /\ chat \in ChatType
  BY DEF LockInv, TabIInv, TabTypeOK
<1>1. ASSUME NEW t \in ChatType, NEW ms, StartStream(t, ms), gaps' = gaps PROVE LockInv'
  <2>1. query' = SetTabStatus(query, "ai-pending") /\ chat'.stream # 0
    <3>1. sent + 1 # 0 /\ chat'.stream = sent + 1
      BY <1>1 DEF StartStream, ChatType, TabIInv, TabTypeOK
    <3>. QED BY <1>1, <3>1 DEF StartStream
  <2>2. query' \in QueryType /\ Locked(query')
    BY <1>0, <2>1, LockIs DEF AiStatus
  <2>. QED BY <1>1, <2>1, <2>2 DEF LockInv, LockedWhileGenerating, Locked
<1>2. CASE SendMessage
  BY <1>0, <1>1, <1>2 DEF SendMessage
<1>3. CASE RetryLastMessage
  <2>. DEFINE user  == LastUser(messages)
              start == TurnStart(messages, user)
              turn  == SubSeq(messages, start, user - 1)
              rest  == SubSeq(messages, 1, start - 1) \o Filter(turn, Attachments)
              t     == [ResponseChainReset(ActiveRequestReset(chat)) EXCEPT
                           !.keys = @ \ KeysIn(turn),
                           !.cost = Cardinality(KeysIn(rest) \cap Chunks)]
  <2>1. StartStream(t, rest) /\ gaps' = gaps
    BY <1>3 DEF RetryLastMessage
  <2>2. chat'.stream = sent + 1 /\ query' = SetTabStatus(query, "ai-pending")
    <3>. HIDE DEF rest, turn
    <3>1. "stream" \in DOMAIN t
      BY <1>0 DEF ChatType, ResponseChainReset, ActiveRequestReset
    <3>. HIDE DEF t
    <3>. QED BY <2>1, <3>1 DEF StartStream
  <2>3. sent + 1 # 0
    BY DEF TabIInv, TabTypeOK
  <2>4. query' \in QueryType /\ Locked(query')
    BY <1>0, <2>2, LockIs DEF AiStatus
  <2>. QED BY <2>1, <2>2, <2>3, <2>4 DEF LockInv, LockedWhileGenerating, Locked
<1>4. CASE CancelStream
  BY <1>0, <1>4, LockReturned DEF CancelStream, RestoreQueryTabStatus, ChatType, ResponseChainReset, ActiveRequestReset
<1>5. CASE SetAttachedContext
  <2>1. chat'.stream = chat.stream
    BY <1>0, <1>5 DEF SetAttachedContext, ChatType, ResponseChainReset
  <2>2. CASE query' = query /\ gaps' = gaps \cup Swap
    BY <2>1, <2>2, LockKept DEF Swap
  <2>3. CASE query' = Reviewed /\ gaps' = gaps \cup Swap \cup Overwrites(Reviewed)
    <3>1. [query EXCEPT !.review = FALSE] \in QueryType
      BY <1>0 DEF QueryType
    <3>2. Reviewed \in QueryType
      BY <3>1, RestoredIs DEF Reviewed
    <3>. QED BY <2>1, <2>3, <3>2, LockWritten DEF Swap
  <2>. QED BY <1>5, <2>2, <2>3 DEF SetAttachedContext
<1>6. CASE ClearAttachedContext
  <2>1. chat'.stream = chat.stream /\ query' = query /\ gaps' = gaps \cup Swap
    BY <1>0, <1>6 DEF ClearAttachedContext, ChatType, ResponseChainReset
  <2>. QED BY <2>1, LockKept DEF Swap
<1>7. CASE ClearConversation
  <2>1. /\ chat'.stream = 0 /\ gaps' = gaps
        /\ query' = IF chat.stream # 0 THEN Restored(query) ELSE query
    BY <1>0, <1>7 DEF ClearConversation, ChatType, ResponseChainReset, ActiveRequestReset
  <2>. QED BY <2>1, LockReturned, LockKept
<1>8. CASE CleanupTab
  <2>1. chat'.stream = 0 /\ gaps' = gaps /\ query' = [NewQuery EXCEPT !.saved = query.saved]
    BY <1>8 DEF CleanupTab, NewTab
  <2>2. query' \in QueryType /\ ~Locked(query')
    BY <1>0, <2>1 DEF NewQuery, QueryType, QueryStatus, Locked, AiStatus
  <2>. QED BY <2>1, <2>2 DEF LockInv, LockedWhileGenerating, Locked
<1>9. CASE QueryStore
  <2>1. ASSUME NEW q \in QueryType, Writes(q) PROVE LockInv'
    BY <2>1, LockWritten DEF Writes
  <2>2. [query EXCEPT !.review = FALSE] \in QueryType /\ query.saved \in QueryStatus \cup {"none"}
    BY <1>0 DEF QueryType
  <2>3. Reviewed \in QueryType
    BY <2>2, RestoredIs DEF Reviewed
  <2>4. [SetTabStatus(query, "ai-reviewing") EXCEPT !.review = TRUE] \in QueryType
    <3>1. SetTabStatus(query, "ai-reviewing") \in QueryType
      BY <1>0, LockIs DEF AiStatus
    <3>. QED BY <3>1 DEF QueryType
  <2>5. /\ [query EXCEPT !.run = TRUE, !.status = "running"] \in QueryType
        /\ [query EXCEPT !.run = FALSE, !.status = "free"] \in QueryType
        /\ [query EXCEPT !.saved = query.status, !.status = "free"] \in QueryType
    BY <1>0 DEF QueryType, QueryStatus
  <2>6. ASSUME query.saved # "none", NEW failed \in BOOLEAN
        PROVE  [query EXCEPT !.saved = "none",
                             !.status = IF chat.shown \/ failed THEN query.saved ELSE @] \in QueryType
    BY <1>0, <2>2, <2>6 DEF QueryType
  <2>. QED BY <1>9, <2>1, <2>3, <2>4, <2>5, <2>6
            DEF QueryStore, OpenReview, RejectReview, RunStarts, RunEnds, Validates, Validated
<1>10. ASSUME NEW f \in flows, FlowStep(f) \/ FlowFails(f) PROVE LockInv'
  <2>1. CASE IndexWaitEnds(f)
    <3>1. query' = query /\ gaps' = gaps /\ chat'.stream = chat.stream
      BY <2>1 DEF IndexWaitEnds, NewTab, TabIInv, OwnerInv
    <3>. QED BY <3>1, LockKept
  <2>2. CASE MemoriesReply(f) \/ SendReply(f)
    BY <2>2, LockKept DEF MemoriesReply, SendReply
  <2>3. CASE SearchReply(f)
    <3>1. ASSUME NEW d, NEW chunks, ApplyCurrentTurnContext(d, chunks)
          PROVE  /\ chat'.stream = chat.stream
                 /\ gaps \subseteq gaps' /\ gaps' \subseteq gaps \cup {"stray"}
      BY <1>0, <3>1, ContextApplied DEF ChatType
    <3>2. /\ query' = query /\ chat'.stream = chat.stream
          /\ gaps \subseteq gaps' /\ gaps' \subseteq gaps \cup {"stray"}
      BY <2>3, <3>1 DEF SearchReply
    <3>. QED BY <3>2, LockKept
  <2>4. CASE ListenReply(f)
    <3>1. query' = query /\ gaps' = gaps /\ chat'.stream = chat.stream
      BY <1>0, <2>4 DEF ListenReply, ChatType
    <3>. QED BY <3>1, LockKept
  <2>5. CASE FlowFails(f)
    <3>1. CASE chat.open
      <4>1. /\ query' = Restored(query) /\ chat'.stream = 0
            /\ gaps \subseteq gaps' /\ gaps' \subseteq gaps \cup {"kill"}
        BY <1>0, <2>5, <3>1 DEF FlowFails, RestoreQueryTabStatus, ActiveRequestReset, ChatType
      <4>. QED BY <4>1, LockReturned
    <3>2. CASE ~chat.open
      BY <2>5, <3>2, LockKept DEF FlowFails
    <3>. QED BY <3>1, <3>2
  <2>. QED BY <1>10, <2>1, <2>2, <2>3, <2>4, <2>5 DEF FlowStep
<1>11. ASSUME NEW s \in live, OnStreamChunk(s) \/ StreamEnds(s) PROVE LockInv'
  <2>1. CASE OnStreamChunk(s)
    <3>1. query' = query /\ gaps' = gaps /\ chat'.stream = chat.stream
      BY <1>0, <2>1 DEF OnStreamChunk, ChatType
    <3>. QED BY <3>1, LockKept
  <2>2. ASSUME NEW t \in ChatType, Finish(s, t) PROVE LockInv'
    <3>1. CASE Heard(s)
      <4>1. query' = Restored(query) /\ chat'.stream = 0 /\ gaps' = gaps
        BY <2>2, <3>1 DEF Finish, RestoreQueryTabStatus, ActiveRequestReset, ChatType
      <4>. QED BY <4>1, LockReturned
    <3>2. CASE ~Heard(s)
      BY <2>2, <3>2, LockKept DEF Finish
    <3>. QED BY <3>1, <3>2
  <2>3. CASE OnStreamDone(s)
    <3>1. \A c \in SUBSET MessageType : [chat EXCEPT !.chain = c] \in ChatType
      BY <1>0 DEF ChatType
    <3>2. chat.prompt \in SUBSET MessageType /\ NoChain \in SUBSET MessageType
      BY <1>0 DEF ChatType, NoChain
    <3>. QED BY <2>2, <2>3, <3>1, <3>2 DEF OnStreamDone
  <2>4. CASE OnStreamError(s)
    <3>1. [ResponseChainReset(chat) EXCEPT !.error = TRUE] \in ChatType
      BY <1>0 DEF ResponseChainReset, NoChain, ChatType
    <3>. QED BY <2>2, <2>4, <3>1 DEF OnStreamError
  <2>. QED BY <1>11, <2>1, <2>3, <2>4 DEF StreamEnds
<1>. QED BY <1>2, <1>3, <1>4, <1>5, <1>6, <1>7, <1>8, <1>9, <1>10, <1>11, ChatSteps

----------
(* Every step of the tab keeps the inductive invariant.                    *)
LEMMA ChatIInvKept == ChatSpec => []ChatIInv
<1>1. ChatIInv /\ [ChatNext]_chatVars => ChatIInv'
  <2>. SUFFICES ASSUME ChatIInv, [ChatNext]_chatVars PROVE ChatIInv'
    OBVIOUS
  <2>0. TabIInv /\ LockInv
    BY DEF ChatIInv
  <2>1. ASSUME NEW f \in flows, FlowStep(f) \/ FlowFails(f) PROVE TabIInv'
    BY <2>0, <2>1, IndexStep, MemoriesStep, SearchStep, ListenStep, SendReplyStep, FailStep DEF FlowStep
  <2>2. ASSUME NEW s \in live, OnStreamChunk(s) \/ StreamEnds(s) PROVE TabIInv'
    BY <2>0, <2>2, ChunkStep, DoneStep, ErrorStep DEF StreamEnds
  <2>3. CASE ChatNext
    <3>1. TabIInv'
      BY <2>0, <2>1, <2>2, <2>3, SendStep, CancelStreamStep, RetryStep, SetStep, ClearAttachedStep,
         ClearStep, CleanupStep, StoreStep, ChatSteps
    <3>. QED BY <2>0, <2>3, <3>1, LockStep DEF ChatIInv
  <2>4. CASE UNCHANGED chatVars
    <3>1. UNCHANGED <<chat, messages, flows, listeners, live, query, sent, gaps>>
      BY <2>4 DEF chatVars
    <3>2. TabIInv'
      BY <2>0, <3>1, Unheard DEF Late
    <3>. QED BY <2>0, <3>1, <3>2, LockKept DEF ChatIInv
  <2>. QED BY <2>3, <2>4
<1>2. ChatInit => ChatIInv
  <2>. SUFFICES ASSUME ChatInit PROVE ChatIInv
    OBVIOUS
  <2>1. query \in QueryType /\ ~Locked(query) /\ gaps = {} /\ chat.stream = 0
    BY DEF ChatInit, NewQuery, NewTab, QueryType, QueryStatus, Locked, AiStatus
  <2>. QED BY <2>1, InitInv DEF ChatIInv, LockInv, LockedWhileGenerating
<1>. QED BY <1>1, <1>2, PTL DEF ChatSpec

LEMMA ConversationFits == ChatIInv => ConversationInv
<1>. SUFFICES ASSUME ChatIInv PROVE ConversationInv
  OBVIOUS
<1>0. messages \in Seq(MessageType) /\ chat \in ChatType /\ DOMAIN messages = 1 .. Len(messages)
  BY DEF ChatIInv, TabIInv, TabTypeOK
<1>1. ChatTypeOK
  BY DEF ChatIInv, TabIInv, LockInv, TabTypeOK, ChatTypeOK
<1>2. IndexMatchesConversation
  BY DEF ChatIInv, TabIInv, MemoriesInv, IndexMatchesConversation
<1>3. ChunksOnceWithinBudget
  <2>1. \A i, j \in DOMAIN messages : messages[i].keys \cap messages[j].keys \cap Chunks # {} => i = j
    BY <1>0 DEF ChatIInv, TabIInv, KeysInv, Apart
  <2>2. Cardinality(KeysIn(messages) \cap Chunks) <= chat.cost /\ chat.cost \in 0 .. Budget
    BY <1>0 DEF ChatIInv, TabIInv, KeysInv, ChatType
  <2>3. Cardinality(KeysIn(messages) \cap Chunks) \in Nat
    BY ChunkCount
  <2>4. Cardinality(KeysIn(messages) \cap Chunks) <= Budget
    BY <2>2, <2>3, BudgetIs
  <2>. QED BY <2>1, <2>4 DEF ChunksOnceWithinBudget
<1>4. AnswersFollowTheirQuestion
  BY <1>0 DEF ChatIInv, TabIInv, MessagesInv, Shape, Answered, AnswersFollowTheirQuestion
<1>5. ListenersAreOwned /\ LockedWhileGenerating
  BY DEF ChatIInv, TabIInv, LockInv, OwnerInv
<1>. QED BY <1>1, <1>2, <1>3, <1>4, <1>5 DEF ConversationInv

(* The conversation, its dedup index and budget, the listener and the      *)
(* editor's lock fit together in every state, for any chunks, memories and *)
(* budget, however many turns overlap (applyCurrentTurnContext,            *)
(* retryLastMessage, clearConversation, cleanupTab).                       *)
THEOREM ConversationSafe == ChatSpec => []ConversationInv
  BY ChatIInvKept, ConversationFits, PTL

(* Only the reply to a listener's registration makes a prompt.             *)
LEMMA OnlyListenRequests ==
  ASSUME ChatIInv, ChatNext, Requests
  PROVE  \E f \in flows : ListenReply(f) /\ chat.open /\ chat.stream = f.id
<1>0. chat \in ChatType /\ chat'.prompt # {} /\ chat'.prompt # chat.prompt
  BY DEF ChatIInv, TabIInv, TabTypeOK, Requests
<1>1. ~SendMessage /\ ~RetryLastMessage
  BY <1>0 DEF SendMessage, RetryLastMessage, StartStream, ChatType, ResponseChainReset, ActiveRequestReset
<1>2. ~CancelStream /\ ~ClearConversation /\ ~CleanupTab
  BY <1>0 DEF CancelStream, ClearConversation, CleanupTab, ChatType, NewTab, ResponseChainReset,
     ActiveRequestReset
<1>3. ~SetAttachedContext /\ ~ClearAttachedContext
  BY <1>0 DEF SetAttachedContext, ClearAttachedContext, ChatType, ResponseChainReset
<1>4. ASSUME NEW f \in flows
      PROVE  ~IndexWaitEnds(f) /\ ~MemoriesReply(f) /\ ~SearchReply(f) /\ ~SendReply(f) /\ ~FlowFails(f)
  BY <1>0 DEF IndexWaitEnds, MemoriesReply, SearchReply, ApplyCurrentTurnContext, UpdateIndices,
     SendReply, FlowFails, ChatType, NewTab, ActiveRequestReset
<1>5. ASSUME NEW s \in live PROVE ~OnStreamChunk(s) /\ ~StreamEnds(s)
  BY <1>0 DEF OnStreamChunk, StreamEnds, OnStreamDone, OnStreamError, Finish, ChatType,
     ResponseChainReset, ActiveRequestReset
<1>8. ~QueryStore
  BY <1>0 DEF QueryStore, OpenReview, RejectReview, RunStarts, RunEnds, Validates, Validated, Writes
<1>6. PICK f \in flows : ListenReply(f)
  BY <1>1, <1>2, <1>3, <1>4, <1>5, <1>8, ChatSteps DEF FlowStep
<1>7. chat.open /\ chat.stream = f.id
  BY <1>0, <1>6 DEF ListenReply
<1>. QED BY <1>6, <1>7

(* Whichever step makes a prompt while no race was met makes it of the     *)
(* whole conversation: what is sent and the chain it builds on leave       *)
(* nothing out and hold nothing that was removed (streamForTab,            *)
(* buildResponsesInputItems).                                              *)
THEOREM PromptComplete == ChatSpec => PromptIsComplete
<1>1. ChatIInv /\ ChatIInv' /\ [ChatNext]_chatVars
        => [Requests /\ Late = {} => chat'.prompt = AsksOf(messages)]_chatVars
  <2>. SUFFICES ASSUME ChatIInv, ChatIInv', ChatNext, Requests, Late = {}
                PROVE  chat'.prompt = AsksOf(messages)
    BY DEF chatVars
  <2>1. PICK f \in flows : ListenReply(f)
    BY OnlyListenRequests
  <2>2. messages' = messages /\ Late' = {}
    BY <2>1 DEF ListenReply, Late
  <2>3. chat'.prompt # {}
    BY DEF Requests
  <2>4. chat'.prompt = AsksOf(messages')
    BY <2>2, <2>3 DEF ChatIInv, TabIInv, ChainInv
  <2>. QED BY <2>2, <2>4
<1>. QED BY <1>1, ChatIInvKept, PTL DEF ChatSpec, PromptIsComplete
=============================================================================
