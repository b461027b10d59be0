------------------------ MODULE EditorSessionProofs ------------------------
(***************************************************************************)
(* Proofs about EditorSession, for any number of tabs, jobs and threads:   *)
(* the type invariant, that a cancel always targets the session of the     *)
(* task that registered it, that a statement runs only for the task that   *)
(* holds the lock; then, from a stronger invariant, where KILLs land, how  *)
(* an export ends, and the refinement of FifoSession.                      *)
(*                                                                         *)
(* The inductive invariant IInv adds what those properties rest on: a task *)
(* in its critical section is the head of its slot's queue and the slot    *)
(* holds a session; its thread is deregistered before the lock is dropped; *)
(* and it moves on only when its statement has been answered.              *)
(***************************************************************************)
EXTENDS EditorSession, TLAPS

\* Labels of an export between set_job_thread(None) and the end of its guard.
DisarmedPC == {"wait", "absorb", "restore", "retry", "release"}

\* Labels at which a task has a statement on the session or its answer to read.
AwaitingPC == {"exec", "drain", "absorb", "capture", "dbread", "dbuse", "stream",
               "restore", "retry"}

\* The lock is held, with a session in the slot, where the code relies on it.
LockHeld ==
    \A a \in Actors :
        /\ pc[a] \in HoldingPC \cup {"connecting"} => Holds(a)
        /\ pc[a] \in HoldingPC => Thread(a) # 0

\* The thread is deregistered by the time the lock is dropped.
Deregistered ==
    /\ \A t \in Tabs : pc[t] = "release" => running_queries[t] = 0
    /\ \A j \in Jobs : pc[j] \in DisarmedPC => mysql_thread_id[j] = 0

\* A statement on the server is awaited by the owner of the session.
StatementAwaited ==
    \A th \in Threads : \A a \in Actors : RunsFor(th, a) =>
        /\ Owns(a, th)
        /\ pc[a] \in AwaitingPC
        /\ reply[a] = "none"

IInv == TypeOK /\ LockHeld /\ Deregistered /\ CancelTargetsOwnSession /\ StatementAwaited

----------
(* Frames: what a part of the invariant does not depend on. *)

LEMMA TypeFrames ==
    /\ LockType /\ UNCHANGED lockVars => LockType'
    /\ CloseType /\ UNCHANGED closeVars => CloseType'
    /\ ActorType /\ UNCHANGED actorVars => ActorType'
    /\ TabType /\ UNCHANGED tabVars => TabType'
    /\ JobType /\ UNCHANGED jobVars => JobType'
    /\ KillType /\ UNCHANGED killVars => KillType'
    /\ ServerType /\ UNCHANGED serverVars => ServerType'
<1>1. LockType /\ UNCHANGED lockVars => LockType'
  BY DEF LockType, lockVars
<1>2. CloseType /\ UNCHANGED closeVars => CloseType'
  BY DEF CloseType, closeVars
<1>3. ActorType /\ UNCHANGED actorVars => ActorType'
  BY DEF ActorType, actorVars
<1>4. TabType /\ UNCHANGED tabVars => TabType'
  BY DEF TabType, tabVars
<1>5. JobType /\ UNCHANGED jobVars => JobType'
  BY DEF JobType, jobVars
<1>6. KillType /\ UNCHANGED killVars => KillType'
  BY DEF KillType, killVars
<1>7. ServerType /\ UNCHANGED serverVars => ServerType'
  BY DEF ServerType, serverVars
<1>8. QED BY <1>1, <1>2, <1>3, <1>4, <1>5, <1>6, <1>7

\* The owner of a session moves within its critical section.
LEMMA HolderMoves ==
  ASSUME ActorType, LockHeld, NEW a \in Actors, NEW l \in HoldingPC,
         pc[a] \in HoldingPC, pc' = [pc EXCEPT ![a] = l],
         UNCHANGED <<queue, session, at>>
  PROVE  /\ LockHeld'
         /\ \A b \in Actors, th \in Threads : Owns(b, th) => Owns(b, th)'
<1>1. \A b \in Actors : Holds(b)' = Holds(b) /\ Thread(b)' = Thread(b)
  BY DEF Holds, Thread
<1>2. \A b \in Actors : pc'[b] = IF b = a THEN l ELSE pc[b]
  BY DEF ActorType
<1>3. \A b \in Actors : pc'[b] \in HoldingPC <=> pc[b] \in HoldingPC
  BY <1>2
<1>4. LockHeld'
  BY <1>1, <1>2, <1>3 DEF LockHeld
<1>5. QED BY <1>1, <1>3, <1>4 DEF Owns

\* Nothing the ownership of a session depends on changes.
LEMMA OwnershipFrame ==
  ASSUME LockHeld, UNCHANGED <<pc, queue, session, at>>
  PROVE  /\ LockHeld'
         /\ \A b \in Actors, th \in Threads : Owns(b, th) => Owns(b, th)'
BY DEF LockHeld, Owns, Holds, Thread

\* A task outside the critical section moves to a label outside of it.
LEMMA OutsiderMoves ==
  ASSUME ActorType, LockHeld, NEW a \in Actors, NEW l,
         l \notin HoldingPC \cup {"connecting"},
         pc[a] \notin HoldingPC, pc' = [pc EXCEPT ![a] = l],
         UNCHANGED <<queue, session, at>>
  PROVE  /\ LockHeld'
         /\ \A b \in Actors, th \in Threads : Owns(b, th) => Owns(b, th)'
<1>1. \A b \in Actors : Holds(b)' = Holds(b) /\ Thread(b)' = Thread(b)
  BY DEF Holds, Thread
<1>2. \A b \in Actors : pc'[b] = IF b = a THEN l ELSE pc[b]
  BY DEF ActorType
<1>3. \A b \in Actors : pc'[b] \in HoldingPC \cup {"connecting"}
                            => b # a /\ pc'[b] = pc[b]
  BY <1>2
<1>4. LockHeld'
  BY <1>1, <1>3 DEF LockHeld
<1>5. \A b \in Actors : pc[b] \in HoldingPC => pc'[b] \in HoldingPC
  BY <1>2
<1>6. QED BY <1>1, <1>4, <1>5 DEF Owns

\* The registered threads stay covered: every owner but a stays one, and a stays
\* one or has nothing registered.
LEMMA CancelTargetKept ==
  ASSUME CancelTargetsOwnSession, NEW a,
         \A b \in Actors \ {a}, th \in Threads : Owns(b, th) => Owns(b, th)',
         \/ \A th \in Threads : Owns(a, th) => Owns(a, th)'
         \/ /\ a \in Tabs => running_queries[a] = 0
            /\ a \in Jobs => mysql_thread_id[a] = 0,
         UNCHANGED <<running_queries, mysql_thread_id>>
  PROVE  CancelTargetsOwnSession'
<1>1. ASSUME NEW th \in Threads, NEW t \in Tabs, running_queries[t] = th
      PROVE  Owns(t, th)'
  <2>1. t \in Actors /\ Owns(t, th) /\ th # 0
    BY <1>1 DEF CancelTargetsOwnSession, Actors, Threads
  <2>2. QED BY <1>1, <2>1
<1>2. ASSUME NEW th \in Threads, NEW j \in Jobs, mysql_thread_id[j] = th
      PROVE  Owns(j, th)'
  <2>1. j \in Actors /\ Owns(j, th) /\ th # 0
    BY <1>2 DEF CancelTargetsOwnSession, Actors, Threads
  <2>2. QED BY <1>2, <2>1
<1>3. QED BY <1>1, <1>2 DEF CancelTargetsOwnSession

\* The running statements stay awaited: every owner but a keeps its session, its
\* label and its answer, and a does too or has no statement.
LEMMA StatementKept ==
  ASSUME StatementAwaited, NEW a,
         \A b \in Actors \ {a} :
            /\ \A th \in Threads : Owns(b, th) => Owns(b, th)'
            /\ pc'[b] = pc[b] /\ reply'[b] = reply[b],
         \/ /\ \A th \in Threads : Owns(a, th) => Owns(a, th)'
            /\ pc[a] \in AwaitingPC => pc'[a] \in AwaitingPC
            /\ reply'[a] = reply[a]
         \/ pc[a] \notin AwaitingPC
         \/ reply[a] # "none",
         UNCHANGED stmt
  PROVE  StatementAwaited'
<1>1. ASSUME NEW th \in Threads, NEW b \in Actors, RunsFor(th, b)'
      PROVE  Owns(b, th)' /\ pc'[b] \in AwaitingPC /\ reply'[b] = "none"
  <2>1. RunsFor(th, b)
    BY <1>1 DEF RunsFor
  <2>2. Owns(b, th) /\ pc[b] \in AwaitingPC /\ reply[b] = "none"
    BY <2>1 DEF StatementAwaited
  <2>3. QED BY <2>2
<1>2. QED BY <1>1 DEF StatementAwaited

\* Every owner stays one, and the registrations are kept.
LEMMA AllTargetsKept ==
  ASSUME CancelTargetsOwnSession,
         \A b \in Actors, th \in Threads : Owns(b, th) => Owns(b, th)',
         UNCHANGED <<running_queries, mysql_thread_id>>
  PROVE  CancelTargetsOwnSession'
<1>1. Tabs \subseteq Actors /\ Jobs \subseteq Actors
  BY DEF Actors
<1>2. QED BY <1>1 DEF CancelTargetsOwnSession

\* Every owner stays one and keeps waiting for its answer.
LEMMA AllStatementsKept ==
  ASSUME StatementAwaited,
         \A b \in Actors, th \in Threads : Owns(b, th) => Owns(b, th)',
         \A b \in Actors : pc[b] \in AwaitingPC => pc'[b] \in AwaitingPC,
         UNCHANGED <<reply, stmt>>
  PROVE  StatementAwaited'
<1>1. \A th \in Threads, b \in Actors : RunsFor(th, b)' <=> RunsFor(th, b)
  BY DEF RunsFor
<1>2. QED BY <1>1 DEF StatementAwaited

LEMMA DeregisteredKept ==
  ASSUME ActorType, Deregistered, NEW a \in Actors, NEW l,
         pc' = [pc EXCEPT ![a] = l],
         a \in Tabs => l # "release",
         a \in Jobs => l \notin DisarmedPC \/ pc[a] \in DisarmedPC,
         UNCHANGED <<running_queries, mysql_thread_id>>
  PROVE  Deregistered'
<1>1. \A b \in Actors : pc'[b] = IF b = a THEN l ELSE pc[b]
  BY DEF ActorType
<1>2. Tabs \subseteq Actors /\ Jobs \subseteq Actors
  BY DEF Actors
<1>3. \A t \in Tabs : pc'[t] = "release" => running_queries'[t] = 0
  BY <1>1, <1>2 DEF Deregistered
<1>4. \A j \in Jobs : pc'[j] \in DisarmedPC => mysql_thread_id'[j] = 0
  BY <1>1, <1>2 DEF Deregistered
<1>5. QED BY <1>3, <1>4 DEF Deregistered

\* Sending a statement.
LEMMA SendFacts ==
  ASSUME ActorType, ServerType, LockType, LockHeld, StatementAwaited,
         NEW a \in Actors, NEW i \in 0 .. MaxStatements, pc[a] \in HoldingPC,
         Send(a, i), pc'[a] \in HoldingPC \cap AwaitingPC,
         \A b \in Actors \ {a} : pc'[b] = pc[b],
         UNCHANGED <<queue, session, at>>
  PROVE  /\ reply' \in [Actors -> {"none", "ok", "err", "killed"}]
         /\ stmt' \in [Threads -> Statement \cup {None}]
         /\ pc[a] \notin AwaitingPC \/ reply[a] # "none" => StatementAwaited'
<1> DEFINE th == Thread(a)
<1>1. th \in Threads
  BY DEF LockHeld, LockType, ActorType, Thread
<1>2. Holds(a) /\ Holds(a)' /\ Thread(a)' = th
  BY DEF LockHeld, Holds, Thread
<1>3. \A b \in Actors, u \in Threads : Owns(b, u) => Owns(b, u)'
  BY DEF Owns, Holds, Thread
<1>4. CASE th \in gone
  <2>1. reply' = [reply EXCEPT ![a] = "err"] /\ UNCHANGED stmt
    BY <1>4 DEF Send
  <2>2. \A b \in Actors \ {a} : reply'[b] = reply[b]
    BY <2>1 DEF ActorType
  <2>3. pc[a] \notin AwaitingPC \/ reply[a] # "none" => StatementAwaited'
    BY <1>3, <2>1, <2>2, StatementKept
  <2>4. QED BY <2>1, <2>3 DEF ActorType, ServerType
<1>5. CASE th \notin gone
  <2> DEFINE st == [actor |-> a, run |-> run[a], idx |-> i]
  <2>1. reply' = [reply EXCEPT ![a] = "none"] /\ stmt' = [stmt EXCEPT ![th] = st]
    BY <1>5 DEF Send
  <2>2. st \in Statement
    BY DEF Statement, ActorType
  <2>3. reply' \in [Actors -> {"none", "ok", "err", "killed"}]
    BY <2>1 DEF ActorType
  <2>4. stmt' \in [Threads -> Statement \cup {None}]
    BY <1>1, <2>1, <2>2 DEF ServerType
  <2>5. ASSUME pc[a] \notin AwaitingPC \/ reply[a] # "none"
        PROVE  StatementAwaited'
    <3>1. ASSUME NEW u \in Threads, NEW b \in Actors, RunsFor(u, b)'
          PROVE  Owns(b, u)' /\ pc'[b] \in AwaitingPC /\ reply'[b] = "none"
      <4>1. CASE u = th
        <5>1. b = a
          BY <1>1, <2>1, <3>1, <4>1 DEF ServerType, RunsFor
        <5>2. Owns(a, u)'
          BY <1>2, <4>1 DEF Owns
        <5>3. reply'[a] = "none"
          BY <2>1 DEF ActorType
        <5>4. QED BY <5>1, <5>2, <5>3
      <4>2. CASE u # th
        <5>1. RunsFor(u, b)
          BY <2>1, <3>1, <4>2 DEF ServerType, RunsFor
        <5>2. Owns(b, u) /\ pc[b] \in AwaitingPC /\ reply[b] = "none"
          BY <5>1 DEF StatementAwaited
        <5>3. b # a
          BY <2>5, <5>2
        <5>4. pc'[b] = pc[b] /\ reply'[b] = reply[b]
          BY <2>1, <5>3 DEF ActorType
        <5>5. QED BY <1>3, <5>2, <5>4
      <4>3. QED BY <4>1, <4>2
    <3>2. QED BY <3>1 DEF StatementAwaited
  <2>6. QED BY <2>3, <2>4, <2>5
<1>6. QED BY <1>4, <1>5

\* What a step of a task inside its critical section keeps.
ClientKept ==
  /\ LockHeld /\ Deregistered /\ CancelTargetsOwnSession /\ StatementAwaited
  /\ pc \in [Actors -> TabPC \cup JobPC]
  /\ reply \in [Actors -> {"none", "ok", "err", "killed"}]
  /\ stmt \in [Threads -> Statement \cup {None}]

\* A step of a task inside its critical section: it moves to a label of the
\* section, with or without sending a statement, and registers nothing.
LEMMA ClientStep ==
  ASSUME IInv, NEW a \in Actors, NEW l \in HoldingPC,
         pc[a] \in HoldingPC, pc' = [pc EXCEPT ![a] = l],
         a \in Tabs => l # "release",
         a \in Jobs => l \notin DisarmedPC \/ pc[a] \in DisarmedPC,
         UNCHANGED <<queue, session, at, running_queries, mysql_thread_id>>,
         pc[a] \notin AwaitingPC \/ reply[a] # "none",
         \/ l \in AwaitingPC /\ \E i \in 0 .. MaxStatements : Send(a, i)
         \/ /\ UNCHANGED stmt
            /\ \/ UNCHANGED reply
               \/ reply' = [reply EXCEPT ![a] = "none"]
  PROVE  ClientKept'
<1> USE DEF IInv, TypeOK, ClientKept
<1>1. LockHeld' /\ \A b \in Actors, th \in Threads : Owns(b, th) => Owns(b, th)'
  BY HolderMoves
<1>2. Deregistered'
  BY DeregisteredKept
<1>3. CancelTargetsOwnSession'
  BY <1>1, CancelTargetKept
<1>4. pc' \in [Actors -> TabPC \cup JobPC]
  BY DEF ActorType, HoldingPC, TabPC, JobPC
<1>5. pc'[a] = l /\ \A b \in Actors \ {a} : pc'[b] = pc[b]
  BY DEF ActorType
<1>6. CASE l \in AwaitingPC /\ \E i \in 0 .. MaxStatements : Send(a, i)
  <2>1. PICK i \in 0 .. MaxStatements : Send(a, i)
    BY <1>6
  <2>2. /\ reply' \in [Actors -> {"none", "ok", "err", "killed"}]
        /\ stmt' \in [Threads -> Statement \cup {None}]
        /\ StatementAwaited'
    BY <1>5, <1>6, <2>1, SendFacts
  <2>3. QED BY <1>1, <1>2, <1>3, <1>4, <2>2
<1>7. CASE UNCHANGED stmt /\ (UNCHANGED reply \/ reply' = [reply EXCEPT ![a] = "none"])
  <2>1. /\ reply' \in [Actors -> {"none", "ok", "err", "killed"}]
        /\ \A b \in Actors \ {a} : reply'[b] = reply[b]
    BY <1>7 DEF ActorType
  <2>2. stmt' \in [Threads -> Statement \cup {None}]
    BY <1>7 DEF ServerType
  <2>3. StatementAwaited'
    BY <1>1, <1>5, <1>7, <2>1, StatementKept
  <2>4. QED BY <1>1, <1>2, <1>3, <1>4, <2>1, <2>2, <2>3
<1>8. QED BY <1>6, <1>7

----------
(* The steps of a run inside its critical section. *)

LEMMA StartStatementPreserves ==
  ASSUME IInv, NEW t \in Tabs, StartStatement(t)
  PROVE  IInv'
<1>1. t \in Actors /\ t \notin Jobs
  BY ActorsAssumption DEF Actors
<1>2. /\ pc[t] = "ready" /\ pc' = [pc EXCEPT ![t] = "exec"]
      /\ \E i \in 0 .. MaxStatements : Send(t, i)
  BY <1>1, BoundsAssumption DEF StartStatement, Goto, IInv, TypeOK, ActorType
<1>3. UNCHANGED <<queue, session, at, running_queries, mysql_thread_id>>
  BY DEF StartStatement, lockVars, tabVars, jobVars
<1>4. /\ LockHeld' /\ Deregistered' /\ CancelTargetsOwnSession' /\ StatementAwaited'
      /\ pc' \in [Actors -> TabPC \cup JobPC]
      /\ reply' \in [Actors -> {"none", "ok", "err", "killed"}]
      /\ stmt' \in [Threads -> Statement \cup {None}]
  BY <1>1, <1>2, <1>3, ClientStep DEF ClientKept, HoldingPC, AwaitingPC
<1>5. TypeOK'
  <2>1. ActorType'
    <3>1. idx' \in [Actors -> 0 .. MaxStatements]
      BY <1>1, BoundsAssumption DEF StartStatement, IInv, TypeOK, ActorType
    <3>2. kill_sent' \in [Actors -> BOOLEAN]
      BY <1>1 DEF StartStatement, IInv, TypeOK, ActorType
    <3>3. UNCHANGED <<at, run>>
      BY DEF StartStatement
    <3>4. QED BY <1>4, <3>1, <3>2, <3>3 DEF IInv, TypeOK, ActorType
  <2>2. ServerType'
    BY <1>4 DEF StartStatement, IInv, TypeOK, ServerType
  <2>3. QED BY <2>1, <2>2, TypeFrames DEF StartStatement, IInv, TypeOK
<1>6. QED BY <1>4, <1>5 DEF IInv

LEMMA StatementEndPreserves ==
  ASSUME IInv, NEW t \in Tabs, StatementEnd(t)
  PROVE  IInv'
<1>1. t \in Actors /\ t \notin Jobs
  BY ActorsAssumption DEF Actors
<1>2. PICK l \in {"ready", "finish"} : pc' = [pc EXCEPT ![t] = l]
  BY DEF StatementEnd, Goto
<1>3. /\ pc[t] = "exec" /\ reply[t] # "none"
      /\ reply' = [reply EXCEPT ![t] = "none"] /\ UNCHANGED stmt
      /\ UNCHANGED <<queue, session, at, running_queries, mysql_thread_id>>
  BY DEF StatementEnd, Ended, lockVars, tabVars, jobVars, serverVars
<1>4. /\ LockHeld' /\ Deregistered' /\ CancelTargetsOwnSession' /\ StatementAwaited'
      /\ pc' \in [Actors -> TabPC \cup JobPC]
      /\ reply' \in [Actors -> {"none", "ok", "err", "killed"}]
  BY <1>1, <1>2, <1>3, ClientStep DEF ClientKept, HoldingPC, AwaitingPC
<1>5. ActorType'
  BY <1>4 DEF StatementEnd, IInv, TypeOK, ActorType
<1>6. QED BY <1>4, <1>5, TypeFrames DEF StatementEnd, IInv, TypeOK

LEMMA DrainEndPreserves ==
  ASSUME IInv, NEW t \in Tabs, DrainEnd(t)
  PROVE  IInv'
<1>1. t \in Actors /\ t \notin Jobs
  BY ActorsAssumption DEF Actors
<1>2. pc[t] = "drain" /\ reply[t] # "none"
  BY DEF DrainEnd, Ended
<1>3. idx[t] \in 0 .. MaxStatements
  BY <1>1, BoundsAssumption DEF IInv, TypeOK, ActorType
<1>4. PICK l \in {"absorb", "capture", "ready"} :
        /\ pc' = [pc EXCEPT ![t] = l]
        /\ \/ l \in AwaitingPC /\ Send(t, idx[t])
           \/ /\ UNCHANGED stmt
              /\ \/ UNCHANGED reply
                 \/ reply' = [reply EXCEPT ![t] = "none"]
  BY DEF DrainEnd, Ended, LateKillPossible, CaptureDatabase, Goto, AwaitingPC, actorVars, serverVars
<1>5. UNCHANGED <<queue, session, at, running_queries, mysql_thread_id>>
  BY DEF DrainEnd, lockVars, tabVars, jobVars
<1>6. ClientKept'
  BY <1>1, <1>2, <1>3, <1>4, <1>5, ClientStep DEF HoldingPC, AwaitingPC, DisarmedPC
<1>7. ActorType' /\ ServerType'
  BY <1>6 DEF ClientKept, DrainEnd, IInv, TypeOK, ActorType, ServerType, serverVars
<1>8. QED BY <1>6, <1>7, TypeFrames DEF ClientKept, DrainEnd, IInv, TypeOK

LEMMA AbsorbEndPreserves ==
  ASSUME IInv, NEW t \in Tabs, AbsorbEnd(t)
  PROVE  IInv'
<1>1. t \in Actors /\ t \notin Jobs
  BY ActorsAssumption DEF Actors
<1>2. pc[t] = "absorb" /\ reply[t] # "none"
  BY DEF AbsorbEnd, Ended
<1>3. idx[t] \in 0 .. MaxStatements
  BY <1>1, BoundsAssumption DEF IInv, TypeOK, ActorType
<1>4. PICK l \in {"capture", "ready"} :
        /\ pc' = [pc EXCEPT ![t] = l]
        /\ \/ l \in AwaitingPC /\ Send(t, idx[t])
           \/ /\ UNCHANGED stmt
              /\ \/ UNCHANGED reply
                 \/ reply' = [reply EXCEPT ![t] = "none"]
  BY DEF AbsorbEnd, Ended, CaptureDatabase, Goto, AwaitingPC, actorVars, serverVars
<1>5. UNCHANGED <<queue, session, at, running_queries, mysql_thread_id>>
  BY DEF AbsorbEnd, lockVars, tabVars, jobVars
<1>6. ClientKept'
  BY <1>1, <1>2, <1>3, <1>4, <1>5, ClientStep DEF HoldingPC, AwaitingPC, DisarmedPC
<1>7. ActorType' /\ ServerType'
  BY <1>6 DEF ClientKept, AbsorbEnd, IInv, TypeOK, ActorType, ServerType, serverVars
<1>8. QED BY <1>6, <1>7, TypeFrames DEF ClientKept, AbsorbEnd, IInv, TypeOK

LEMMA CaptureEndPreserves ==
  ASSUME IInv, NEW t \in Tabs, CaptureEnd(t)
  PROVE  IInv'
<1>1. t \in Actors /\ t \notin Jobs
  BY ActorsAssumption DEF Actors
<1>2. pc[t] = "capture" /\ reply[t] # "none"
  BY DEF CaptureEnd, Ended
<1>3. idx[t] \in 0 .. MaxStatements
  BY <1>1, BoundsAssumption DEF IInv, TypeOK, ActorType
<1>4. PICK l \in {"ready"} :
        /\ pc' = [pc EXCEPT ![t] = l]
        /\ \/ l \in AwaitingPC /\ Send(t, idx[t])
           \/ /\ UNCHANGED stmt
              /\ \/ UNCHANGED reply
                 \/ reply' = [reply EXCEPT ![t] = "none"]
  BY DEF CaptureEnd, Ended, Goto, AwaitingPC, actorVars, serverVars
<1>5. UNCHANGED <<queue, session, at, running_queries, mysql_thread_id>>
  BY DEF CaptureEnd, lockVars, tabVars, jobVars
<1>6. ClientKept'
  BY <1>1, <1>2, <1>3, <1>4, <1>5, ClientStep DEF HoldingPC, AwaitingPC, DisarmedPC
<1>7. ActorType' /\ ServerType'
  BY <1>6 DEF ClientKept, CaptureEnd, IInv, TypeOK, ActorType, ServerType, serverVars
<1>8. QED BY <1>6, <1>7, TypeFrames DEF ClientKept, CaptureEnd, IInv, TypeOK

LEMMA StartRerunPreserves ==
  ASSUME IInv, NEW j \in Jobs, StartRerun(j)
  PROVE  IInv'
<1>1. j \in Actors /\ j \notin Tabs
  BY ActorsAssumption DEF Actors
<1>2. pc[j] = "armed"
  BY DEF StartRerun
<1>3. 0 \in 0 .. MaxStatements
  BY <1>1, BoundsAssumption DEF IInv, TypeOK, ActorType
<1>4. PICK l \in {"disarm", "dbread"} :
        /\ pc' = [pc EXCEPT ![j] = l]
        /\ \/ l \in AwaitingPC /\ Send(j, 0)
           \/ /\ UNCHANGED stmt
              /\ \/ UNCHANGED reply
                 \/ reply' = [reply EXCEPT ![j] = "none"]
  BY DEF StartRerun, Send, Goto, AwaitingPC, actorVars, serverVars
<1>5. UNCHANGED <<queue, session, at, running_queries, mysql_thread_id>>
  BY DEF StartRerun, lockVars, tabVars, jobVars
<1>6. ClientKept'
  BY <1>1, <1>2, <1>3, <1>4, <1>5, ClientStep DEF HoldingPC, AwaitingPC, DisarmedPC
<1>7. ActorType' /\ ServerType'
  BY <1>6 DEF ClientKept, StartRerun, IInv, TypeOK, ActorType, ServerType, serverVars
<1>8. QED BY <1>6, <1>7, TypeFrames DEF ClientKept, StartRerun, IInv, TypeOK

LEMMA ReadDatabasePreserves ==
  ASSUME IInv, NEW j \in Jobs, ReadDatabase(j)
  PROVE  IInv'
<1>1. j \in Actors /\ j \notin Tabs
  BY ActorsAssumption DEF Actors
<1>2. pc[j] = "dbread" /\ reply[j] # "none"
  BY DEF ReadDatabase, Ended
<1>3. 0 \in 0 .. MaxStatements
  BY <1>1, BoundsAssumption DEF IInv, TypeOK, ActorType
<1>4. PICK l \in {"disarm", "stream", "dbuse"} :
        /\ pc' = [pc EXCEPT ![j] = l]
        /\ \/ l \in AwaitingPC /\ Send(j, 0)
           \/ /\ UNCHANGED stmt
              /\ \/ UNCHANGED reply
                 \/ reply' = [reply EXCEPT ![j] = "none"]
  BY DEF ReadDatabase, Ended, SkipRerun, StartStream, Goto, AwaitingPC, actorVars, serverVars
<1>5. UNCHANGED <<queue, session, at, running_queries, mysql_thread_id>>
  BY DEF ReadDatabase, lockVars, tabVars, jobVars
<1>6. ClientKept'
  BY <1>1, <1>2, <1>3, <1>4, <1>5, ClientStep DEF HoldingPC, AwaitingPC, DisarmedPC
<1>7. ActorType' /\ ServerType'
  BY <1>6 DEF ClientKept, ReadDatabase, IInv, TypeOK, ActorType, ServerType, serverVars
<1>8. JobType'
  BY <1>1 DEF ReadDatabase, SkipRerun, StartStream, IInv, TypeOK, JobType, jobVars
<1>9. QED BY <1>6, <1>7, <1>8, TypeFrames DEF ClientKept, ReadDatabase, IInv, TypeOK

LEMMA UseDatabasePreserves ==
  ASSUME IInv, NEW j \in Jobs, UseDatabase(j)
  PROVE  IInv'
<1>1. j \in Actors /\ j \notin Tabs
  BY ActorsAssumption DEF Actors
<1>2. pc[j] = "dbuse" /\ reply[j] # "none"
  BY DEF UseDatabase, Ended
<1>3. 0 \in 0 .. MaxStatements
  BY <1>1, BoundsAssumption DEF IInv, TypeOK, ActorType
<1>4. PICK l \in {"disarm", "stream"} :
        /\ pc' = [pc EXCEPT ![j] = l]
        /\ \/ l \in AwaitingPC /\ Send(j, 0)
           \/ /\ UNCHANGED stmt
              /\ \/ UNCHANGED reply
                 \/ reply' = [reply EXCEPT ![j] = "none"]
  BY DEF UseDatabase, Ended, SkipRerun, StartStream, Goto, AwaitingPC, actorVars, serverVars
<1>5. UNCHANGED <<queue, session, at, running_queries, mysql_thread_id>>
  BY DEF UseDatabase, lockVars, tabVars, jobVars
<1>6. ClientKept'
  BY <1>1, <1>2, <1>3, <1>4, <1>5, ClientStep DEF HoldingPC, AwaitingPC, DisarmedPC
<1>7. ActorType' /\ ServerType'
  BY <1>6 DEF ClientKept, UseDatabase, IInv, TypeOK, ActorType, ServerType, serverVars
<1>8. JobType'
  BY <1>1 DEF UseDatabase, SkipRerun, StartStream, IInv, TypeOK, JobType, jobVars
<1>9. QED BY <1>6, <1>7, <1>8, TypeFrames DEF ClientKept, UseDatabase, IInv, TypeOK

LEMMA StreamEndPreserves ==
  ASSUME IInv, NEW j \in Jobs, StreamEnd(j)
  PROVE  IInv'
<1>1. j \in Actors /\ j \notin Tabs
  BY ActorsAssumption DEF Actors
<1>2. pc[j] = "stream" /\ reply[j] # "none"
  BY DEF StreamEnd, Ended
<1>3. 0 \in 0 .. MaxStatements
  BY <1>1, BoundsAssumption DEF IInv, TypeOK, ActorType
<1>4. PICK l \in {"disarm"} :
        /\ pc' = [pc EXCEPT ![j] = l]
        /\ \/ l \in AwaitingPC /\ Send(j, 0)
           \/ /\ UNCHANGED stmt
              /\ \/ UNCHANGED reply
                 \/ reply' = [reply EXCEPT ![j] = "none"]
  BY DEF StreamEnd, Ended, Goto, AwaitingPC, actorVars, serverVars
<1>5. UNCHANGED <<queue, session, at, running_queries, mysql_thread_id>>
  BY DEF StreamEnd, lockVars, tabVars, jobVars
<1>6. ClientKept'
  BY <1>1, <1>2, <1>3, <1>4, <1>5, ClientStep DEF HoldingPC, AwaitingPC, DisarmedPC
<1>7. ActorType' /\ ServerType'
  BY <1>6 DEF ClientKept, StreamEnd, IInv, TypeOK, ActorType, ServerType, serverVars
<1>8. JobType'
  BY <1>1 DEF StreamEnd, IInv, TypeOK, JobType, jobVars
<1>9. QED BY <1>6, <1>7, <1>8, TypeFrames DEF ClientKept, StreamEnd, IInv, TypeOK

LEMMA WaitForCancelKillsPreserves ==
  ASSUME IInv, NEW j \in Jobs, WaitForCancelKills(j)
  PROVE  IInv'
<1>1. j \in Actors /\ j \notin Tabs
  BY ActorsAssumption DEF Actors
<1>2. pc[j] = "wait"
  BY DEF WaitForCancelKills
<1>3. 0 \in 0 .. MaxStatements
  BY <1>1, BoundsAssumption DEF IInv, TypeOK, ActorType
<1>4. PICK l \in {"absorb", "restore", "release"} :
        /\ pc' = [pc EXCEPT ![j] = l]
        /\ \/ l \in AwaitingPC /\ Send(j, 0)
           \/ /\ UNCHANGED stmt
              /\ \/ UNCHANGED reply
                 \/ reply' = [reply EXCEPT ![j] = "none"]
  BY DEF WaitForCancelKills, AfterWait, Restore, Goto, AwaitingPC, actorVars, serverVars
<1>5. UNCHANGED <<queue, session, at, running_queries, mysql_thread_id>>
  BY DEF WaitForCancelKills, AfterWait, lockVars, tabVars, jobVars
<1>6. ClientKept'
  BY <1>1, <1>2, <1>3, <1>4, <1>5, ClientStep DEF HoldingPC, AwaitingPC, DisarmedPC
<1>7. ActorType' /\ ServerType'
  BY <1>6 DEF ClientKept, WaitForCancelKills, AfterWait, IInv, TypeOK, ActorType, ServerType, serverVars
<1>8. JobType'
  BY <1>1 DEF WaitForCancelKills, AfterWait, IInv, TypeOK, JobType, jobVars
<1>9. QED BY <1>6, <1>7, <1>8, TypeFrames DEF ClientKept, WaitForCancelKills, AfterWait, IInv, TypeOK

LEMMA WaitTimeoutPreserves ==
  ASSUME IInv, NEW j \in Jobs, WaitTimeout(j)
  PROVE  IInv'
<1>1. j \in Actors /\ j \notin Tabs
  BY ActorsAssumption DEF Actors
<1>2. pc[j] = "wait"
  BY DEF WaitTimeout
<1>3. 0 \in 0 .. MaxStatements
  BY <1>1, BoundsAssumption DEF IInv, TypeOK, ActorType
<1>4. PICK l \in {"absorb", "restore", "release"} :
        /\ pc' = [pc EXCEPT ![j] = l]
        /\ \/ l \in AwaitingPC /\ Send(j, 0)
           \/ /\ UNCHANGED stmt
              /\ \/ UNCHANGED reply
                 \/ reply' = [reply EXCEPT ![j] = "none"]
  BY DEF WaitTimeout, AfterWait, Restore, Goto, AwaitingPC, actorVars, serverVars
<1>5. UNCHANGED <<queue, session, at, running_queries, mysql_thread_id>>
  BY DEF WaitTimeout, AfterWait, lockVars, tabVars, jobVars
<1>6. ClientKept'
  BY <1>1, <1>2, <1>3, <1>4, <1>5, ClientStep DEF HoldingPC, AwaitingPC, DisarmedPC
<1>7. ActorType' /\ ServerType'
  BY <1>6 DEF ClientKept, WaitTimeout, AfterWait, IInv, TypeOK, ActorType, ServerType, serverVars
<1>8. JobType'
  BY <1>1 DEF WaitTimeout, AfterWait, IInv, TypeOK, JobType, jobVars
<1>9. QED BY <1>6, <1>7, <1>8, TypeFrames DEF ClientKept, WaitTimeout, AfterWait, IInv, TypeOK

LEMMA ExportAbsorbEndPreserves ==
  ASSUME IInv, NEW j \in Jobs, ExportAbsorbEnd(j)
  PROVE  IInv'
<1>1. j \in Actors /\ j \notin Tabs
  BY ActorsAssumption DEF Actors
<1>2. pc[j] = "absorb" /\ reply[j] # "none"
  BY DEF ExportAbsorbEnd, Ended
<1>3. 0 \in 0 .. MaxStatements
  BY <1>1, BoundsAssumption DEF IInv, TypeOK, ActorType
<1>4. PICK l \in {"restore", "release"} :
        /\ pc' = [pc EXCEPT ![j] = l]
        /\ \/ l \in AwaitingPC /\ Send(j, 0)
           \/ /\ UNCHANGED stmt
              /\ \/ UNCHANGED reply
                 \/ reply' = [reply EXCEPT ![j] = "none"]
  BY DEF ExportAbsorbEnd, Ended, Restore, Goto, AwaitingPC, actorVars, serverVars
<1>5. UNCHANGED <<queue, session, at, running_queries, mysql_thread_id>>
  BY DEF ExportAbsorbEnd, lockVars, tabVars, jobVars
<1>6. ClientKept'
  BY <1>1, <1>2, <1>3, <1>4, <1>5, ClientStep DEF HoldingPC, AwaitingPC, DisarmedPC
<1>7. ActorType' /\ ServerType'
  BY <1>6 DEF ClientKept, ExportAbsorbEnd, IInv, TypeOK, ActorType, ServerType, serverVars
<1>8. QED BY <1>6, <1>7, TypeFrames DEF ClientKept, ExportAbsorbEnd, IInv, TypeOK

LEMMA RestoreEndPreserves ==
  ASSUME IInv, NEW j \in Jobs, RestoreEnd(j)
  PROVE  IInv'
<1>1. j \in Actors /\ j \notin Tabs
  BY ActorsAssumption DEF Actors
<1>2. pc[j] \in {"restore", "retry"} /\ reply[j] # "none"
  BY DEF RestoreEnd, Ended
<1>3. 0 \in 0 .. MaxStatements
  BY <1>1, BoundsAssumption DEF IInv, TypeOK, ActorType
<1>4. PICK l \in {"retry", "release"} :
        /\ pc' = [pc EXCEPT ![j] = l]
        /\ \/ l \in AwaitingPC /\ Send(j, 0)
           \/ /\ UNCHANGED stmt
              /\ \/ UNCHANGED reply
                 \/ reply' = [reply EXCEPT ![j] = "none"]
  BY DEF RestoreEnd, Ended, Goto, AwaitingPC, actorVars, serverVars
<1>5. UNCHANGED <<queue, session, at, running_queries, mysql_thread_id>>
  BY DEF RestoreEnd, lockVars, tabVars, jobVars
<1>6. ClientKept'
  BY <1>1, <1>2, <1>3, <1>4, <1>5, ClientStep DEF HoldingPC, AwaitingPC, DisarmedPC
<1>7. ActorType' /\ ServerType'
  BY <1>6 DEF ClientKept, RestoreEnd, IInv, TypeOK, ActorType, ServerType, serverVars
<1>8. QED BY <1>6, <1>7, TypeFrames DEF ClientKept, RestoreEnd, IInv, TypeOK

\* A KILL that runs on the server sets flags of the right type.
LEMMA StrikeType ==
  ASSUME ServerType, NEW k \in Kill, NEW lost \in BOOLEAN, Strike(k, lost)
  PROVE  flags' \in [Threads -> SUBSET Flag]
<1>1. k.thread \in Threads
  BY DEF Kill
<1>2. \A m \in {"first", "second", "lost"} : [kill |-> k, mark |-> m] \in Flag
  BY DEF Flag
<1>3. CASE UNCHANGED flags
  BY <1>3 DEF ServerType
<1>4. CASE ~UNCHANGED flags
  <2>1. PICK m \in {"first", "second", "lost"} :
          flags' = [flags EXCEPT ![k.thread] = @ \cup {[kill |-> k, mark |-> m]}]
    BY <1>4 DEF Strike
  <2>2. flags[k.thread] \cup {[kill |-> k, mark |-> m]} \in SUBSET Flag
    BY <1>1, <1>2 DEF ServerType
  <2>3. QED BY <2>1, <2>2 DEF ServerType
<1>5. QED BY <1>3, <1>4

\* A step that keeps every label, lock, registration, statement and answer.
LEMMA QuietStep ==
  ASSUME IInv, UNCHANGED <<pc, queue, session, at, running_queries, mysql_thread_id,
                           stmt, reply>>
  PROVE  LockHeld' /\ Deregistered' /\ CancelTargetsOwnSession' /\ StatementAwaited'
<1>1. LockHeld' /\ \A b \in Actors, th \in Threads : Owns(b, th) => Owns(b, th)'
  BY OwnershipFrame DEF IInv
<1>2. Deregistered'
  BY DEF IInv, Deregistered
<1>3. CancelTargetsOwnSession'
  BY <1>1, AllTargetsKept DEF IInv
<1>4. StatementAwaited'
  BY <1>1, AllStatementsKept DEF IInv
<1>5. QED BY <1>1, <1>2, <1>3, <1>4

LEMMA CeilingKillPreserves ==
  ASSUME IInv, NEW t \in Tabs, CeilingKill(t)
  PROVE  IInv'
<1>1. t \in Actors /\ t \notin Jobs
  BY ActorsAssumption DEF Actors
<1>2. /\ pc[t] = "exec" /\ pc' = [pc EXCEPT ![t] = "drain"]
      /\ UNCHANGED <<queue, session, at, running_queries, mysql_thread_id, reply, stmt>>
  BY DEF CeilingKill, Goto, lockVars, tabVars, jobVars
<1>3. LockHeld' /\ \A b \in Actors, th \in Threads : Owns(b, th) => Owns(b, th)'
  BY <1>1, <1>2, HolderMoves DEF IInv, TypeOK, HoldingPC
<1>4. Deregistered'
  BY <1>1, <1>2, DeregisteredKept DEF IInv, TypeOK
<1>5. CancelTargetsOwnSession'
  BY <1>2, <1>3, AllTargetsKept DEF IInv
<1>6. pc'[t] = "drain" /\ \A b \in Actors \ {t} : pc'[b] = pc[b]
  BY <1>1, <1>2 DEF IInv, TypeOK, ActorType
<1>7. StatementAwaited'
  <2>1. \A b \in Actors : pc[b] \in AwaitingPC => pc'[b] \in AwaitingPC
    BY <1>6 DEF AwaitingPC
  <2>2. QED BY <1>2, <1>3, <2>1, AllStatementsKept DEF IInv
<1>8. ActorType'
  <2>1. pc' \in [Actors -> TabPC \cup JobPC]
    BY <1>2 DEF IInv, TypeOK, ActorType, TabPC
  <2>2. kill_sent' \in [Actors -> BOOLEAN]
    BY <1>1 DEF CeilingKill, IInv, TypeOK, ActorType
  <2>3. QED BY <2>1, <2>2 DEF CeilingKill, IInv, TypeOK, ActorType
<1>9. ServerType'
  <2> DEFINE k == [kind |-> "ceiling", actor |-> t, run |-> run[t], idx |-> idx[t],
                   n |-> 0, thread |-> Thread(t)]
  <2>1. Thread(t) \in Threads
    BY <1>1, <1>2 DEF IInv, TypeOK, LockHeld, LockType, ActorType, Thread, HoldingPC
  <2>2. k \in Kill
    BY <1>1, <2>1, BoundsAssumption DEF Kill, IInv, TypeOK, ActorType
  <2>3. UNCHANGED flags \/ Strike(k, FALSE) \/ Strike(k, TRUE)
    BY DEF CeilingKill
  <2>4. flags' \in [Threads -> SUBSET Flag]
    BY <2>2, <2>3, StrikeType DEF IInv, TypeOK, ServerType
  <2>5. QED BY <2>4 DEF CeilingKill, IInv, TypeOK, ServerType
<1>10. TypeOK'
  BY <1>8, <1>9, TypeFrames DEF CeilingKill, IInv, TypeOK
<1>11. QED BY <1>3, <1>4, <1>5, <1>7, <1>10 DEF IInv

LEMMA RegisterPreserves ==
  ASSUME IInv, NEW t \in Tabs, Register(t)
  PROVE  IInv'
<1>1. t \in Actors /\ t \notin Jobs
  BY ActorsAssumption DEF Actors
<1>2. /\ pc[t] = "granted" /\ pc' = [pc EXCEPT ![t] = "ready"]
      /\ running_queries' = [running_queries EXCEPT ![t] = Thread(t)]
      /\ UNCHANGED <<queue, session, at, mysql_thread_id, reply, stmt>>
  BY DEF Register, Goto, lockVars, jobVars, serverVars
<1>3. LockHeld' /\ \A b \in Actors, th \in Threads : Owns(b, th) => Owns(b, th)'
  BY <1>1, <1>2, HolderMoves DEF IInv, TypeOK, HoldingPC
<1>4. pc'[t] = "ready" /\ \A b \in Actors \ {t} : pc'[b] = pc[b]
  BY <1>1, <1>2 DEF IInv, TypeOK, ActorType
<1>5. Thread(t) \in Threads
  BY <1>1, <1>2 DEF IInv, TypeOK, LockHeld, LockType, ActorType, Thread, HoldingPC
<1>6. /\ running_queries'[t] = Thread(t)
      /\ \A u \in Tabs \ {t} : running_queries'[u] = running_queries[u]
  BY <1>2 DEF IInv, TypeOK, TabType
<1>7. Deregistered'
  BY <1>1, <1>2, <1>4, <1>6 DEF IInv, Deregistered, Actors
<1>8. CancelTargetsOwnSession'
  <2>1. \A th \in Threads : Thread(t) = th => Owns(t, th)'
    BY <1>1, <1>2, <1>3 DEF IInv, LockHeld, Owns, HoldingPC
  <2>2. Tabs \subseteq Actors /\ Jobs \subseteq Actors
    BY DEF Actors
  <2>3. QED BY <1>2, <1>3, <1>6, <2>1, <2>2 DEF IInv, CancelTargetsOwnSession
<1>9. StatementAwaited'
  BY <1>2, <1>4, <1>3, StatementKept DEF IInv, AwaitingPC
<1>10. ActorType' /\ TabType'
  BY <1>2, <1>5 DEF Register, IInv, TypeOK, CloseType, ActorType, TabType, TabPC
<1>11. TypeOK'
  BY <1>10, TypeFrames DEF Register, IInv, TypeOK
<1>12. QED BY <1>3, <1>7, <1>8, <1>9, <1>11 DEF IInv

LEMMA UnregisterPreserves ==
  ASSUME IInv, NEW t \in Tabs, Unregister(t)
  PROVE  IInv'
<1>1. t \in Actors /\ t \notin Jobs
  BY ActorsAssumption DEF Actors
<1>2. /\ pc[t] \in {"ready", "finish"} /\ pc' = [pc EXCEPT ![t] = "release"]
      /\ running_queries' = [running_queries EXCEPT ![t] = 0]
      /\ UNCHANGED <<queue, session, at, mysql_thread_id, reply, stmt>>
  BY DEF Unregister, Goto, lockVars, jobVars, serverVars
<1>3. LockHeld' /\ \A b \in Actors, th \in Threads : Owns(b, th) => Owns(b, th)'
  BY <1>1, <1>2, HolderMoves DEF IInv, TypeOK, HoldingPC
<1>4. pc'[t] = "release" /\ \A b \in Actors \ {t} : pc'[b] = pc[b]
  BY <1>1, <1>2 DEF IInv, TypeOK, ActorType
<1>5. /\ running_queries'[t] = 0
      /\ \A u \in Tabs \ {t} : running_queries'[u] = running_queries[u]
  BY <1>2 DEF IInv, TypeOK, TabType
<1>6. Deregistered'
  BY <1>1, <1>2, <1>4, <1>5 DEF IInv, Deregistered, Actors
<1>7. CancelTargetsOwnSession'
  <2>1. Tabs \subseteq Actors /\ Jobs \subseteq Actors /\ 0 \notin Threads
    BY DEF Actors, Threads
  <2>2. QED BY <1>2, <1>3, <1>5, <2>1 DEF IInv, CancelTargetsOwnSession
<1>8. StatementAwaited'
  BY <1>2, <1>4, <1>3, StatementKept DEF IInv, AwaitingPC
<1>9. ActorType' /\ TabType'
  BY <1>2 DEF Unregister, IInv, TypeOK, ActorType, TabType, TabPC
<1>10. TypeOK'
  BY <1>9, TypeFrames DEF Unregister, IInv, TypeOK
<1>11. QED BY <1>3, <1>6, <1>7, <1>8, <1>10 DEF IInv

LEMMA SetJobThreadPreserves ==
  ASSUME IInv, NEW j \in Jobs, SetJobThread(j)
  PROVE  IInv'
<1>1. j \in Actors /\ j \notin Tabs
  BY ActorsAssumption DEF Actors
<1>2. /\ pc[j] = "granted" /\ pc' = [pc EXCEPT ![j] = "armed"]
      /\ mysql_thread_id' = [mysql_thread_id EXCEPT ![j] = Thread(j)]
      /\ UNCHANGED <<queue, session, at, running_queries, reply, stmt>>
  BY DEF SetJobThread, Goto, lockVars, tabVars, serverVars
<1>3. LockHeld' /\ \A b \in Actors, th \in Threads : Owns(b, th) => Owns(b, th)'
  BY <1>1, <1>2, HolderMoves DEF IInv, TypeOK, HoldingPC
<1>4. pc'[j] = "armed" /\ \A b \in Actors \ {j} : pc'[b] = pc[b]
  BY <1>1, <1>2 DEF IInv, TypeOK, ActorType
<1>5. Thread(j) \in Threads
  BY <1>1, <1>2 DEF IInv, TypeOK, LockHeld, LockType, ActorType, Thread, HoldingPC
<1>6. /\ mysql_thread_id'[j] = Thread(j)
      /\ \A i \in Jobs \ {j} : mysql_thread_id'[i] = mysql_thread_id[i]
  BY <1>2 DEF IInv, TypeOK, JobType
<1>7. Deregistered'
  BY <1>1, <1>2, <1>4, <1>6 DEF IInv, Deregistered, Actors, DisarmedPC
<1>8. CancelTargetsOwnSession'
  <2>1. \A th \in Threads : Thread(j) = th => Owns(j, th)'
    BY <1>1, <1>2, <1>3 DEF IInv, LockHeld, Owns, HoldingPC
  <2>2. Tabs \subseteq Actors /\ Jobs \subseteq Actors
    BY DEF Actors
  <2>3. QED BY <1>2, <1>3, <1>6, <2>1, <2>2 DEF IInv, CancelTargetsOwnSession
<1>9. StatementAwaited'
  BY <1>2, <1>4, <1>3, StatementKept DEF IInv, AwaitingPC
<1>10. ActorType' /\ JobType'
  <2>1. pc' \in [Actors -> TabPC \cup JobPC]
    BY <1>2 DEF IInv, TypeOK, ActorType, JobPC
  <2>2. mysql_thread_id' \in [Jobs -> {0} \cup Threads]
    BY <1>2, <1>5 DEF IInv, TypeOK, JobType
  <2>3. QED BY <2>1, <2>2 DEF SetJobThread, IInv, TypeOK, ActorType, JobType
<1>11. TypeOK'
  BY <1>10, TypeFrames DEF SetJobThread, IInv, TypeOK
<1>12. QED BY <1>3, <1>7, <1>8, <1>9, <1>11 DEF IInv

LEMMA ClearJobThreadPreserves ==
  ASSUME IInv, NEW j \in Jobs, ClearJobThread(j)
  PROVE  IInv'
<1>1. j \in Actors /\ j \notin Tabs
  BY ActorsAssumption DEF Actors
<1>2. /\ pc[j] = "disarm" /\ pc' = [pc EXCEPT ![j] = "wait"]
      /\ mysql_thread_id' = [mysql_thread_id EXCEPT ![j] = 0]
      /\ UNCHANGED <<queue, session, at, running_queries, reply, stmt>>
  BY DEF ClearJobThread, Goto, lockVars, tabVars, serverVars
<1>3. LockHeld' /\ \A b \in Actors, th \in Threads : Owns(b, th) => Owns(b, th)'
  BY <1>1, <1>2, HolderMoves DEF IInv, TypeOK, HoldingPC
<1>4. pc'[j] = "wait" /\ \A b \in Actors \ {j} : pc'[b] = pc[b]
  BY <1>1, <1>2 DEF IInv, TypeOK, ActorType
<1>5. /\ mysql_thread_id'[j] = 0
      /\ \A i \in Jobs \ {j} : mysql_thread_id'[i] = mysql_thread_id[i]
  BY <1>2 DEF IInv, TypeOK, JobType
<1>6. Deregistered'
  BY <1>1, <1>2, <1>4, <1>5 DEF IInv, Deregistered, Actors
<1>7. CancelTargetsOwnSession'
  <2>1. Tabs \subseteq Actors /\ Jobs \subseteq Actors /\ 0 \notin Threads
    BY DEF Actors, Threads
  <2>2. QED BY <1>2, <1>3, <1>5, <2>1 DEF IInv, CancelTargetsOwnSession
<1>8. StatementAwaited'
  BY <1>2, <1>4, <1>3, StatementKept DEF IInv, AwaitingPC
<1>9. ActorType' /\ JobType'
  BY <1>2 DEF ClearJobThread, IInv, TypeOK, ActorType, JobType, JobPC
<1>10. TypeOK'
  BY <1>9, TypeFrames DEF ClearJobThread, IInv, TypeOK
<1>11. QED BY <1>3, <1>6, <1>7, <1>8, <1>10 DEF IInv

----------
(* KILLs and cancels: no label changes. *)

LEMMA StopStreamPreserves ==
  ASSUME IInv, NEW j \in Jobs, StopStream(j)
  PROVE  IInv'
<1>1. j \in Actors /\ j \notin Tabs
  BY ActorsAssumption DEF Actors
<1>2. LockHeld' /\ Deregistered' /\ CancelTargetsOwnSession' /\ StatementAwaited'
  BY QuietStep DEF StopStream, lockVars, tabVars
<1>3. ActorType' /\ JobType'
  <2>1. kill_sent' \in [Actors -> BOOLEAN]
    <3>1. UNCHANGED kill_sent \/ kill_sent' = [kill_sent EXCEPT ![j] = TRUE]
      BY DEF StopStream
    <3>2. QED BY <3>1 DEF IInv, TypeOK, ActorType
  <2>2. stopping' \in [Jobs -> {"no", "failure", "limit"}]
    <3>1. PICK why \in {"failure", "limit"} : stopping' = [stopping EXCEPT ![j] = why]
      BY DEF StopStream
    <3>2. QED BY <3>1 DEF IInv, TypeOK, JobType
  <2>3. QED BY <2>1, <2>2 DEF StopStream, IInv, TypeOK, ActorType, JobType
<1>4. ServerType'
  <2> DEFINE k == [kind |-> "export", actor |-> j, run |-> 0, idx |-> 0, n |-> 0,
                   thread |-> Thread(j)]
  <2>1. Thread(j) \in Threads
    BY <1>1 DEF StopStream, IInv, TypeOK, LockHeld, LockType, ActorType, Thread, HoldingPC
  <2>2. k \in Kill
    BY <1>1, <2>1, BoundsAssumption DEF Kill
  <2>3. UNCHANGED flags \/ Strike(k, FALSE) \/ Strike(k, TRUE)
    BY DEF StopStream
  <2>4. flags' \in [Threads -> SUBSET Flag]
    BY <2>2, <2>3, StrikeType DEF IInv, TypeOK, ServerType
  <2>5. QED BY <2>4 DEF StopStream, IInv, TypeOK, ServerType
<1>5. QED BY <1>2, <1>3, <1>4, TypeFrames DEF StopStream, IInv, TypeOK

LEMMA CancelQueryPreserves ==
  ASSUME IInv, NEW t \in Tabs, CancelQuery(t)
  PROVE  IInv'
<1>1. t \in Actors
  BY DEF Actors
<1>2. LockHeld' /\ Deregistered' /\ CancelTargetsOwnSession' /\ StatementAwaited'
  BY QuietStep DEF CancelQuery, lockVars, tabVars, actorVars, jobVars, serverVars
<1>3. asked[t] \in Nat /\ asked[t] + 1 \in 0 .. MaxTabCancels + MaxJobCancels
  BY <1>1, BoundsAssumption DEF CancelQuery, IInv, TypeOK, KillType
<1>4. asked' \in [Actors -> 0 .. MaxTabCancels + MaxJobCancels]
  BY <1>3 DEF CancelQuery, IInv, TypeOK, KillType
<1>5. kills' \subseteq Kill
  <2>1. [kind |-> "cancel", actor |-> t, run |-> run[t], idx |-> 0,
         n |-> asked[t] + 1, thread |-> running_queries[t]] \in Kill
    BY <1>1, <1>3, BoundsAssumption DEF CancelQuery, Kill, IInv, TypeOK, ActorType, TabType
  <2>2. QED BY <2>1 DEF CancelQuery, IInv, TypeOK, KillType
<1>6. QED BY <1>2, <1>4, <1>5, TypeFrames DEF CancelQuery, IInv, TypeOK, KillType

\* The KILL that request_cancel registers is well formed.
LEMMA RequestCancelType ==
  ASSUME IInv, NEW j \in Jobs, NEW n \in 0 .. MaxTabCancels + MaxJobCancels,
         RequestCancel(j, n)
  PROVE  kills' \subseteq Kill /\ cancel_requested' \in [Jobs -> BOOLEAN]
<1>1. cancel_requested' \in [Jobs -> BOOLEAN]
  BY DEF RequestCancel, IInv, TypeOK, JobType
<1>2. CASE mysql_thread_id[j] = 0
  BY <1>1, <1>2 DEF RequestCancel, IInv, TypeOK, KillType
<1>3. CASE mysql_thread_id[j] # 0
  <2>1. [kind |-> "export", actor |-> j, run |-> 0, idx |-> 0,
         n |-> n, thread |-> mysql_thread_id[j]] \in Kill
    BY <1>3, BoundsAssumption DEF Kill, IInv, TypeOK, JobType, Actors
  <2>2. QED BY <1>1, <1>3, <2>1 DEF RequestCancel, IInv, TypeOK, KillType
<1>4. QED BY <1>2, <1>3

LEMMA CancelExportPreserves ==
  ASSUME IInv, NEW j \in Jobs, CancelExport(j)
  PROVE  IInv'
<1>1. j \in Actors
  BY DEF Actors
<1>2. LockHeld' /\ Deregistered' /\ CancelTargetsOwnSession' /\ StatementAwaited'
  BY QuietStep DEF CancelExport, lockVars, tabVars, actorVars, serverVars
<1>3. asked[j] + 1 \in 0 .. MaxTabCancels + MaxJobCancels
  BY <1>1, BoundsAssumption DEF CancelExport, IInv, TypeOK, KillType
<1>4. kills' \subseteq Kill /\ cancel_requested' \in [Jobs -> BOOLEAN]
  BY <1>3, RequestCancelType DEF CancelExport
<1>5. KillType' /\ JobType'
  BY <1>3, <1>4 DEF CancelExport, IInv, TypeOK, KillType, JobType
<1>6. QED BY <1>2, <1>5, TypeFrames DEF CancelExport, IInv, TypeOK

LEMMA KillArrivesPreserves ==
  ASSUME IInv, NEW k \in kills, KillArrives(k)
  PROVE  IInv'
<1>1. k \in Kill
  BY DEF IInv, TypeOK, KillType
<1>2. LockHeld' /\ Deregistered' /\ CancelTargetsOwnSession' /\ StatementAwaited'
  BY QuietStep DEF KillArrives, lockVars, tabVars, jobVars
<1>3. flags' \in [Threads -> SUBSET Flag]
  BY <1>1, StrikeType DEF KillArrives, IInv, TypeOK
<1>4. ActorType' /\ KillType' /\ ServerType'
  BY <1>1, <1>3 DEF KillArrives, Kill, IInv, TypeOK, ActorType, KillType, ServerType
<1>5. QED BY <1>2, <1>4, TypeFrames DEF KillArrives, IInv, TypeOK

LEMMA KillGivenUpPreserves ==
  ASSUME IInv, NEW k \in kills, KillGivenUp(k)
  PROVE  IInv'
<1>1. LockHeld' /\ Deregistered' /\ CancelTargetsOwnSession' /\ StatementAwaited'
  BY QuietStep DEF KillGivenUp, lockVars, tabVars, jobVars, actorVars, serverVars
<1>2. KillType'
  BY DEF KillGivenUp, IInv, TypeOK, KillType
<1>3. QED BY <1>1, <1>2, TypeFrames DEF KillGivenUp, IInv, TypeOK

LEMMA CloseBeginPreserves ==
  ASSUME IInv, CloseBegin
  PROVE  IInv'
<1>1. LockHeld' /\ Deregistered' /\ CancelTargetsOwnSession' /\ StatementAwaited'
  BY QuietStep DEF CloseBegin, lockVars, tabVars, jobVars, actorVars, serverVars
<1>2. CloseType'
  BY DEF CloseBegin, IInv, TypeOK, CloseType
<1>3. QED BY <1>1, <1>2, TypeFrames DEF CloseBegin, IInv, TypeOK

LEMMA CloseCancelExportPreserves ==
  ASSUME IInv, NEW j \in Jobs, CloseCancelExport(j)
  PROVE  IInv'
<1>1. LockHeld' /\ Deregistered' /\ CancelTargetsOwnSession' /\ StatementAwaited'
  BY QuietStep DEF CloseCancelExport, lockVars, tabVars, actorVars, serverVars
<1>2. kills' \subseteq Kill /\ cancel_requested' \in [Jobs -> BOOLEAN]
  <2>1. 0 \in 0 .. MaxTabCancels + MaxJobCancels
    BY BoundsAssumption
  <2>2. CASE status[j] = "running"
    BY <2>1, <2>2, RequestCancelType DEF CloseCancelExport
  <2>3. CASE status[j] # "running"
    BY <2>3 DEF CloseCancelExport, IInv, TypeOK, KillType, JobType
  <2>4. QED BY <2>2, <2>3
<1>3. KillType' /\ JobType' /\ CloseType'
  BY <1>2 DEF CloseCancelExport, IInv, TypeOK, KillType, JobType, CloseType
<1>4. QED BY <1>1, <1>3, TypeFrames DEF CloseCancelExport, IInv, TypeOK

LEMMA CloseRemovePreserves ==
  ASSUME IInv, CloseRemove
  PROVE  IInv'
<1>1. LockHeld' /\ Deregistered' /\ CancelTargetsOwnSession' /\ StatementAwaited'
  BY QuietStep DEF CloseRemove, lockVars, tabVars, jobVars, actorVars, serverVars
<1>2. CloseType'
  BY DEF CloseRemove, IInv, TypeOK, CloseType
<1>3. QED BY <1>1, <1>2, TypeFrames DEF CloseRemove, IInv, TypeOK

LEMMA CloseRunningQueriesPreserves ==
  ASSUME IInv, CloseRunningQueries
  PROVE  IInv'
<1>1. /\ running_queries' = [t \in Tabs |-> 0]
      /\ UNCHANGED <<pc, queue, session, at, mysql_thread_id, stmt, reply>>
  BY DEF CloseRunningQueries, lockVars, actorVars, jobVars, serverVars
<1>2. LockHeld' /\ \A b \in Actors, th \in Threads : Owns(b, th) => Owns(b, th)'
  BY <1>1, OwnershipFrame DEF IInv
<1>3. Deregistered'
  BY <1>1 DEF IInv, Deregistered
<1>4. CancelTargetsOwnSession'
  <2>1. Tabs \subseteq Actors /\ Jobs \subseteq Actors /\ 0 \notin Threads
    BY DEF Actors, Threads
  <2>2. QED BY <1>1, <1>2, <2>1 DEF IInv, CancelTargetsOwnSession
<1>5. StatementAwaited'
  BY <1>1, <1>2, AllStatementsKept DEF IInv
<1>6. CloseType' /\ TabType'
  BY <1>1 DEF CloseRunningQueries, IInv, TypeOK, CloseType, TabType
<1>7. QED BY <1>2, <1>3, <1>4, <1>5, <1>6, TypeFrames DEF CloseRunningQueries, IInv, TypeOK

----------
(* The server. *)

\* The statement of a thread is over, with or without an answer to its sender.
LEMMA StatementOver ==
  ASSUME IInv, NEW th \in Threads,
         stmt' = [stmt EXCEPT ![th] = None],
         flags' = [flags EXCEPT ![th] = {}],
         \/ UNCHANGED reply
         \/ /\ stmt[th] # None
            /\ \E r \in {"ok", "err", "killed"} :
                  reply' = [reply EXCEPT ![stmt[th].actor] = r],
         UNCHANGED <<pc, queue, session, at, running_queries, mysql_thread_id>>
  PROVE  /\ LockHeld' /\ Deregistered' /\ CancelTargetsOwnSession' /\ StatementAwaited'
         /\ reply' \in [Actors -> {"none", "ok", "err", "killed"}]
         /\ stmt' \in [Threads -> Statement \cup {None}]
         /\ flags' \in [Threads -> SUBSET Flag]
<1>1. LockHeld' /\ \A b \in Actors, u \in Threads : Owns(b, u) => Owns(b, u)'
  BY OwnershipFrame DEF IInv
<1>2. Deregistered'
  BY DEF IInv, Deregistered
<1>3. CancelTargetsOwnSession'
  BY <1>1, AllTargetsKept DEF IInv
<1>4. stmt[th] # None => stmt[th].actor \in Actors
  BY DEF IInv, TypeOK, ServerType, Statement
<1>5. reply' \in [Actors -> {"none", "ok", "err", "killed"}]
  BY <1>4 DEF IInv, TypeOK, ActorType
<1>6. /\ stmt' \in [Threads -> Statement \cup {None}]
      /\ flags' \in [Threads -> SUBSET Flag]
  BY DEF IInv, TypeOK, ServerType
<1>7. StatementAwaited'
  <2>1. ASSUME NEW u \in Threads, NEW b \in Actors, RunsFor(u, b)'
        PROVE  Owns(b, u)' /\ pc'[b] \in AwaitingPC /\ reply'[b] = "none"
    <3>1. u # th /\ RunsFor(u, b)
      BY <2>1 DEF RunsFor, IInv, TypeOK, ServerType
    <3>2. Owns(b, u) /\ pc[b] \in AwaitingPC /\ reply[b] = "none"
      BY <3>1 DEF IInv, StatementAwaited
    <3>3. ~RunsFor(th, b)
      <4>1. Owns(b, th) => u = th
        BY <3>2 DEF Owns
      <4>2. QED BY <3>1, <4>1 DEF IInv, StatementAwaited
    <3>4. reply'[b] = reply[b]
      BY <1>4, <3>3 DEF RunsFor, IInv, TypeOK, ActorType
    <3>5. QED BY <1>1, <3>2, <3>4
  <2>2. QED BY <2>1 DEF StatementAwaited
<1>8. QED BY <1>1, <1>2, <1>3, <1>5, <1>6, <1>7

LEMMA ServerEndPreserves ==
  ASSUME IInv, NEW th \in Threads, ServerEnd(th)
  PROVE  IInv'
<1>1. /\ stmt' = [stmt EXCEPT ![th] = None] /\ flags' = [flags EXCEPT ![th] = {}]
      /\ stmt[th] # None
      /\ UNCHANGED <<pc, queue, session, at, running_queries, mysql_thread_id>>
  BY DEF ServerEnd, lockVars, tabVars, jobVars
<1>2. \E r \in {"ok", "err", "killed"} : reply' = [reply EXCEPT ![stmt[th].actor] = r]
  <2>1. PICK r \in {"ok", "err"} \cup IF flags[th] # {} THEN {"killed"} ELSE {} :
          reply' = [reply EXCEPT ![stmt[th].actor] = r]
    BY DEF ServerEnd
  <2>2. r \in {"ok", "err", "killed"}
    OBVIOUS
  <2>3. QED BY <2>1, <2>2
<1>3. /\ LockHeld' /\ Deregistered' /\ CancelTargetsOwnSession' /\ StatementAwaited'
      /\ reply' \in [Actors -> {"none", "ok", "err", "killed"}]
      /\ stmt' \in [Threads -> Statement \cup {None}]
      /\ flags' \in [Threads -> SUBSET Flag]
  BY <1>1, <1>2, StatementOver
<1>4. ActorType' /\ ServerType'
  BY <1>3 DEF ServerEnd, IInv, TypeOK, ActorType, ServerType
<1>5. QED BY <1>3, <1>4, TypeFrames DEF ServerEnd, IInv, TypeOK

LEMMA ConnectionLostPreserves ==
  ASSUME IInv, NEW th \in Threads, ConnectionLost(th)
  PROVE  IInv'
<1>1. /\ stmt' = [stmt EXCEPT ![th] = None] /\ flags' = [flags EXCEPT ![th] = {}]
      /\ UNCHANGED <<pc, queue, session, at, running_queries, mysql_thread_id>>
  BY DEF ConnectionLost, lockVars, tabVars, jobVars
<1>2. \/ UNCHANGED reply
      \/ /\ stmt[th] # None
         /\ \E r \in {"ok", "err", "killed"} :
               reply' = [reply EXCEPT ![stmt[th].actor] = r]
  BY DEF ConnectionLost
<1>3. /\ LockHeld' /\ Deregistered' /\ CancelTargetsOwnSession' /\ StatementAwaited'
      /\ reply' \in [Actors -> {"none", "ok", "err", "killed"}]
      /\ stmt' \in [Threads -> Statement \cup {None}]
      /\ flags' \in [Threads -> SUBSET Flag]
  BY <1>1, <1>2, StatementOver
<1>4. ActorType' /\ ServerType'
  BY <1>3 DEF ConnectionLost, IInv, TypeOK, ActorType, ServerType
<1>5. QED BY <1>3, <1>4, TypeFrames DEF ConnectionLost, IInv, TypeOK

----------
(* Waiting for the lock, taking it and letting go of it. *)

LEMMA QueueFacts ==
  ASSUME NEW q \in Seq(Actors), NEW a \in Actors
  PROVE  /\ Append(q, a) \in Seq(Actors)
         /\ q # << >> => /\ Append(q, a) # << >> /\ Head(Append(q, a)) = Head(q)
                         /\ Tail(q) \in Seq(Actors)
OBVIOUS

\* A task outside its critical section has nothing a cancel could target.
LEMMA OutsiderUnregistered ==
  ASSUME IInv, NEW a \in Actors, pc[a] \notin HoldingPC
  PROVE  /\ a \in Tabs => running_queries[a] = 0
         /\ a \in Jobs => mysql_thread_id[a] = 0
<1>1. \A th \in Threads : ~Owns(a, th)
  BY DEF Owns
<1>2. a \in Tabs => running_queries[a] = 0
  BY <1>1 DEF IInv, TypeOK, TabType, CancelTargetsOwnSession
<1>3. a \in Jobs => mysql_thread_id[a] = 0
  BY <1>1 DEF IInv, TypeOK, JobType, CancelTargetsOwnSession
<1>4. QED BY <1>2, <1>3

\* A task that holds nothing moves on, and everybody else stays as they are.
LEMMA OutsiderStep ==
  ASSUME IInv, NEW a \in Actors, NEW l, pc' = [pc EXCEPT ![a] = l],
         l \notin DisarmedPC,
         pc[a] \notin AwaitingPC,
         pc[a] \notin HoldingPC \/ pc[a] = "release",
         \A b \in Actors \ {a}, th \in Threads : Owns(b, th) => Owns(b, th)',
         UNCHANGED <<running_queries, mysql_thread_id, reply, stmt>>
  PROVE  Deregistered' /\ CancelTargetsOwnSession' /\ StatementAwaited'
<1>1. Deregistered'
  BY DeregisteredKept DEF IInv, TypeOK, DisarmedPC
<1>2. /\ a \in Tabs => running_queries[a] = 0
      /\ a \in Jobs => mysql_thread_id[a] = 0
  BY OutsiderUnregistered DEF IInv, Deregistered, DisarmedPC
<1>3. CancelTargetsOwnSession'
  BY <1>2, CancelTargetKept DEF IInv
<1>4. \A b \in Actors \ {a} : pc'[b] = pc[b] /\ reply'[b] = reply[b]
  BY DEF IInv, TypeOK, ActorType
<1>5. StatementAwaited'
  BY <1>4, StatementKept DEF IInv
<1>6. QED BY <1>1, <1>3, <1>5

LEMMA EnqueueFacts ==
  ASSUME LockType, ActorType, LockHeld, NEW a \in Actors, Enqueue(a),
         NEW l, l \notin HoldingPC \cup {"connecting"},
         pc[a] \notin HoldingPC, pc' = [pc EXCEPT ![a] = l]
  PROVE  /\ LockType' /\ LockHeld'
         /\ at' \in [Actors -> Slots]
         /\ \A b \in Actors, th \in Threads : Owns(b, th) => Owns(b, th)'
<1>1. PICK s \in Slots :
        /\ slot' = s /\ queue' = [queue EXCEPT ![s] = Append(@, a)]
        /\ at' = [at EXCEPT ![a] = s] /\ UNCHANGED session
  BY DEF Enqueue, LockType, Slots
<1>2. LockType'
  BY <1>1, QueueFacts DEF LockType
<1>3. at' \in [Actors -> Slots]
  BY <1>1 DEF ActorType
<1>4. \A b \in Actors \ {a} : pc'[b] = pc[b] /\ at'[b] = at[b]
  BY <1>1 DEF ActorType
<1>5. \A r \in Slots : queue[r] # << >> => queue'[r] # << >> /\ Head(queue'[r]) = Head(queue[r])
  BY <1>1, QueueFacts DEF LockType
<1>6. \A b \in Actors \ {a} : Holds(b) => Holds(b)'
  BY <1>4, <1>5 DEF Holds, ActorType
<1>7. \A b \in Actors \ {a} : Thread(b)' = Thread(b)
  BY <1>1, <1>4 DEF Thread
<1>8. pc'[a] = l
  BY DEF ActorType
<1>9. LockHeld'
  BY <1>4, <1>6, <1>7, <1>8 DEF LockHeld
<1>10. \A b \in Actors, th \in Threads : Owns(b, th) => Owns(b, th)'
  BY <1>4, <1>6, <1>7 DEF Owns
<1>11. QED BY <1>2, <1>3, <1>9, <1>10

\* The head of a queue decides over its slot: nobody else relies on it.
LEMMA OtherSlots ==
  ASSUME ActorType, LockHeld, NEW a \in Actors, Holds(a)
  PROVE  \A b \in Actors \ {a} : pc[b] \in HoldingPC \cup {"connecting"} => at[b] # at[a]
BY DEF LockHeld, Holds

\* The holder lets go: its slot's queue advances.
LEMMA ReleaseFacts ==
  ASSUME LockType, ActorType, LockHeld, NEW a \in Actors, Holds(a),
         NEW v \in {0} \cup Threads,
         queue' = [queue EXCEPT ![at[a]] = Tail(@)],
         session' = [session EXCEPT ![at[a]] = v],
         UNCHANGED <<slot, at>>,
         NEW l, l \notin HoldingPC \cup {"connecting"}, pc' = [pc EXCEPT ![a] = l]
  PROVE  /\ LockType' /\ LockHeld'
         /\ \A b \in Actors \ {a}, th \in Threads : Owns(b, th) => Owns(b, th)'
<1>1. at[a] \in Slots /\ queue[at[a]] # << >> /\ queue[at[a]] \in Seq(Actors)
  BY DEF ActorType, LockType, Holds
<1>2. LockType'
  BY <1>1, QueueFacts DEF LockType
<1>3. pc'[a] = l /\ \A b \in Actors \ {a} : pc'[b] = pc[b]
  BY DEF ActorType
<1>4. \A b \in Actors \ {a} : at[b] # at[a] =>
        /\ Holds(b)' = Holds(b)
        /\ Thread(b)' = Thread(b)
  BY <1>1 DEF Holds, Thread, ActorType, LockType
<1>5. \A b \in Actors \ {a} : pc[b] \in HoldingPC \cup {"connecting"} => at[b] # at[a]
  BY OtherSlots
<1>6. LockHeld'
  BY <1>3, <1>4, <1>5 DEF LockHeld
<1>7. \A b \in Actors \ {a}, th \in Threads : Owns(b, th) => Owns(b, th)'
  BY <1>3, <1>4, <1>5 DEF Owns
<1>8. QED BY <1>2, <1>6, <1>7

\* The head of the queue takes the lock, or replaces the session under it.
LEMMA AcquireFacts ==
  ASSUME LockType, ActorType, LockHeld, NEW a \in Actors, Holds(a),
         NEW v \in {0} \cup Threads,
         session' = [session EXCEPT ![at[a]] = v],
         UNCHANGED <<slot, queue, at>>,
         NEW l \in {"connecting", "granted"}, l = "granted" => v # 0,
         pc' = [pc EXCEPT ![a] = l]
  PROVE  /\ LockType' /\ LockHeld'
         /\ \A b \in Actors \ {a}, th \in Threads : Owns(b, th) => Owns(b, th)'
<1>1. at[a] \in Slots
  BY DEF ActorType
<1>2. LockType'
  BY <1>1 DEF LockType
<1>3. pc'[a] = l /\ \A b \in Actors \ {a} : pc'[b] = pc[b]
  BY DEF ActorType
<1>4. \A b \in Actors : Holds(b)' = Holds(b)
  BY DEF Holds
<1>5. Thread(a)' = v /\ \A b \in Actors \ {a} : at[b] # at[a] => Thread(b)' = Thread(b)
  BY <1>1 DEF Thread, ActorType, LockType
<1>6. \A b \in Actors \ {a} : pc[b] \in HoldingPC \cup {"connecting"} => at[b] # at[a]
  BY OtherSlots
<1>7. LockHeld'
  <2>1. Holds(a)' /\ (l \in HoldingPC => Thread(a)' # 0)
    BY <1>4, <1>5 DEF HoldingPC
  <2>2. QED BY <1>3, <1>4, <1>5, <1>6, <2>1 DEF LockHeld
<1>8. \A b \in Actors \ {a}, th \in Threads : Owns(b, th) => Owns(b, th)'
  BY <1>3, <1>4, <1>5, <1>6 DEF Owns
<1>9. QED BY <1>2, <1>7, <1>8

LEMMA AcquirePreserves ==
  ASSUME IInv, NEW a \in Actors, Acquire(a)
  PROVE  IInv'
<1> USE DEF IInv, TypeOK
<1>1. at[a] \in Slots /\ Thread(a) \in {0} \cup Threads
  BY DEF ActorType, LockType, Thread
<1>2. UNCHANGED <<running_queries, mysql_thread_id, reply, stmt, at>>
  BY DEF Acquire, AcquireAlive, AcquireReconnect, AcquireFail, AcquireConnect,
         tabVars, jobVars, serverVars
<1>3. pc[a] \in {"queued", "connecting"} /\ Holds(a)
  <2>1. pc[a] = "connecting" => Holds(a)
    BY DEF LockHeld
  <2>2. QED
    BY <2>1 DEF Acquire, AcquireAlive, AcquireReconnect, AcquireFail, AcquireConnect
<1>4. PICK l \in {"granted", "connecting", "idle", "complete"} : pc' = [pc EXCEPT ![a] = l]
  BY DEF Acquire, AcquireAlive, AcquireReconnect, AcquireFail, AcquireConnect, Goto
<1>5. /\ LockType' /\ LockHeld'
      /\ \A b \in Actors \ {a}, th \in Threads : Owns(b, th) => Owns(b, th)'
  <2>1. CASE AcquireAlive(a)
    <3>1. session' = [session EXCEPT ![at[a]] = Thread(a)] /\ Thread(a) # 0
      BY <1>1, <2>1 DEF AcquireAlive, Thread, lockVars, LockType
    <3>2. pc' = [pc EXCEPT ![a] = "granted"] /\ UNCHANGED <<slot, queue>>
      BY <2>1 DEF AcquireAlive, Goto, lockVars
    <3>3. QED BY <1>1, <1>2, <1>3, <3>1, <3>2, AcquireFacts
  <2>2. CASE AcquireReconnect(a)
    <3>1. /\ session' = [session EXCEPT ![at[a]] = 0] /\ UNCHANGED <<slot, queue>>
          /\ pc' = [pc EXCEPT ![a] = "connecting"]
      BY <2>2 DEF AcquireReconnect, Goto
    <3>2. QED BY <1>2, <1>3, <3>1, AcquireFacts
  <2>3. CASE AcquireFail(a)
    <3>1. /\ session' = [session EXCEPT ![at[a]] = 0]
          /\ queue' = [queue EXCEPT ![at[a]] = Tail(@)] /\ UNCHANGED slot
      BY <2>3 DEF AcquireFail
    <3>2. PICK m \in {"idle", "complete"} : pc' = [pc EXCEPT ![a] = m]
      BY <2>3 DEF AcquireFail, Goto
    <3>3. m \notin HoldingPC \cup {"connecting"}
      BY DEF HoldingPC
    <3>4. QED BY <1>2, <1>3, <3>1, <3>2, <3>3, ReleaseFacts
  <2>4. CASE AcquireConnect(a)
    <3>1. nextThread \in Threads /\ nextThread # 0
      BY <2>4 DEF AcquireConnect, ServerType, Threads
    <3>2. /\ session' = [session EXCEPT ![at[a]] = nextThread] /\ UNCHANGED <<slot, queue>>
          /\ pc' = [pc EXCEPT ![a] = "granted"]
      BY <2>4 DEF AcquireConnect, Goto
    <3>3. QED BY <1>2, <1>3, <3>1, <3>2, AcquireFacts
  <2>5. QED BY <2>1, <2>2, <2>3, <2>4 DEF Acquire
<1>6. Deregistered' /\ CancelTargetsOwnSession' /\ StatementAwaited'
  <2>1. pc[a] \notin HoldingPC /\ pc[a] \notin AwaitingPC /\ l \notin DisarmedPC
    BY <1>3 DEF HoldingPC, AwaitingPC, DisarmedPC
  <2>2. QED BY <1>2, <1>4, <1>5, <2>1, OutsiderStep
<1>7. ActorType'
  <2>1. pc' \in [Actors -> TabPC \cup JobPC]
    BY <1>4 DEF ActorType, TabPC, JobPC
  <2>2. UNCHANGED <<at, run, idx, reply, kill_sent>>
    BY DEF Acquire, AcquireAlive, AcquireReconnect, AcquireFail, AcquireConnect
  <2>3. QED BY <2>1, <2>2 DEF ActorType
<1>8. JobType'
  <2>1. /\ UNCHANGED <<status, cancel_requested, mysql_thread_id, interrupted, stopping,
                       restore_to, timedOut, written>>
        /\ UNCHANGED outcome \/ outcome' = [outcome EXCEPT ![a] = "failed"]
    BY DEF Acquire, AcquireAlive, AcquireReconnect, AcquireFail, AcquireConnect, jobVars
  <2>2. QED BY <2>1 DEF JobType
<1>9. ServerType'
  <2>1. UNCHANGED <<stmt, flags, gone>>
    BY DEF Acquire, AcquireAlive, AcquireReconnect, AcquireFail, AcquireConnect, serverVars
  <2>2. UNCHANGED nextThread \/ (nextThread <= MaxThreads /\ nextThread' = nextThread + 1)
    BY DEF Acquire, AcquireAlive, AcquireReconnect, AcquireFail, AcquireConnect, serverVars
  <2>3. nextThread' \in 1 .. MaxThreads + 1
    BY <2>2, BoundsAssumption DEF ServerType
  <2>4. QED BY <2>1, <2>3 DEF ServerType
<1>10. UNCHANGED <<closeVars, tabVars, killVars>>
  BY DEF Acquire, AcquireAlive, AcquireReconnect, AcquireFail, AcquireConnect
<1>11. QED BY <1>5, <1>6, <1>7, <1>8, <1>9, <1>10, TypeFrames

LEMMA RunQueryPreserves ==
  ASSUME IInv, NEW t \in Tabs, RunQuery(t)
  PROVE  IInv'
<1> USE DEF IInv, TypeOK
<1>1. t \in Actors
  BY DEF Actors
<1>2. /\ pc[t] = "idle" /\ pc' = [pc EXCEPT ![t] = "queued"] /\ Enqueue(t)
      /\ UNCHANGED <<running_queries, mysql_thread_id, reply, stmt, kill_sent>>
  BY DEF RunQuery, Goto, tabVars, jobVars, serverVars
<1>3. /\ pc[t] \notin HoldingPC /\ pc[t] \notin AwaitingPC
      /\ "queued" \notin HoldingPC \cup {"connecting"} /\ "queued" \notin DisarmedPC
  BY <1>2 DEF HoldingPC, AwaitingPC, DisarmedPC
<1>4. /\ LockType' /\ LockHeld' /\ at' \in [Actors -> Slots]
      /\ \A b \in Actors, th \in Threads : Owns(b, th) => Owns(b, th)'
  BY <1>1, <1>2, <1>3, EnqueueFacts
<1>5. Deregistered' /\ CancelTargetsOwnSession' /\ StatementAwaited'
  BY <1>1, <1>2, <1>3, <1>4, OutsiderStep
<1>6. ActorType'
  <2>1. pc' \in [Actors -> TabPC \cup JobPC]
    BY <1>2 DEF ActorType, TabPC
  <2>2. run' \in [Actors -> 0 .. MaxRuns] /\ idx' \in [Actors -> 0 .. MaxStatements]
    BY <1>1, BoundsAssumption DEF RunQuery, ActorType
  <2>3. QED BY <1>2, <1>4, <2>1, <2>2 DEF ActorType
<1>7. UNCHANGED <<closeVars, tabVars, jobVars, killVars, serverVars>>
  BY DEF RunQuery
<1>8. QED BY <1>4, <1>5, <1>6, <1>7, TypeFrames

LEMMA BeginExportPreserves ==
  ASSUME IInv, NEW j \in Jobs, BeginExport(j)
  PROVE  IInv'
<1> USE DEF IInv, TypeOK
<1>1. j \in Actors
  BY DEF Actors
<1>2. /\ pc[j] = "spawned"
      /\ UNCHANGED <<running_queries, mysql_thread_id, reply, stmt, kill_sent, run, idx>>
  BY DEF BeginExport, tabVars, jobVars, serverVars
<1>3. pc[j] \notin HoldingPC /\ pc[j] \notin AwaitingPC
  BY <1>2 DEF HoldingPC, AwaitingPC
<1>4. PICK l \in {"queued", "complete"} : pc' = [pc EXCEPT ![j] = l]
  BY DEF BeginExport, Goto
<1>5. l \notin HoldingPC \cup {"connecting"} /\ l \notin DisarmedPC
  BY DEF HoldingPC, DisarmedPC
<1>6. /\ LockType' /\ LockHeld' /\ at' \in [Actors -> Slots]
      /\ \A b \in Actors, th \in Threads : Owns(b, th) => Owns(b, th)'
  <2>1. CASE Enqueue(j)
    BY <1>1, <1>3, <1>4, <1>5, <2>1, EnqueueFacts
  <2>2. CASE UNCHANGED <<lockVars, at>>
    <3>1. UNCHANGED <<queue, session, at>> /\ UNCHANGED lockVars
      BY <2>2 DEF lockVars
    <3>2. QED BY <1>1, <1>3, <1>4, <1>5, <3>1, OutsiderMoves, TypeFrames DEF ActorType
  <2>3. QED BY <2>1, <2>2 DEF BeginExport
<1>7. Deregistered' /\ CancelTargetsOwnSession' /\ StatementAwaited'
  BY <1>1, <1>2, <1>3, <1>4, <1>5, <1>6, OutsiderStep
<1>8. ActorType'
  BY <1>2, <1>4, <1>6 DEF ActorType, JobPC
<1>9. UNCHANGED <<closeVars, tabVars, jobVars, killVars, serverVars>>
  BY DEF BeginExport
<1>10. QED BY <1>6, <1>7, <1>8, <1>9, TypeFrames

\* The guard is dropped by its owner.
LEMMA UnlockPreserves ==
  ASSUME IInv, NEW a \in Actors, pc[a] = "release", Unlock(a),
         NEW l \in {"idle", "complete"}, pc' = [pc EXCEPT ![a] = l],
         UNCHANGED <<closeVars, at, run, idx, reply, kill_sent, tabVars, jobVars,
                     killVars, stmt, flags, nextThread>>
  PROVE  IInv'
<1> USE DEF IInv, TypeOK
<1>1. Holds(a) /\ at[a] \in Slots /\ session[at[a]] \in {0} \cup Threads
  BY DEF LockHeld, HoldingPC, ActorType, LockType
<1>2. l \notin HoldingPC \cup {"connecting"} /\ l \notin DisarmedPC /\ pc[a] \notin AwaitingPC
  BY DEF HoldingPC, DisarmedPC, AwaitingPC
<1>3. PICK v \in {0} \cup Threads : session' = [session EXCEPT ![at[a]] = v]
  <2>1. \/ session' = [session EXCEPT ![at[a]] = 0]
        \/ session' = [session EXCEPT ![at[a]] = session[at[a]]]
    BY DEF Unlock
  <2>2. QED BY <1>1, <2>1
<1>4. queue' = [queue EXCEPT ![at[a]] = Tail(@)] /\ UNCHANGED <<slot, at>>
  BY DEF Unlock
<1>5. /\ LockType' /\ LockHeld'
      /\ \A b \in Actors \ {a}, th \in Threads : Owns(b, th) => Owns(b, th)'
  BY <1>1, <1>2, <1>3, <1>4, ReleaseFacts
<1>6. UNCHANGED <<running_queries, mysql_thread_id>>
  BY DEF tabVars, jobVars
<1>7. Deregistered' /\ CancelTargetsOwnSession' /\ StatementAwaited'
  BY <1>2, <1>5, <1>6, OutsiderStep
<1>8. ActorType'
  BY DEF ActorType, TabPC, JobPC
<1>9. ServerType'
  <2>1. gone' \subseteq Threads
    <3>1. UNCHANGED gone \/ (session[at[a]] # 0 /\ gone' = gone \cup {session[at[a]]})
      BY DEF Unlock
    <3>2. QED BY <1>1, <3>1 DEF ServerType
  <2>2. QED BY <2>1 DEF ServerType
<1>10. QED BY <1>5, <1>7, <1>8, <1>9, TypeFrames

LEMMA ReleasePreserves ==
  /\ \A t \in Tabs : IInv /\ ReleaseTab(t) => IInv'
  /\ \A j \in Jobs : IInv /\ ReleaseJob(j) => IInv'
<1>1. ASSUME NEW t \in Tabs, IInv, ReleaseTab(t)
      PROVE  IInv'
  <2>1. t \in Actors
    BY DEF Actors
  <2>2. QED BY <1>1, <2>1, UnlockPreserves DEF ReleaseTab, Goto
<1>2. ASSUME NEW j \in Jobs, IInv, ReleaseJob(j)
      PROVE  IInv'
  <2>1. j \in Actors
    BY DEF Actors
  <2>2. QED BY <1>2, <2>1, UnlockPreserves DEF ReleaseJob, Goto
<1>3. QED BY <1>1, <1>2

LEMMA CloseSessionPreserves ==
  ASSUME IInv, CloseSession
  PROVE  IInv'
<1> USE DEF IInv, TypeOK
<1>1. /\ slot' = 0
      /\ UNCHANGED <<pc, queue, at, running_queries, mysql_thread_id, reply, stmt>>
  BY DEF CloseSession, actorVars, tabVars, jobVars
<1>2. \/ UNCHANGED <<session, gone>>
      \/ /\ slot \in Slots /\ queue[slot] = << >>
         /\ session' = [session EXCEPT ![slot] = 0]
         /\ gone' = gone \cup ({session[slot]} \ {0})
  BY DEF CloseSession, LockType
<1>3. LockType'
  BY <1>1, <1>2 DEF LockType
<1>4. \A b \in Actors : /\ Holds(b)' = Holds(b)
                        /\ Holds(b) => Thread(b)' = Thread(b)
  <2>1. \A b \in Actors : at[b] \in Slots
    BY DEF ActorType
  <2>2. \A s \in Slots : queue[s] # << >> => session'[s] = session[s]
    BY <1>2 DEF LockType
  <2>3. QED BY <1>1, <2>1, <2>2 DEF Holds, Thread
<1>5. LockHeld' /\ \A b \in Actors, th \in Threads : Owns(b, th) => Owns(b, th)'
  <2>1. LockHeld'
    <3>1. ASSUME NEW b \in Actors
          PROVE  /\ pc'[b] \in HoldingPC \cup {"connecting"} => Holds(b)'
                 /\ pc'[b] \in HoldingPC => Thread(b)' # 0
      <4>1. pc'[b] = pc[b]
        BY <1>1
      <4>2. QED BY <1>4, <4>1 DEF LockHeld
    <3>2. QED BY <3>1 DEF LockHeld
  <2>2. ASSUME NEW b \in Actors, NEW th \in Threads, Owns(b, th)
        PROVE  Owns(b, th)'
    BY <1>1, <1>4, <2>2 DEF Owns
  <2>3. QED BY <2>1, <2>2
<1>6. Deregistered'
  BY <1>1 DEF Deregistered
<1>7. CancelTargetsOwnSession' /\ StatementAwaited'
  <2>1. CancelTargetsOwnSession'
    BY <1>1, <1>5, AllTargetsKept
  <2>2. \A b \in Actors : pc[b] \in AwaitingPC => pc'[b] \in AwaitingPC
    BY <1>1
  <2>3. StatementAwaited'
    BY <1>1, <1>5, <2>2, AllStatementsKept
  <2>4. QED BY <2>1, <2>3
<1>8. CloseType' /\ ServerType'
  BY <1>2 DEF CloseSession, CloseType, ServerType, LockType
<1>9. UNCHANGED <<actorVars, tabVars, jobVars, killVars>>
  BY DEF CloseSession
<1>10. QED BY <1>3, <1>5, <1>6, <1>7, <1>8, <1>9, TypeFrames

----------
(* An export outside its critical section. *)

LEMMA StartExportPreserves ==
  ASSUME IInv, NEW j \in Jobs, StartExport(j)
  PROVE  IInv'
<1> USE DEF IInv, TypeOK
<1>1. j \in Actors
  BY DEF Actors
<1>2. /\ pc[j] = "idle" /\ pc' = [pc EXCEPT ![j] = "spawned"]
      /\ UNCHANGED <<queue, session, at, running_queries, mysql_thread_id, reply, stmt>>
  BY DEF StartExport, Goto, lockVars, tabVars, serverVars
<1>3. /\ pc[j] \notin HoldingPC /\ pc[j] \notin AwaitingPC
      /\ "spawned" \notin HoldingPC \cup {"connecting"} /\ "spawned" \notin DisarmedPC
  BY <1>2 DEF HoldingPC, AwaitingPC, DisarmedPC
<1>4. LockHeld' /\ \A b \in Actors, th \in Threads : Owns(b, th) => Owns(b, th)'
  BY <1>1, <1>2, <1>3, OutsiderMoves
<1>5. Deregistered' /\ CancelTargetsOwnSession' /\ StatementAwaited'
  BY <1>1, <1>2, <1>3, <1>4, OutsiderStep
<1>6. ActorType' /\ JobType'
  BY <1>2 DEF StartExport, ActorType, JobType, JobPC
<1>7. QED BY <1>4, <1>5, <1>6, TypeFrames DEF StartExport

LEMMA FinishFilePreserves ==
  ASSUME IInv, NEW j \in Jobs, FinishFile(j)
  PROVE  IInv'
<1> USE DEF IInv, TypeOK
<1>1. j \in Actors
  BY DEF Actors
<1>2. /\ pc[j] = "complete" /\ pc' = [pc EXCEPT ![j] = "publish"]
      /\ UNCHANGED <<queue, session, at, running_queries, mysql_thread_id, reply, stmt>>
  BY DEF FinishFile, Goto, lockVars, tabVars, serverVars
<1>3. /\ pc[j] \notin HoldingPC /\ pc[j] \notin AwaitingPC
      /\ "publish" \notin HoldingPC \cup {"connecting"} /\ "publish" \notin DisarmedPC
  BY <1>2 DEF HoldingPC, AwaitingPC, DisarmedPC
<1>4. LockHeld' /\ \A b \in Actors, th \in Threads : Owns(b, th) => Owns(b, th)'
  BY <1>1, <1>2, <1>3, OutsiderMoves
<1>5. Deregistered' /\ CancelTargetsOwnSession' /\ StatementAwaited'
  BY <1>1, <1>2, <1>3, <1>4, OutsiderStep
<1>6. ActorType'
  BY <1>2 DEF FinishFile, ActorType, JobPC
<1>7. JobType'
  <2>1. UNCHANGED written \/ written' = [written EXCEPT ![j] = TRUE]
    BY DEF FinishFile
  <2>2. \/ UNCHANGED outcome \/ outcome' = [outcome EXCEPT ![j] = "failed"]
        \/ outcome' = [outcome EXCEPT ![j] = "cancelled"]
    BY DEF FinishFile
  <2>3. written' \in [Jobs -> BOOLEAN] /\ outcome' \in [Jobs -> {"completed", "cancelled", "failed"}]
    BY <2>1, <2>2 DEF JobType
  <2>4. QED BY <2>3 DEF FinishFile, JobType
<1>8. QED BY <1>4, <1>5, <1>6, <1>7, TypeFrames DEF FinishFile

LEMMA PublishStatusPreserves ==
  ASSUME IInv, NEW j \in Jobs, PublishStatus(j)
  PROVE  IInv'
<1> USE DEF IInv, TypeOK
<1>1. j \in Actors
  BY DEF Actors
<1>2. /\ pc[j] = "publish" /\ pc' = [pc EXCEPT ![j] = "done"]
      /\ mysql_thread_id' = [mysql_thread_id EXCEPT ![j] = 0]
      /\ UNCHANGED <<queue, session, at, running_queries, reply, stmt>>
  BY DEF PublishStatus, Goto, lockVars, tabVars, serverVars
<1>3. /\ pc[j] \notin HoldingPC /\ pc[j] \notin AwaitingPC
      /\ "done" \notin HoldingPC \cup {"connecting"} /\ "done" \notin DisarmedPC
  BY <1>2 DEF HoldingPC, AwaitingPC, DisarmedPC
<1>4. LockHeld' /\ \A b \in Actors, th \in Threads : Owns(b, th) => Owns(b, th)'
  BY <1>1, <1>2, <1>3, OutsiderMoves
<1>5. UNCHANGED mysql_thread_id
  <2>1. mysql_thread_id[j] = 0
    BY <1>1, <1>3, OutsiderUnregistered
  <2>2. QED BY <1>2, <2>1 DEF JobType
<1>6. Deregistered' /\ CancelTargetsOwnSession' /\ StatementAwaited'
  BY <1>1, <1>2, <1>3, <1>4, <1>5, OutsiderStep
<1>7. ActorType' /\ JobType'
  BY <1>2, <1>5 DEF PublishStatus, ActorType, JobType, JobPC
<1>8. QED BY <1>4, <1>6, <1>7, TypeFrames DEF PublishStatus

----------
(* The inductive invariant. *)

LEMMA InitIInv == Init => IInv
<1> SUFFICES ASSUME Init PROVE IInv
  OBVIOUS
<1>1. LockType /\ CloseType
  BY DEF Init, LockType, CloseType, Slots
<1>2. ActorType /\ TabType
  BY BoundsAssumption DEF Init, ActorType, TabType, TabPC, Slots
<1>3. JobType /\ KillType
  BY BoundsAssumption DEF Init, JobType, KillType
<1>4. ServerType
  BY BoundsAssumption DEF Init, ServerType
<1>5. LockHeld
  BY DEF Init, LockHeld, HoldingPC
<1>6. Deregistered
  BY DEF Init, Deregistered
<1>7. CancelTargetsOwnSession
  BY DEF Init, CancelTargetsOwnSession, Threads
<1>8. StatementAwaited
  BY DEF Init, StatementAwaited, RunsFor
<1>9. QED BY <1>1, <1>2, <1>3, <1>4, <1>5, <1>6, <1>7, <1>8 DEF IInv, TypeOK

LEMMA StutterIInv == IInv /\ UNCHANGED vars => IInv'
<1> SUFFICES ASSUME IInv, UNCHANGED vars PROVE IInv'
  OBVIOUS
<1>1. UNCHANGED <<pc, queue, session, at, running_queries, mysql_thread_id, stmt, reply>>
  BY DEF vars, lockVars, actorVars, tabVars, jobVars, serverVars
<1>2. LockHeld' /\ Deregistered' /\ CancelTargetsOwnSession' /\ StatementAwaited'
  BY <1>1, QuietStep
<1>3. QED BY <1>2, TypeFrames DEF IInv, TypeOK, vars

\* Every action keeps the inductive invariant.
LEMMA NextIInv == IInv /\ [Next]_vars => IInv'
<1> SUFFICES ASSUME IInv, [Next]_vars PROVE IInv'
  OBVIOUS
<1>1. CASE \E a \in Actors : Acquire(a)
  BY <1>1, AcquirePreserves
<1>2. CASE \E t \in Tabs : RunQuery(t) \/ TabStep(t) \/ CancelQuery(t)
  <2>1. PICK t \in Tabs : RunQuery(t) \/ TabStep(t) \/ CancelQuery(t)
    BY <1>2
  <2>2. QED
    BY <2>1, RunQueryPreserves, RegisterPreserves, StartStatementPreserves,
       StatementEndPreserves, CeilingKillPreserves, DrainEndPreserves, AbsorbEndPreserves,
       CaptureEndPreserves, UnregisterPreserves, ReleasePreserves, CancelQueryPreserves
       DEF TabStep
<1>3. CASE \E j \in Jobs : StartExport(j) \/ JobStep(j) \/ CancelExport(j)
  <2>1. PICK j \in Jobs : StartExport(j) \/ JobStep(j) \/ CancelExport(j)
    BY <1>3
  <2>2. QED
    BY <2>1, StartExportPreserves, BeginExportPreserves, SetJobThreadPreserves,
       StartRerunPreserves, ReadDatabasePreserves, UseDatabasePreserves,
       StopStreamPreserves, StreamEndPreserves, ClearJobThreadPreserves,
       WaitForCancelKillsPreserves, WaitTimeoutPreserves, ExportAbsorbEndPreserves,
       RestoreEndPreserves, ReleasePreserves, FinishFilePreserves,
       PublishStatusPreserves, CancelExportPreserves
       DEF JobStep
<1>4. CASE \E k \in kills : KillArrives(k) \/ KillGivenUp(k)
  BY <1>4, KillArrivesPreserves, KillGivenUpPreserves
<1>5. CASE \E th \in Threads : ServerEnd(th) \/ ConnectionLost(th)
  BY <1>5, ServerEndPreserves, ConnectionLostPreserves
<1>6. CASE Close
  BY <1>6, CloseBeginPreserves, CloseCancelExportPreserves, CloseRemovePreserves,
     CloseRunningQueriesPreserves, CloseSessionPreserves DEF Close
<1>7. CASE UNCHANGED vars
  BY <1>7, StutterIInv
<1>8. QED BY <1>1, <1>2, <1>3, <1>4, <1>5, <1>6, <1>7 DEF Next

\* The inductive invariant holds in every reachable state.
THEOREM InductiveInvariant == Spec => []IInv
BY InitIInv, NextIInv, PTL DEF Spec

\* Every variable keeps its type: no cancel KILL of an export is ever registered
\* without a thread, no statement or flag names an unknown task.
THEOREM TypeCorrect == Spec => []TypeOK
<1>1. IInv => TypeOK
  BY DEF IInv
<1>2. QED BY <1>1, InductiveInvariant, PTL

\* Whatever cancel_query and request_cancel read is the session of the task that
\* registered it, with any number of tabs, exports, runs, faults and closes.
THEOREM CancelTargetsOwn == Spec => []CancelTargetsOwnSession
<1>1. IInv => CancelTargetsOwnSession
  BY DEF IInv
<1>2. QED BY <1>1, InductiveInvariant, PTL

\* A statement runs on the shared session only for the task that holds the slot
\* mutex: drains, absorbing statements and restores included.
THEOREM StatementsOwned == Spec => []StatementsOfOwner
<1>1. IInv => StatementsOfOwner
  BY DEF IInv, StatementAwaited, StatementsOfOwner
<1>2. QED BY <1>1, InductiveInvariant, PTL

----------
(***************************************************************************)
(* Whom the KILLs of exports and of the row ceiling hit, how an export     *)
(* ends and what close_connection leaves; at the end, the refinement of    *)
(* FifoSession.                                                            *)
(*                                                                         *)
(* KInv extends IInv:                                                      *)
(*   - SlotInv: only the slot close() removes ever holds a session, so     *)
(*     two tasks never own one thread, and it holds none once it is        *)
(*     closed and empty;                                                   *)
(*   - FreshInv: a thread that does not exist yet has no KILL set on it;   *)
(*   - DeadInv: nothing is set on a dead thread that is still in the slot; *)
(*   - RunInv: a statement belongs to its task's current run;              *)
(*   - RegisteredInv: an export keeps the session while a KILL of its      *)
(*     cancels is in flight, unless it gave up waiting;                    *)
(*   - PendingInv: a KILL that is set on a thread and has interrupted      *)
(*     nothing yet belongs to the owner of the thread, who will absorb it; *)
(*   - OutcomeInv: what an export's outcome, file and status say agree.    *)
(***************************************************************************)

\* Labels of an export whose re-run is over.
OverPC == {"disarm", "wait", "absorb", "restore", "retry", "release", "complete",
           "publish", "done"}

\* Labels of an export that has waited for the KILLs of its cancels.
WaitedPC == {"absorb", "restore", "retry", "release"}

SlotInv ==
    /\ slot = 1 => closing # "closed"
    /\ slot = 2 => closing = "closed"
    /\ closing \in {"removed", "retained", "closed"} => ~registered
    /\ slot = 0 /\ closing # "closed" => queue[1] = << >> /\ session[1] = 0
    /\ session[2] = 0
    /\ \A a \in Actors : at[a] = 2 => closing = "closed"
    /\ \A a \in Actors : pc[a] = "connecting" => at[a] = 1
    /\ closing = "closed" /\ queue[1] = << >> => session[1] = 0

FreshInv ==
    /\ session[1] < nextThread
    /\ \A th \in Threads : th >= nextThread => flags[th] = {}
    /\ \A k \in kills : k.thread < nextThread

DeadInv == \A th \in gone : session[1] = th => flags[th] = {}

RunInv ==
    \A th \in Threads : \A a \in Actors : RunsFor(th, a) =>
        /\ stmt[th].run = run[a]
        /\ a \in Tabs => stmt[th].idx = idx[a]

RegisteredInv ==
    \A k \in kills :
        /\ k.kind # "ceiling"
        /\ k.kind = "export" =>
            /\ k.actor \in Jobs /\ k.run = 0 /\ k.idx = 0
            /\ \/ timedOut[k.actor]
               \/ Owns(k.actor, k.thread) /\ pc[k.actor] \notin WaitedPC

\* The owner of the thread sent k, and will see that it has not ended its stream.
Pending(k, th) ==
    /\ Owns(k.actor, th)
    /\ kill_sent[k.actor]
    /\ reply[k.actor] # "killed"
    /\ pc[k.actor] = "absorb" => reply[k.actor] = "none"

CeilingPending(k, th) ==
    /\ k.actor \in Tabs
    /\ Pending(k, th)
    /\ k.run = run[k.actor] /\ k.idx = idx[k.actor]
    /\ pc[k.actor] \in {"drain", "absorb"}

ExportPending(k, th) ==
    /\ k.actor \in Jobs
    /\ Pending(k, th)
    /\ k.run = 0 /\ k.idx = 0
    /\ ~interrupted[k.actor]
    /\ pc[k.actor] \notin {"restore", "retry", "release"}

FlagPending(f, th) ==
    f.mark = "first" =>
        /\ f.kill.kind = "ceiling" => CeilingPending(f.kill, th)
        /\ f.kill.kind = "export" =>
              /\ f.kill.actor \in Jobs
              /\ timedOut[f.kill.actor] \/ ExportPending(f.kill, th)

PendingInv == \A th \in Threads : \A f \in flags[th] : FlagPending(f, th)

EndStatus == {"completed", "cancelled", "failed"}

OutcomeOf(j) ==
    /\ outcome[j] = "completed" =>
          pc[j] \in OverPC /\ (interrupted[j] => stopping[j] = "limit")
    /\ written[j] => pc[j] \in {"publish", "done"} /\ outcome[j] = "completed"
    /\ pc[j] \in {"publish", "done"} /\ outcome[j] = "completed" => written[j]
    /\ pc[j] = "done" => status[j] = outcome[j]
    /\ status[j] \in EndStatus => pc[j] = "done"

OutcomeInv == \A j \in Jobs : OutcomeOf(j)

KInv == /\ IInv /\ SlotInv /\ FreshInv /\ DeadInv /\ RunInv
        /\ RegisteredInv /\ PendingInv /\ OutcomeInv

----------
(* How an export ends: its outcome, its file and its status. *)

LEMMA OutcomeFrame ==
  ASSUME OutcomeInv, UNCHANGED <<status, interrupted, stopping, outcome, written>>,
         \A j \in Jobs : pc'[j] = pc[j]
  PROVE  OutcomeInv'
BY DEF OutcomeInv, OutcomeOf

\* A task moves; an export stays before, or after, the end of its re-run.
LEMMA OutcomeMoves ==
  ASSUME ActorType, OutcomeInv, NEW a \in Actors, NEW l, pc' = [pc EXCEPT ![a] = l],
         UNCHANGED <<status, interrupted, stopping, outcome, written>>,
         a \in Jobs => /\ pc[a] \notin {"publish", "done"}
                       /\ l \notin {"publish", "done"}
                       /\ pc[a] \in OverPC => l \in OverPC
  PROVE  OutcomeInv'
<1>1. \A b \in Actors : pc'[b] = IF b = a THEN l ELSE pc[b]
  BY DEF ActorType
<1>2. Jobs \subseteq Actors
  BY DEF Actors
<1>3. ASSUME NEW j \in Jobs
      PROVE  /\ pc[j] \in OverPC => pc'[j] \in OverPC
             /\ pc'[j] \in {"publish", "done"} <=> pc[j] \in {"publish", "done"}
             /\ pc[j] \in {"publish", "done"} => pc'[j] = pc[j]
  BY <1>1, <1>2
<1>4. QED BY <1>3 DEF OutcomeInv, OutcomeOf

\* A step that concerns one export.
LEMMA OutcomeOfOne ==
  ASSUME OutcomeInv, NEW j \in Jobs, OutcomeOf(j)',
         \A i \in Jobs \ {j} :
            /\ pc'[i] = pc[i] /\ status'[i] = status[i] /\ outcome'[i] = outcome[i]
            /\ interrupted'[i] = interrupted[i] /\ stopping'[i] = stopping[i]
            /\ written'[i] = written[i]
  PROVE  OutcomeInv'
<1>1. ASSUME NEW i \in Jobs PROVE OutcomeOf(i)'
  <2>1. CASE i = j
    BY <2>1
  <2>2. CASE i # j
    BY <2>2 DEF OutcomeInv, OutcomeOf
  <2>3. QED BY <2>1, <2>2
<1>2. QED BY <1>1 DEF OutcomeInv, OutcomeOf

LEMMA OutcomeTab ==
  ASSUME ActorType, OutcomeInv, NEW t \in Tabs,
         RunQuery(t) \/ TabStep(t) \/ CancelQuery(t)
  PROVE  OutcomeInv'
<1>1. t \in Actors /\ \A j \in Jobs : j # t /\ j \in Actors
  BY ActorsAssumption DEF Actors
<1>2. UNCHANGED <<status, interrupted, stopping, outcome, written>>
  BY DEF RunQuery, TabStep, CancelQuery, Register, StartStatement, StatementEnd,
         CeilingKill, DrainEnd, AbsorbEnd, CaptureEnd, Unregister, ReleaseTab, jobVars
<1>3. UNCHANGED pc \/ \E l \in TabPC : pc' = [pc EXCEPT ![t] = l]
  BY DEF RunQuery, TabStep, CancelQuery, Register, StartStatement, StatementEnd,
         CeilingKill, DrainEnd, AbsorbEnd, CaptureEnd, Unregister, ReleaseTab,
         CaptureDatabase, Goto, TabPC, actorVars
<1>4. \A j \in Jobs : pc'[j] = pc[j]
  BY <1>1, <1>3 DEF ActorType
<1>5. QED BY <1>2, <1>4, OutcomeFrame

LEMMA OutcomeAcquire ==
  ASSUME IInv, OutcomeInv, NEW a \in Actors, Acquire(a)
  PROVE  OutcomeInv'
<1> USE DEF IInv, TypeOK
<1>1. pc[a] \in {"queued", "connecting"}
  BY DEF Acquire, AcquireAlive, AcquireReconnect, AcquireFail, AcquireConnect
<1>2. CASE UNCHANGED jobVars
  <2>1. PICK l \in {"granted", "connecting", "idle", "complete"} :
          pc' = [pc EXCEPT ![a] = l]
    BY DEF Acquire, AcquireAlive, AcquireReconnect, AcquireFail, AcquireConnect, Goto
  <2>2. pc[a] \notin OverPC \cup {"publish", "done"} /\ l \notin {"publish", "done"}
    BY <1>1 DEF OverPC
  <2>3. QED BY <1>2, <2>1, <2>2, OutcomeMoves DEF jobVars
<1>3. CASE AcquireFail(a) /\ a \notin Tabs
  <2>1. a \in Jobs
    BY <1>3 DEF Actors
  <2>2. /\ pc' = [pc EXCEPT ![a] = "complete"] /\ outcome' = [outcome EXCEPT ![a] = "failed"]
        /\ UNCHANGED <<status, interrupted, stopping, written>>
    BY <1>3 DEF AcquireFail, Goto
  <2>3. OutcomeOf(a)'
    BY <1>1, <2>1, <2>2 DEF OutcomeInv, OutcomeOf, ActorType, JobType
  <2>4. \A i \in Jobs \ {a} : pc'[i] = pc[i] /\ outcome'[i] = outcome[i]
    BY <2>2 DEF ActorType, JobType, Actors
  <2>5. QED BY <2>1, <2>2, <2>3, <2>4, OutcomeOfOne
<1>4. QED
  BY <1>2, <1>3 DEF Acquire, AcquireAlive, AcquireReconnect, AcquireFail, AcquireConnect

LEMMA OutcomeJobMoves ==
  ASSUME IInv, OutcomeInv, NEW j \in Jobs,
         \/ BeginExport(j) \/ SetJobThread(j) \/ StartRerun(j) \/ ClearJobThread(j)
         \/ WaitForCancelKills(j) \/ WaitTimeout(j) \/ ExportAbsorbEnd(j)
         \/ RestoreEnd(j) \/ ReleaseJob(j)
  PROVE  OutcomeInv'
<1> USE DEF IInv, TypeOK
<1>1. j \in Actors
  BY DEF Actors
<1>2. UNCHANGED <<status, interrupted, stopping, outcome, written>>
  BY DEF BeginExport, SetJobThread, StartRerun, ClearJobThread, WaitForCancelKills,
         WaitTimeout, AfterWait, ExportAbsorbEnd, RestoreEnd, ReleaseJob, jobVars
<1>3. CASE BeginExport(j) \/ SetJobThread(j) \/ StartRerun(j)
  <2>1. pc[j] \in {"spawned", "granted", "armed"}
    BY <1>3 DEF BeginExport, SetJobThread, StartRerun
  <2>2. PICK l \in {"complete", "queued", "armed", "disarm", "dbread"} :
          pc' = [pc EXCEPT ![j] = l]
    BY <1>3 DEF BeginExport, SetJobThread, StartRerun, Goto
  <2>3. pc[j] \notin OverPC /\ pc[j] \notin {"publish", "done"} /\ l \notin {"publish", "done"}
    BY <2>1 DEF OverPC
  <2>4. QED BY <1>1, <1>2, <2>2, <2>3, OutcomeMoves
<1>4. CASE \/ ClearJobThread(j) \/ WaitForCancelKills(j) \/ WaitTimeout(j)
           \/ ExportAbsorbEnd(j) \/ RestoreEnd(j) \/ ReleaseJob(j)
  <2>1. pc[j] \in {"disarm", "wait", "absorb", "restore", "retry", "release"}
    BY <1>4 DEF ClearJobThread, WaitForCancelKills, WaitTimeout, ExportAbsorbEnd,
                RestoreEnd, ReleaseJob
  <2>2. PICK l \in {"wait", "absorb", "restore", "retry", "release", "complete"} :
          pc' = [pc EXCEPT ![j] = l]
    BY <1>4 DEF ClearJobThread, WaitForCancelKills, WaitTimeout, AfterWait, Restore,
                ExportAbsorbEnd, RestoreEnd, ReleaseJob, Goto
  <2>3. l \in OverPC /\ pc[j] \notin {"publish", "done"} /\ l \notin {"publish", "done"}
    BY <2>1 DEF OverPC
  <2>4. QED BY <1>1, <1>2, <2>2, <2>3, OutcomeMoves
<1>5. QED BY <1>3, <1>4

LEMMA OutcomeRead ==
  ASSUME IInv, OutcomeInv, NEW j \in Jobs, ReadDatabase(j) \/ UseDatabase(j)
  PROVE  OutcomeInv'
<1> USE DEF IInv, TypeOK
<1>1. j \in Actors
  BY DEF Actors
<1>2. pc[j] \in {"dbread", "dbuse"} /\ UNCHANGED <<status, interrupted, stopping, written>>
  BY DEF ReadDatabase, UseDatabase
<1>3. PICK l \in {"dbuse", "stream", "disarm"} :
        /\ pc' = [pc EXCEPT ![j] = l]
        /\ \/ UNCHANGED outcome
           \/ outcome' = [outcome EXCEPT ![j] = "cancelled"]
           \/ outcome' = [outcome EXCEPT ![j] = "failed"]
  BY DEF ReadDatabase, UseDatabase, SkipRerun, StartStream, Goto
<1>4. outcome[j] # "completed" /\ ~written[j] /\ status[j] \notin EndStatus
  BY <1>2 DEF OutcomeInv, OutcomeOf, OverPC
<1>5. /\ outcome'[j] # "completed" /\ pc'[j] = l
      /\ \A i \in Jobs \ {j} : pc'[i] = pc[i] /\ outcome'[i] = outcome[i]
  BY <1>1, <1>3, <1>4 DEF ActorType, JobType, Actors
<1>6. OutcomeOf(j)'
  BY <1>2, <1>4, <1>5 DEF OutcomeInv, OutcomeOf
<1>7. QED BY <1>2, <1>5, <1>6, OutcomeOfOne

LEMMA OutcomeStream ==
  ASSUME IInv, OutcomeInv, NEW j \in Jobs, StopStream(j) \/ StreamEnd(j)
  PROVE  OutcomeInv'
<1> USE DEF IInv, TypeOK
<1>1. j \in Actors
  BY DEF Actors
<1>2. pc[j] = "stream" /\ UNCHANGED <<status, written>>
  BY DEF StopStream, StreamEnd
<1>3. outcome[j] # "completed" /\ ~written[j] /\ status[j] \notin EndStatus
  BY <1>2 DEF OutcomeInv, OutcomeOf, OverPC
<1>4. CASE StopStream(j)
  <2>1. PICK why \in {"failure", "limit"} : stopping' = [stopping EXCEPT ![j] = why]
    BY <1>4 DEF StopStream
  <2>2. UNCHANGED <<pc, outcome, interrupted>>
    BY <1>4 DEF StopStream
  <2>3. OutcomeOf(j)'
    BY <1>2, <1>3, <2>2 DEF OutcomeInv, OutcomeOf
  <2>4. QED BY <1>2, <2>1, <2>2, <2>3, OutcomeOfOne DEF JobType
<1>5. CASE StreamEnd(j)
  <2>1. /\ pc' = [pc EXCEPT ![j] = "disarm"] /\ UNCHANGED stopping
        /\ interrupted' = [interrupted EXCEPT ![j] = reply[j] = "killed"]
        /\ outcome' = [outcome EXCEPT ![j] = IF StreamFailed(j) THEN "failed"
                                             ELSE IF cancel_requested[j] THEN "cancelled"
                                             ELSE "completed"]
    BY <1>5 DEF StreamEnd, Goto
  <2>2. /\ pc'[j] = "disarm" /\ interrupted'[j] = (reply[j] = "killed")
        /\ outcome'[j] = "completed" => ~StreamFailed(j) /\ ~cancel_requested[j]
        /\ \A i \in Jobs \ {j} : /\ pc'[i] = pc[i] /\ outcome'[i] = outcome[i]
                                 /\ interrupted'[i] = interrupted[i]
    BY <1>1, <2>1 DEF ActorType, JobType, Actors
  <2>3. outcome'[j] = "completed" => (interrupted'[j] => stopping'[j] = "limit")
    BY <2>1, <2>2 DEF StreamFailed, JobType
  <2>4. OutcomeOf(j)'
    BY <1>2, <1>3, <2>2, <2>3 DEF OutcomeInv, OutcomeOf, OverPC
  <2>5. QED BY <1>2, <2>1, <2>2, <2>4, OutcomeOfOne
<1>6. QED BY <1>4, <1>5

LEMMA OutcomePublished ==
  ASSUME IInv, OutcomeInv, NEW j \in Jobs,
         StartExport(j) \/ FinishFile(j) \/ PublishStatus(j)
  PROVE  OutcomeInv'
<1> USE DEF IInv, TypeOK
<1>1. j \in Actors /\ UNCHANGED <<interrupted, stopping>>
  BY DEF Actors, StartExport, FinishFile, PublishStatus
<1>2. CASE StartExport(j)
  <2>1. /\ pc[j] = "idle" /\ pc' = [pc EXCEPT ![j] = "spawned"]
        /\ status' = [status EXCEPT ![j] = "running"] /\ UNCHANGED <<outcome, written>>
    BY <1>2 DEF StartExport, Goto
  <2>2. /\ pc'[j] = "spawned" /\ status'[j] = "running"
        /\ \A i \in Jobs \ {j} : pc'[i] = pc[i] /\ status'[i] = status[i]
    BY <1>1, <2>1 DEF ActorType, JobType, Actors
  <2>3. outcome[j] # "completed" /\ ~written[j]
    BY <2>1 DEF OutcomeInv, OutcomeOf, OverPC
  <2>4. OutcomeOf(j)'
    BY <2>1, <2>2, <2>3 DEF OutcomeInv, OutcomeOf, EndStatus
  <2>5. QED BY <1>1, <2>1, <2>2, <2>4, OutcomeOfOne
<1>3. CASE FinishFile(j)
  <2>1. /\ pc[j] = "complete" /\ pc' = [pc EXCEPT ![j] = "publish"] /\ UNCHANGED status
    BY <1>3 DEF FinishFile, Goto
  <2>2. \/ outcome[j] = "completed" /\ written' = [written EXCEPT ![j] = TRUE] /\ UNCHANGED outcome
        \/ outcome' = [outcome EXCEPT ![j] = "failed"] /\ UNCHANGED written
        \/ outcome' = [outcome EXCEPT ![j] = "cancelled"] /\ UNCHANGED written
        \/ outcome[j] # "completed" /\ UNCHANGED <<outcome, written>>
    BY <1>3 DEF FinishFile
  <2>3. ~written[j] /\ status[j] \notin EndStatus
    BY <2>1 DEF OutcomeInv, OutcomeOf
  <2>4. /\ pc'[j] = "publish" /\ written'[j] = (outcome'[j] = "completed")
        /\ outcome'[j] = "completed" => outcome[j] = "completed"
        /\ \A i \in Jobs \ {j} : /\ pc'[i] = pc[i] /\ outcome'[i] = outcome[i]
                                 /\ written'[i] = written[i]
    BY <1>1, <2>1, <2>2, <2>3 DEF ActorType, JobType, Actors
  <2>5. OutcomeOf(j)'
    BY <1>1, <2>1, <2>3, <2>4 DEF OutcomeInv, OutcomeOf, OverPC
  <2>6. QED BY <1>1, <2>1, <2>4, <2>5, OutcomeOfOne
<1>4. CASE PublishStatus(j)
  <2>1. /\ pc[j] = "publish" /\ pc' = [pc EXCEPT ![j] = "done"]
        /\ status' = [status EXCEPT ![j] = outcome[j]] /\ UNCHANGED <<outcome, written>>
    BY <1>4 DEF PublishStatus, Goto
  <2>2. /\ pc'[j] = "done" /\ status'[j] = outcome[j]
        /\ \A i \in Jobs \ {j} : pc'[i] = pc[i] /\ status'[i] = status[i]
    BY <1>1, <2>1 DEF ActorType, JobType, Actors
  <2>3. OutcomeOf(j)'
    BY <1>1, <2>1, <2>2 DEF OutcomeInv, OutcomeOf, OverPC
  <2>4. QED BY <1>1, <2>1, <2>2, <2>3, OutcomeOfOne
<1>5. QED BY <1>2, <1>3, <1>4

LEMMA OutcomeElse ==
  ASSUME OutcomeInv,
         \/ \E j \in Jobs : CancelExport(j)
         \/ \E k \in kills : KillArrives(k) \/ KillGivenUp(k)
         \/ \E th \in Threads : ServerEnd(th) \/ ConnectionLost(th)
         \/ Close
         \/ UNCHANGED vars
  PROVE  OutcomeInv'
<1>1. UNCHANGED <<pc, status, interrupted, stopping, outcome, written>>
  BY DEF CancelExport, KillArrives, KillGivenUp, ServerEnd, ConnectionLost, Close,
         CloseBegin, CloseCancelExport, CloseRemove, CloseRunningQueries, CloseSession,
         vars, actorVars, jobVars
<1>2. QED BY <1>1, OutcomeFrame

LEMMA OutcomeNext == IInv /\ OutcomeInv /\ [Next]_vars => OutcomeInv'
<1> SUFFICES ASSUME IInv, OutcomeInv, [Next]_vars PROVE OutcomeInv'
  OBVIOUS
<1>1. CASE \E a \in Actors : Acquire(a)
  BY <1>1, OutcomeAcquire
<1>2. CASE \E t \in Tabs : RunQuery(t) \/ TabStep(t) \/ CancelQuery(t)
  BY <1>2, OutcomeTab DEF IInv, TypeOK
<1>3. CASE \E j \in Jobs : StartExport(j) \/ JobStep(j)
  BY <1>3, OutcomeJobMoves, OutcomeRead, OutcomeStream, OutcomePublished DEF JobStep
<1>4. QED BY <1>1, <1>2, <1>3, OutcomeElse DEF Next

----------
(* The slot. *)

LEMMA SlotFrame ==
  ASSUME SlotInv, UNCHANGED <<slot, queue, session, registered, closing, at>>,
         \A b \in Actors : pc'[b] = "connecting" => pc[b] = "connecting"
  PROVE  SlotInv'
BY DEF SlotInv

\* Steps that nobody enters or leaves a slot by.
SlotStill ==
    \/ \E t \in Tabs : (TabStep(t) /\ pc[t] # "release") \/ CancelQuery(t)
    \/ \E j \in Jobs : \/ StartExport(j) \/ CancelExport(j) \/ CloseCancelExport(j)
                      \/ (JobStep(j) /\ pc[j] \notin {"spawned", "release"})
    \/ \E k \in kills : KillArrives(k) \/ KillGivenUp(k)
    \/ \E th \in Threads : ServerEnd(th) \/ ConnectionLost(th)
    \/ UNCHANGED vars

\* The step of a task that is, and stays, inside its critical section or outside
\* of it, and does not queue.
StaysInside(a, l) ==
    /\ {pc[a], l} \cap {"queued", "connecting"} = {}
    /\ pc[a] \in HoldingPC <=> l \in HoldingPC

LEMMA SlotStillFrame ==
  ASSUME SlotStill
  PROVE  /\ UNCHANGED <<slot, queue, session, registered, closing, at>>
         /\ \/ UNCHANGED pc
            \/ \E a \in Actors, l \in TabPC \cup JobPC :
                  pc' = [pc EXCEPT ![a] = l] /\ StaysInside(a, l)
<1>1. UNCHANGED <<slot, queue, session, registered, closing, at>>
  BY ZenonT(40) DEF SlotStill, TabStep, CancelQuery, Register, StartStatement, StatementEnd,
         CeilingKill, DrainEnd, AbsorbEnd, CaptureEnd, Unregister, ReleaseTab,
         StartExport, JobStep, CancelExport, BeginExport, SetJobThread, StartRerun,
         ReadDatabase, UseDatabase, StopStream, StreamEnd, ClearJobThread,
         WaitForCancelKills, WaitTimeout, AfterWait, ExportAbsorbEnd, RestoreEnd,
         ReleaseJob, FinishFile, PublishStatus, KillArrives, KillGivenUp, ServerEnd,
         ConnectionLost, CloseCancelExport, vars, lockVars, closeVars, actorVars
<1>2. Tabs \subseteq Actors /\ Jobs \subseteq Actors
  BY DEF Actors
<1>3. ASSUME NEW t \in Tabs, (TabStep(t) /\ pc[t] # "release") \/ CancelQuery(t)
      PROVE  \/ UNCHANGED pc
             \/ \E l \in TabPC \cup JobPC : pc' = [pc EXCEPT ![t] = l] /\ StaysInside(t, l)
  BY ZenonT(40), <1>3 DEF TabStep, CancelQuery, Register, StartStatement, StatementEnd, CeilingKill,
       DrainEnd, AbsorbEnd, CaptureEnd, Unregister, ReleaseTab, CaptureDatabase, Goto,
       StaysInside, TabPC, HoldingPC, actorVars
<1>4. ASSUME NEW j \in Jobs,
             \/ StartExport(j) \/ CancelExport(j) \/ CloseCancelExport(j)
             \/ (JobStep(j) /\ pc[j] \notin {"spawned", "release"})
      PROVE  \/ UNCHANGED pc
             \/ \E l \in TabPC \cup JobPC : pc' = [pc EXCEPT ![j] = l] /\ StaysInside(j, l)
  <2>1. CASE WaitForCancelKills(j) \/ WaitTimeout(j) \/ ExportAbsorbEnd(j)
    BY <2>1 DEF WaitForCancelKills, WaitTimeout, AfterWait, ExportAbsorbEnd, Restore, Goto,
                StaysInside, JobPC, HoldingPC
  <2>2. CASE \/ StartExport(j) \/ CancelExport(j) \/ CloseCancelExport(j)
             \/ SetJobThread(j) \/ StartRerun(j) \/ ReadDatabase(j) \/ UseDatabase(j)
             \/ StopStream(j) \/ StreamEnd(j) \/ ClearJobThread(j) \/ RestoreEnd(j)
             \/ FinishFile(j) \/ PublishStatus(j)
    BY <2>2 DEF StartExport, CancelExport, CloseCancelExport, SetJobThread, StartRerun,
         ReadDatabase, UseDatabase, SkipRerun, StartStream, StopStream, StreamEnd,
         ClearJobThread, RestoreEnd, FinishFile, PublishStatus, Goto,
         StaysInside, JobPC, HoldingPC, actorVars
  <2>3. QED BY <1>4, <2>1, <2>2 DEF JobStep, BeginExport, ReleaseJob
<1>5. QED
  BY <1>1, <1>2, <1>3, <1>4 DEF SlotStill, KillArrives, KillGivenUp, ServerEnd,
     ConnectionLost, vars, actorVars

LEMMA SlotQuiet ==
  ASSUME IInv, SlotInv, SlotStill
  PROVE  SlotInv'
BY SlotStillFrame, SlotFrame DEF StaysInside, IInv, TypeOK, ActorType

\* Every other step is one of these.
LEMMA StepKinds ==
  ASSUME [Next]_vars
  PROVE  \/ SlotStill
         \/ \E a \in Actors : Acquire(a)
         \/ \E t \in Tabs : RunQuery(t) \/ ReleaseTab(t)
         \/ \E j \in Jobs : BeginExport(j) \/ ReleaseJob(j)
         \/ CloseBegin \/ CloseRemove \/ CloseRunningQueries \/ CloseSession
<1>1. ASSUME NEW t \in Tabs, RunQuery(t) \/ TabStep(t) \/ CancelQuery(t)
      PROVE  RunQuery(t) \/ ReleaseTab(t) \/ (TabStep(t) /\ pc[t] # "release") \/ CancelQuery(t)
  BY <1>1 DEF TabStep, Register, StartStatement, StatementEnd, CeilingKill, DrainEnd,
              AbsorbEnd, CaptureEnd, Unregister
<1>2. ASSUME NEW j \in Jobs, StartExport(j) \/ JobStep(j) \/ CancelExport(j)
      PROVE  \/ BeginExport(j) \/ ReleaseJob(j) \/ StartExport(j) \/ CancelExport(j)
             \/ (JobStep(j) /\ pc[j] \notin {"spawned", "release"})
  BY <1>2 DEF JobStep, SetJobThread, StartRerun, ReadDatabase, UseDatabase, StopStream,
              StreamEnd, ClearJobThread, WaitForCancelKills, WaitTimeout,
              ExportAbsorbEnd, RestoreEnd, FinishFile, PublishStatus
<1>3. CASE \E t \in Tabs : RunQuery(t) \/ TabStep(t) \/ CancelQuery(t)
  BY <1>1, <1>3 DEF SlotStill
<1>4. CASE \E j \in Jobs : StartExport(j) \/ JobStep(j) \/ CancelExport(j)
  BY <1>2, <1>4 DEF SlotStill
<1>5. CASE Close
  BY <1>5 DEF Close, SlotStill
<1>6. QED BY <1>3, <1>4, <1>5 DEF Next, SlotStill

\* A new task queues on the slot the map holds, or makes one.
LEMMA SlotEnqueue ==
  ASSUME IInv, SlotInv, NEW a \in Actors, Enqueue(a), pc' = [pc EXCEPT ![a] = "queued"],
         UNCHANGED closeVars
  PROVE  SlotInv'
<1> USE DEF IInv, TypeOK
<1> DEFINE s == IF slot # 0 THEN slot ELSE IF closing = "closed" THEN 2 ELSE 1
<1>1. /\ s \in Slots /\ slot' = s /\ queue' = [queue EXCEPT ![s] = Append(@, a)]
      /\ at' = [at EXCEPT ![a] = s] /\ UNCHANGED <<session, closing, registered>>
  BY DEF Enqueue, LockType, Slots, closeVars
<1>2. s = 2 <=> closing = "closed"
  BY DEF SlotInv, LockType, Slots
<1>3. \A b \in Actors : /\ at'[b] = IF b = a THEN s ELSE at[b]
                        /\ pc'[b] = IF b = a THEN "queued" ELSE pc[b]
  BY <1>1 DEF ActorType
<1>4. queue'[1] = << >> => queue[1] = << >>
  BY <1>1, QueueFacts DEF LockType, Slots
<1>5. \A b \in Actors : /\ at'[b] = 2 => closing = "closed"
                        /\ pc'[b] = "connecting" => at'[b] = 1
  BY <1>2, <1>3 DEF SlotInv
<1>6. slot' # 0 /\ (slot' = 1 => closing # "closed") /\ (slot' = 2 => closing = "closed")
  BY <1>1, <1>2 DEF Slots
<1>7. QED BY <1>1, <1>4, <1>5, <1>6 DEF SlotInv

\* A task leaves its slot; a session that nobody can reach any more goes with it.
LEMMA SlotLeave ==
  ASSUME IInv, SlotInv, NEW a \in Actors, Holds(a), NEW l, l # "connecting",
         pc' = [pc EXCEPT ![a] = l],
         queue' = [queue EXCEPT ![at[a]] = Tail(@)],
         \/ session' = [session EXCEPT ![at[a]] = 0]
         \/ UNCHANGED session /\ (Tail(queue[at[a]]) # << >> \/ slot = at[a]),
         UNCHANGED <<slot, closeVars, at>>
  PROVE  SlotInv'
<1> USE DEF IInv, TypeOK
<1>1. UNCHANGED <<slot, closing, registered, at>> /\ at[a] \in {1, 2}
  BY DEF closeVars, ActorType, Slots
<1>2. \A b \in Actors : pc'[b] = "connecting" => pc[b] = "connecting"
  BY DEF ActorType
<1>3. session'[2] = 0 /\ (session'[1] = session[1] \/ session'[1] = 0)
  BY DEF SlotInv, LockType, Slots
<1>4. at[a] = 2 => UNCHANGED <<queue[1], session[1]>>
  BY DEF LockType, Slots
<1>5. at[a] = 1 => queue[1] # << >> /\ queue'[1] = Tail(queue[1])
  BY DEF Holds, LockType, Slots
<1>6. closing = "closed" /\ queue'[1] = << >> => session'[1] = 0
  <2>1. CASE at[a] = 2
    BY <1>4, <2>1 DEF SlotInv
  <2>2. CASE at[a] = 1
    BY <1>5, <2>2 DEF SlotInv, LockType, Slots
  <2>3. QED BY <1>1, <2>1, <2>2
<1>7. slot = 0 /\ closing # "closed" => queue'[1] = << >> /\ session'[1] = 0
  BY <1>1, <1>3, <1>4, <1>5 DEF SlotInv
<1>8. QED BY <1>1, <1>2, <1>3, <1>6, <1>7 DEF SlotInv

LEMMA SlotAcquire ==
  ASSUME IInv, SlotInv, NEW a \in Actors, Acquire(a)
  PROVE  SlotInv'
<1> USE DEF IInv, TypeOK
<1>1. at[a] \in {1, 2} /\ Holds(a) /\ queue[at[a]] # << >>
  <2>1. pc[a] = "connecting" => Holds(a)
    BY DEF LockHeld
  <2>2. QED
    BY <2>1 DEF Acquire, AcquireAlive, AcquireReconnect, AcquireFail, AcquireConnect,
                Holds, ActorType, Slots
<1>2. CASE AcquireAlive(a)
  <2>1. /\ pc' = [pc EXCEPT ![a] = "granted"]
        /\ UNCHANGED <<slot, queue, session, registered, closing, at>>
    BY <1>2 DEF AcquireAlive, Goto, lockVars, closeVars
  <2>2. QED BY <2>1, SlotFrame DEF ActorType
<1>3. CASE AcquireReconnect(a)
  <2>1. /\ pc' = [pc EXCEPT ![a] = "connecting"] /\ registered
        /\ session' = [session EXCEPT ![at[a]] = 0]
        /\ UNCHANGED <<slot, queue, registered, closing, at>>
    BY <1>3 DEF AcquireReconnect, Goto, closeVars
  <2>2. at[a] = 1
    BY <1>1, <2>1 DEF SlotInv
  <2>3. \A b \in Actors : pc'[b] = "connecting" => b = a \/ pc[b] = "connecting"
    BY <2>1 DEF ActorType
  <2>4. session'[1] = 0 /\ session'[2] = session[2]
    BY <2>1, <2>2 DEF LockType, Slots
  <2>5. QED BY <2>1, <2>2, <2>3, <2>4 DEF SlotInv
<1>4. CASE AcquireFail(a)
  <2>1. /\ queue' = [queue EXCEPT ![at[a]] = Tail(@)]
        /\ session' = [session EXCEPT ![at[a]] = 0]
        /\ UNCHANGED <<slot, closeVars, at>>
    BY <1>4 DEF AcquireFail
  <2>2. PICK l \in {"idle", "complete"} : pc' = [pc EXCEPT ![a] = l]
    BY <1>4 DEF AcquireFail, Goto
  <2>3. QED BY <1>1, <2>1, <2>2, SlotLeave
<1>5. CASE AcquireConnect(a)
  <2>1. /\ pc[a] = "connecting" /\ pc' = [pc EXCEPT ![a] = "granted"]
        /\ session' = [session EXCEPT ![at[a]] = nextThread]
        /\ UNCHANGED <<slot, queue, registered, closing, at>>
    BY <1>5 DEF AcquireConnect, Goto, closeVars
  <2>2. at[a] = 1 /\ session'[2] = 0
    BY <2>1 DEF SlotInv, LockType, Slots
  <2>3. \A b \in Actors : pc'[b] = "connecting" => pc[b] = "connecting"
    BY <2>1 DEF ActorType
  <2>4. QED BY <1>1, <2>1, <2>2, <2>3 DEF SlotInv
<1>6. QED BY <1>2, <1>3, <1>4, <1>5 DEF Acquire

LEMMA SlotUnlock ==
  ASSUME IInv, SlotInv, NEW a \in Actors, pc[a] = "release", Unlock(a),
         NEW l \in {"idle", "complete"}, pc' = [pc EXCEPT ![a] = l],
         UNCHANGED <<closeVars, at>>
  PROVE  SlotInv'
<1>1. Holds(a)
  BY DEF IInv, LockHeld, HoldingPC
<1>2. /\ queue' = [queue EXCEPT ![at[a]] = Tail(@)] /\ UNCHANGED slot
      /\ \/ session' = [session EXCEPT ![at[a]] = 0]
         \/ UNCHANGED session /\ (Tail(queue[at[a]]) # << >> \/ slot = at[a])
  BY DEF Unlock, IInv, TypeOK, LockType, ActorType
<1>3. QED BY <1>1, <1>2, SlotLeave

LEMMA SlotClose ==
  ASSUME IInv, SlotInv, CloseBegin \/ CloseRemove \/ CloseRunningQueries \/ CloseSession
  PROVE  SlotInv'
<1> USE DEF IInv, TypeOK
<1>1. UNCHANGED <<pc, at, queue>>
  BY DEF CloseBegin, CloseRemove, CloseRunningQueries, CloseSession, actorVars, lockVars
<1>2. CASE CloseBegin \/ CloseRemove \/ CloseRunningQueries
  BY <1>1, <1>2 DEF CloseBegin, CloseRemove, CloseRunningQueries, lockVars, SlotInv
<1>3. CASE CloseSession
  <2>1. /\ closing = "retained" /\ closing' = "closed" /\ slot' = 0 /\ UNCHANGED registered
        /\ \/ UNCHANGED session /\ (slot = 0 \/ queue[slot] # << >>)
           \/ slot # 0 /\ session' = [session EXCEPT ![slot] = 0]
    BY <1>3 DEF CloseSession
  <2>2. slot \in {0, 1}
    BY <2>1 DEF SlotInv, LockType, Slots
  <2>3. session'[2] = 0 /\ (queue[1] = << >> => session'[1] = 0)
    BY <2>1, <2>2 DEF SlotInv, LockType, Slots
  <2>4. QED BY <1>1, <2>1, <2>3 DEF SlotInv
<1>4. QED BY <1>2, <1>3

LEMMA SlotNext == IInv /\ SlotInv /\ [Next]_vars => SlotInv'
<1> SUFFICES ASSUME IInv, SlotInv, [Next]_vars PROVE SlotInv'
  OBVIOUS
<1>1. Tabs \subseteq Actors /\ Jobs \subseteq Actors
  BY DEF Actors
<1>2. CASE \E t \in Tabs : RunQuery(t) \/ ReleaseTab(t)
  <2>1. PICK t \in Tabs : RunQuery(t) \/ ReleaseTab(t)
    BY <1>2
  <2>2. QED BY <1>1, <2>1, SlotEnqueue, SlotUnlock DEF RunQuery, ReleaseTab, Goto
<1>3. CASE \E j \in Jobs : BeginExport(j) \/ ReleaseJob(j)
  <2>1. PICK j \in Jobs : BeginExport(j) \/ ReleaseJob(j)
    BY <1>3
  <2>2. CASE BeginExport(j) /\ cancel_requested[j]
    <3>1. /\ pc' = [pc EXCEPT ![j] = "complete"]
          /\ UNCHANGED <<slot, queue, session, registered, closing, at>>
      BY <2>2 DEF BeginExport, Goto, lockVars, closeVars
    <3>2. QED BY <3>1, SlotFrame DEF IInv, TypeOK, ActorType
  <2>3. CASE BeginExport(j) /\ ~cancel_requested[j]
    BY <1>1, <2>3, SlotEnqueue DEF BeginExport, Goto
  <2>4. CASE ReleaseJob(j)
    BY <1>1, <2>4, SlotUnlock DEF ReleaseJob, Goto
  <2>5. QED BY <2>1, <2>2, <2>3, <2>4
<1>4. QED BY <1>2, <1>3, StepKinds, SlotQuiet, SlotAcquire, SlotClose

----------
(* Who owns a thread. *)

LEMMA OwnerOfOne ==
  ASSUME IInv, SlotInv, NEW a \in Actors, NEW th \in Threads
  PROVE  Owns(a, th) <=> /\ pc[a] \in HoldingPC /\ at[a] = 1
                         /\ queue[1] # << >> /\ Head(queue[1]) = a /\ session[1] = th
<1>1. at[a] \in {1, 2} /\ th # 0
  BY DEF IInv, TypeOK, ActorType, Slots, Threads
<1>2. QED BY <1>1 DEF SlotInv, Owns, Holds, Thread

LEMMA OneOwner ==
  ASSUME IInv, SlotInv, NEW a \in Actors, NEW b \in Actors, NEW th \in Threads,
         NEW u \in Threads, Owns(a, th), Owns(b, u)
  PROVE  a = b /\ th = u
BY OwnerOfOne

\* A task owns its thread until it drops the guard.
LEMMA OwnersStay ==
  ASSUME IInv, IInv', SlotInv, SlotInv', [Next]_vars, NEW b \in Actors, NEW th \in Threads,
         Owns(b, th), pc[b] # "release"
  PROVE  Owns(b, th)'
<1> USE DEF IInv, TypeOK
<1>1. /\ pc[b] \in HoldingPC /\ at[b] = 1 /\ session[1] = th
      /\ queue[1] # << >> /\ Head(queue[1]) = b
  BY OwnerOfOne
<1>2. SUFFICES /\ pc'[b] \in HoldingPC /\ at'[b] = 1 /\ session'[1] = th
               /\ queue'[1] # << >> /\ Head(queue'[1]) = b
  <2>1. /\ SlotInv' /\ th # 0
        /\ at'[b] \in {1, 2}
    BY DEF ActorType, Slots, Threads
  <2>2. QED BY <2>1 DEF Owns, Holds, Thread
<1>3. CASE SlotStill
  BY <1>1, <1>3, SlotStillFrame DEF StaysInside, ActorType
<1>4. ASSUME NEW a \in Actors, NEW l, pc' = [pc EXCEPT ![a] = l],
             \/ Enqueue(a) /\ pc[a] \notin HoldingPC
             \/ UNCHANGED <<queue, session, at>> /\ pc[a] \notin HoldingPC
      PROVE  /\ pc'[b] \in HoldingPC /\ at'[b] = 1 /\ session'[1] = th
             /\ queue'[1] # << >> /\ Head(queue'[1]) = b
  <2>1. a # b /\ pc'[b] = pc[b]
    BY <1>1, <1>4 DEF ActorType
  <2>2. CASE UNCHANGED <<queue, session, at>>
    BY <1>1, <2>1, <2>2
  <2>3. CASE Enqueue(a)
    <3>1. PICK s \in Slots :
            /\ queue' = [queue EXCEPT ![s] = Append(@, a)]
            /\ at' = [at EXCEPT ![a] = s] /\ UNCHANGED session
      BY <2>3 DEF Enqueue, LockType, Slots
    <3>2. queue[1] \in Seq(Actors)
      BY DEF LockType, Slots
    <3>3. queue'[1] # << >> /\ Head(queue'[1]) = b
      BY <1>1, <3>1, <3>2, QueueFacts DEF LockType, Slots
    <3>4. QED BY <1>1, <2>1, <3>1, <3>3 DEF ActorType
  <2>4. QED BY <1>4, <2>2, <2>3
<1>5. ASSUME NEW a \in Actors, a # b, Holds(a), UNCHANGED at,
             NEW l, pc' = [pc EXCEPT ![a] = l],
             NEW v, session' = [session EXCEPT ![at[a]] = v] \/ UNCHANGED session,
             UNCHANGED queue \/ queue' = [queue EXCEPT ![at[a]] = Tail(@)]
      PROVE  /\ pc'[b] \in HoldingPC /\ at'[b] = 1 /\ session'[1] = th
             /\ queue'[1] # << >> /\ Head(queue'[1]) = b
  <2>1. at[a] = 2
    BY <1>1, <1>5 DEF Holds, ActorType, Slots
  <2>2. queue'[1] = queue[1] /\ session'[1] = session[1]
    BY <1>5, <2>1 DEF LockType, Slots
  <2>3. pc'[b] = pc[b]
    BY <1>5 DEF ActorType
  <2>4. QED BY <1>1, <1>5, <2>2, <2>3
<1>6. CASE \E a \in Actors : Acquire(a)
  <2>1. PICK a \in Actors : Acquire(a)
    BY <1>6
  <2>2. pc[a] \in {"queued", "connecting"} /\ Holds(a)
    <3>1. pc[a] = "connecting" => Holds(a)
      BY DEF LockHeld
    <3>2. QED
      BY <2>1, <3>1 DEF Acquire, AcquireAlive, AcquireReconnect, AcquireFail, AcquireConnect
  <2>3. a # b
    BY <1>1, <2>2 DEF HoldingPC
  <2>4. PICK l \in {"granted", "connecting", "idle", "complete"} : pc' = [pc EXCEPT ![a] = l]
    BY <2>1 DEF Acquire, AcquireAlive, AcquireReconnect, AcquireFail, AcquireConnect, Goto
  <2>5. PICK v \in {0, nextThread} :
          /\ UNCHANGED at
          /\ session' = [session EXCEPT ![at[a]] = v] \/ UNCHANGED session
          /\ UNCHANGED queue \/ queue' = [queue EXCEPT ![at[a]] = Tail(@)]
    BY <2>1 DEF Acquire, AcquireAlive, AcquireReconnect, AcquireFail, AcquireConnect, lockVars
  <2>6. QED BY <1>5, <2>2, <2>3, <2>4, <2>5
<1>7. ASSUME NEW a \in Actors, pc[a] = "release", Unlock(a), UNCHANGED at,
             NEW l, pc' = [pc EXCEPT ![a] = l]
      PROVE  /\ pc'[b] \in HoldingPC /\ at'[b] = 1 /\ session'[1] = th
             /\ queue'[1] # << >> /\ Head(queue'[1]) = b
  <2>1. a # b /\ Holds(a)
    BY <1>7 DEF LockHeld, HoldingPC
  <2>2. /\ queue' = [queue EXCEPT ![at[a]] = Tail(@)]
        /\ \/ session' = [session EXCEPT ![at[a]] = 0]
           \/ session' = [session EXCEPT ![at[a]] = session[at[a]]]
    BY <1>7 DEF Unlock
  <2>3. QED BY <1>5, <1>7, <2>1, <2>2
<1>8. Tabs \subseteq Actors /\ Jobs \subseteq Actors
  BY DEF Actors
<1>9. CASE \E t \in Tabs : RunQuery(t) \/ ReleaseTab(t)
  <2>1. PICK t \in Tabs : RunQuery(t) \/ ReleaseTab(t)
    BY <1>9
  <2>2. CASE RunQuery(t)
    BY <1>4, <1>8, <2>2 DEF RunQuery, Goto, HoldingPC
  <2>3. CASE ReleaseTab(t)
    BY <1>7, <1>8, <2>3 DEF ReleaseTab, Goto
  <2>4. QED BY <2>1, <2>2, <2>3
<1>10. CASE \E j \in Jobs : BeginExport(j) \/ ReleaseJob(j)
  <2>1. PICK j \in Jobs : BeginExport(j) \/ ReleaseJob(j)
    BY <1>10
  <2>2. CASE BeginExport(j)
    BY <1>4, <1>8, <2>2 DEF BeginExport, Goto, HoldingPC, lockVars
  <2>3. CASE ReleaseJob(j)
    BY <1>7, <1>8, <2>3 DEF ReleaseJob, Goto
  <2>4. QED BY <2>1, <2>2, <2>3
<1>11. CASE CloseBegin \/ CloseRemove \/ CloseRunningQueries \/ CloseSession
  <2>1. UNCHANGED <<pc, at, queue>>
    BY <1>11 DEF CloseBegin, CloseRemove, CloseRunningQueries, CloseSession, actorVars, lockVars
  <2>2. session'[1] = session[1]
    BY <1>1, <1>11 DEF CloseBegin, CloseRemove, CloseRunningQueries, CloseSession, lockVars,
                       LockType, Slots
  <2>3. QED BY <1>1, <2>1, <2>2
<1>12. QED BY <1>3, <1>6, <1>9, <1>10, <1>11, StepKinds

----------
(* The KILLs that are set on a thread. *)

LEMMA FlagSteps ==
  ASSUME [Next]_vars
  PROVE  \/ UNCHANGED flags
         \/ \E k \in kills : KillArrives(k)
         \/ \E t \in Tabs : CeilingKill(t)
         \/ \E j \in Jobs : StopStream(j)
         \/ \E th \in Threads : ServerEnd(th) \/ ConnectionLost(th)
<1>1. CASE \E a \in Actors : Acquire(a)
  BY <1>1 DEF Acquire, AcquireAlive, AcquireReconnect, AcquireFail, AcquireConnect, serverVars
<1>2. CASE \E t \in Tabs : RunQuery(t) \/ TabStep(t) \/ CancelQuery(t)
  BY <1>2 DEF RunQuery, TabStep, CancelQuery, Register, StartStatement, StatementEnd,
       DrainEnd, AbsorbEnd, CaptureEnd, Unregister, ReleaseTab, serverVars
<1>3. CASE \E j \in Jobs : StartExport(j) \/ JobStep(j) \/ CancelExport(j)
  BY <1>3 DEF StartExport, JobStep, CancelExport, BeginExport, SetJobThread, StartRerun,
       ReadDatabase, UseDatabase, StreamEnd, ClearJobThread, WaitForCancelKills,
       WaitTimeout, AfterWait, ExportAbsorbEnd, RestoreEnd, ReleaseJob, FinishFile,
       PublishStatus, serverVars
<1>4. CASE Close
  BY <1>4 DEF Close, CloseBegin, CloseCancelExport, CloseRemove, CloseRunningQueries,
       CloseSession, serverVars
<1>5. CASE UNCHANGED vars
  BY <1>5 DEF vars, serverVars
<1>6. QED
  BY <1>1, <1>2, <1>3, <1>4, <1>5 DEF Next, KillGivenUp, serverVars

\* k is set on its thread, which is alive.
Set(k, m) ==
    /\ k.thread \in Threads \ gone
    /\ flags' = [flags EXCEPT ![k.thread] = @ \cup {[kill |-> k, mark |-> m]}]

\* A KILL that is set, and not marked, has interrupted nothing of its target yet.
LEMMA StrikeSets ==
  ASSUME NEW k, k.thread \in Threads, NEW lost \in BOOLEAN, Strike(k, lost)
  PROVE  \/ UNCHANGED flags
         \/ \E m \in {"first", "second", "lost"} :
              /\ Set(k, m)
              /\ m = "first" => /\ ~lost /\ reply[k.actor] # "killed"
                                /\ k.actor \in Jobs => ~interrupted[k.actor]
BY DEF Strike, Set

\* The KILL of a task's own run.
LEMMA OwnThread ==
  ASSUME IInv, SlotInv, FreshInv, NEW a \in Actors, pc[a] \in HoldingPC
  PROVE  Thread(a) \in Threads /\ Thread(a) < nextThread /\ Owns(a, Thread(a))
<1>1. Holds(a) /\ Thread(a) # 0 /\ at[a] \in {1, 2}
  BY DEF IInv, TypeOK, LockHeld, ActorType, Slots
<1>2. Thread(a) = session[1]
  BY <1>1 DEF Thread, SlotInv
<1>3. Thread(a) \in Threads
  BY <1>1, <1>2 DEF IInv, TypeOK, LockType, Slots
<1>4. QED BY <1>1, <1>2, <1>3 DEF Owns, FreshInv

\* The KILLs that a run and an export send to their own thread.
CeilingOf(t) == [kind |-> "ceiling", actor |-> t, run |-> run[t], idx |-> idx[t],
                 n |-> 0, thread |-> Thread(t)]
StopOf(j) == [kind |-> "export", actor |-> j, run |-> 0, idx |-> 0, n |-> 0,
              thread |-> Thread(j)]

LEMMA OwnKill ==
  ASSUME NEW a
  PROVE  /\ CeilingKill(a) => UNCHANGED flags \/ \E lost \in BOOLEAN : Strike(CeilingOf(a), lost)
         /\ StopStream(a) => UNCHANGED flags \/ \E lost \in BOOLEAN : Strike(StopOf(a), lost)
BY DEF CeilingKill, StopStream, CeilingOf, StopOf

\* A KILL is only set on a thread that exists and is alive.
LEMMA SetOnLive ==
  ASSUME IInv, SlotInv, FreshInv, [Next]_vars, NEW th \in Threads, flags'[th] # {}
  PROVE  flags[th] # {} \/ (th \notin gone /\ th < nextThread)
<1> USE DEF IInv, TypeOK
<1>1. CASE UNCHANGED flags
  BY <1>1
<1>2. ASSUME NEW k, NEW m, Set(k, m), k.thread < nextThread
      PROVE  flags[th] # {} \/ (th \notin gone /\ th < nextThread)
  BY <1>2 DEF Set, ServerType
<1>3. CASE \E k \in kills : KillArrives(k)
  <2>1. PICK k \in kills : KillArrives(k)
    BY <1>3
  <2>2. k.thread \in Threads /\ k.thread < nextThread
    BY DEF KillType, Kill, FreshInv
  <2>3. Strike(k, FALSE) \/ Strike(k, TRUE)
    BY <2>1 DEF KillArrives
  <2>4. UNCHANGED flags \/ \E m : Set(k, m)
    BY <2>2, <2>3, StrikeSets
  <2>5. QED BY <1>1, <1>2, <2>2, <2>4
<1>4. ASSUME NEW a \in Actors, CeilingKill(a) \/ StopStream(a)
      PROVE  flags[th] # {} \/ (th \notin gone /\ th < nextThread)
  <2>1. pc[a] \in HoldingPC
    BY <1>4 DEF CeilingKill, StopStream, HoldingPC
  <2>2. ASSUME NEW k, k.thread = Thread(a), NEW lost \in BOOLEAN, Strike(k, lost)
        PROVE  flags[th] # {} \/ (th \notin gone /\ th < nextThread)
    <3>1. k.thread \in Threads /\ k.thread < nextThread
      BY <2>1, <2>2, OwnThread
    <3>2. UNCHANGED flags \/ \E m : Set(k, m)
      BY <2>2, <3>1, StrikeSets
    <3>3. QED BY <1>1, <1>2, <3>1, <3>2
  <2>3. CeilingOf(a).thread = Thread(a) /\ StopOf(a).thread = Thread(a)
    BY DEF CeilingOf, StopOf
  <2>4. QED BY <1>1, <1>4, <2>2, <2>3, OwnKill
<1>5. CASE \E u \in Threads : ServerEnd(u) \/ ConnectionLost(u)
  BY <1>5 DEF ServerEnd, ConnectionLost, ServerType
<1>6. Tabs \subseteq Actors /\ Jobs \subseteq Actors
  BY DEF Actors
<1>7. QED BY <1>1, <1>3, <1>4, <1>5, <1>6, FlagSteps

\* The session in the slot is kept, dropped, or a new one.
LEMMA SessionSteps ==
  ASSUME IInv, SlotInv, SlotInv', [Next]_vars
  PROVE  \/ session'[1] \in {session[1], 0} /\ nextThread' = nextThread
         \/ session'[1] = nextThread /\ nextThread' = nextThread + 1 /\ UNCHANGED <<flags, gone>>
         \/ session'[1] = session[1] /\ nextThread' >= nextThread
<1> USE DEF IInv, TypeOK
<1>1. CASE SlotStill
  <2>1. UNCHANGED session
    BY <1>1, SlotStillFrame
  <2>2. UNCHANGED nextThread
    BY ZenonT(40), <1>1 DEF SlotStill, TabStep, CancelQuery, Register, StartStatement, StatementEnd,
         CeilingKill, DrainEnd, AbsorbEnd, CaptureEnd, Unregister, ReleaseTab,
         StartExport, JobStep, CancelExport, BeginExport, SetJobThread, StartRerun,
         ReadDatabase, UseDatabase, StopStream, StreamEnd, ClearJobThread,
         WaitForCancelKills, WaitTimeout, AfterWait, ExportAbsorbEnd, RestoreEnd,
         ReleaseJob, FinishFile, PublishStatus, KillArrives, KillGivenUp, ServerEnd,
         ConnectionLost, CloseCancelExport, vars, serverVars
  <2>3. QED BY <2>1, <2>2
<1>2. CASE \E a \in Actors : Acquire(a)
  <2>1. PICK a \in Actors : Acquire(a)
    BY <1>2
  <2>2. at[a] \in {1, 2}
    BY DEF ActorType, Slots
  <2>3. CASE AcquireAlive(a) \/ AcquireReconnect(a) \/ AcquireFail(a)
    BY <2>2, <2>3 DEF AcquireAlive, AcquireReconnect, AcquireFail, lockVars, serverVars,
                      LockType, Slots
  <2>4. CASE AcquireConnect(a)
    <3>1. at[a] = 1
      BY <2>4 DEF AcquireConnect, SlotInv
    <3>2. QED BY <2>4, <3>1 DEF AcquireConnect, LockType, Slots
  <2>5. QED BY <2>1, <2>3, <2>4 DEF Acquire
<1>3. CASE \E t \in Tabs : RunQuery(t) \/ ReleaseTab(t)
  BY <1>3 DEF RunQuery, ReleaseTab, Enqueue, Unlock, serverVars, LockType, Slots
<1>4. CASE \E j \in Jobs : BeginExport(j) \/ ReleaseJob(j)
  BY <1>4 DEF BeginExport, ReleaseJob, Enqueue, Unlock, serverVars, lockVars, LockType, Slots
<1>5. CASE CloseBegin \/ CloseRemove \/ CloseRunningQueries \/ CloseSession
  BY <1>5 DEF CloseBegin, CloseRemove, CloseRunningQueries, CloseSession, lockVars,
              serverVars, LockType, Slots
<1>6. QED BY <1>1, <1>2, <1>3, <1>4, <1>5, StepKinds

\* A thread dies by itself, or because the slot lets go of it.
LEMMA GoneSteps ==
  ASSUME IInv, SlotInv, [Next]_vars, NEW th \in gone', th \notin gone
  PROVE  flags'[th] = {} \/ session'[1] # th
<1> USE DEF IInv, TypeOK
<1>1. CASE SlotStill
  <2>1. CASE \E u \in Threads : ConnectionLost(u)
    BY <2>1 DEF ConnectionLost, ServerType
  <2>2. CASE ~\E u \in Threads : ConnectionLost(u)
    <3>1. UNCHANGED gone
      BY ZenonT(40), <1>1, <2>2 DEF SlotStill, TabStep, CancelQuery, Register, StartStatement,
         StatementEnd, CeilingKill, DrainEnd, AbsorbEnd, CaptureEnd, Unregister, ReleaseTab,
         StartExport, JobStep, CancelExport, BeginExport, SetJobThread, StartRerun,
         ReadDatabase, UseDatabase, StopStream, StreamEnd, ClearJobThread,
         WaitForCancelKills, WaitTimeout, AfterWait, ExportAbsorbEnd, RestoreEnd,
         ReleaseJob, FinishFile, PublishStatus, KillArrives, KillGivenUp, ServerEnd,
         CloseCancelExport, vars, serverVars
    <3>2. QED BY <3>1
  <2>3. QED BY <2>1, <2>2
<1>2. CASE \E a \in Actors : Acquire(a)
  BY <1>2 DEF Acquire, AcquireAlive, AcquireReconnect, AcquireFail, AcquireConnect, serverVars
<1>3. ASSUME NEW a \in Actors, Unlock(a)
      PROVE  session'[1] # th
  <2>1. th = session[at[a]] /\ session' = [session EXCEPT ![at[a]] = 0] /\ th # 0
    BY <1>3 DEF Unlock
  <2>2. at[a] = 1
    BY <2>1 DEF SlotInv, ActorType, Slots
  <2>3. QED BY <2>1, <2>2 DEF LockType, Slots
<1>4. Tabs \subseteq Actors /\ Jobs \subseteq Actors
  BY DEF Actors
<1>5. CASE \E t \in Tabs : RunQuery(t) \/ ReleaseTab(t)
  BY <1>3, <1>4, <1>5 DEF RunQuery, ReleaseTab, serverVars
<1>6. CASE \E j \in Jobs : BeginExport(j) \/ ReleaseJob(j)
  BY <1>3, <1>4, <1>6 DEF BeginExport, ReleaseJob, serverVars
<1>7. CASE CloseBegin \/ CloseRemove \/ CloseRunningQueries
  BY <1>7 DEF CloseBegin, CloseRemove, CloseRunningQueries, serverVars
<1>8. CASE CloseSession
  <2>1. /\ slot \in {1, 2} /\ th = session[slot] /\ th # 0
        /\ session' = [session EXCEPT ![slot] = 0]
    BY <1>8 DEF CloseSession, LockType, Slots
  <2>2. slot = 1
    BY <2>1 DEF SlotInv
  <2>3. QED BY <2>1, <2>2 DEF LockType, Slots
<1>9. QED BY <1>1, <1>2, <1>5, <1>6, <1>7, <1>8, StepKinds

LEMMA DeadNext ==
  ASSUME IInv, IInv', SlotInv, SlotInv', FreshInv, DeadInv, [Next]_vars
  PROVE  DeadInv'
<1> SUFFICES ASSUME NEW th \in gone', session'[1] = th, flags'[th] # {} PROVE FALSE
  BY DEF DeadInv
<1>1. th \in Threads /\ th # 0
  BY DEF IInv, TypeOK, ServerType, Threads
<1>2. th \in gone
  BY GoneSteps
<1>3. flags[th] # {}
  BY <1>1, <1>2, SetOnLive
<1>4. session[1] # th
  BY <1>2, <1>3 DEF DeadInv
<1>5. th = nextThread
  BY <1>1, <1>4, SessionSteps
<1>6. QED BY <1>1, <1>3, <1>5 DEF FreshInv, IInv, TypeOK, ServerType

\* The thread of a KILL that is registered.
LEMMA KillSteps ==
  ASSUME [Next]_vars
  PROVE  \/ kills' \subseteq kills
         \/ \E t \in Tabs : CancelQuery(t)
         \/ \E j \in Jobs : CancelExport(j) \/ CloseCancelExport(j)
<1>1. CASE \E a \in Actors : Acquire(a)
  BY <1>1 DEF Acquire, AcquireAlive, AcquireReconnect, AcquireFail, AcquireConnect, killVars
<1>2. CASE \E t \in Tabs : RunQuery(t) \/ TabStep(t) \/ CancelQuery(t)
  BY <1>2 DEF RunQuery, TabStep, Register, StartStatement, StatementEnd, CeilingKill,
       DrainEnd, AbsorbEnd, CaptureEnd, Unregister, ReleaseTab, killVars
<1>3. CASE \E j \in Jobs : StartExport(j) \/ JobStep(j) \/ CancelExport(j)
  BY ZenonT(40), <1>3 DEF StartExport, JobStep, BeginExport, SetJobThread, StartRerun, ReadDatabase,
       UseDatabase, StopStream, StreamEnd, ClearJobThread, WaitForCancelKills,
       WaitTimeout, AfterWait, ExportAbsorbEnd, RestoreEnd, ReleaseJob, FinishFile,
       PublishStatus, killVars
<1>4. CASE Close
  BY <1>4 DEF Close, CloseBegin, CloseRemove, CloseRunningQueries, CloseSession, killVars
<1>5. CASE UNCHANGED vars
  BY <1>5 DEF vars, killVars
<1>6. QED
  BY <1>1, <1>2, <1>3, <1>4, <1>5 DEF Next, KillArrives, KillGivenUp, ServerEnd,
     ConnectionLost, killVars

\* A KILL that a cancel registers targets the owner of a thread; an export's
\* names its job and comes before set_job_thread(None).
LEMMA NewKill ==
  ASSUME IInv, [Next]_vars, NEW k \in kills', k \notin kills
  PROVE  /\ \E th \in Threads : k.thread = th /\ k.actor \in Actors /\ Owns(k.actor, th)
         /\ \/ k.kind = "cancel"
            \/ /\ k.kind = "export" /\ k.actor \in Jobs /\ k.run = 0 /\ k.idx = 0
               /\ pc[k.actor] \notin WaitedPC
         /\ UNCHANGED <<pc, queue, session, at, timedOut>>
<1> USE DEF IInv, TypeOK
<1>1. CASE \E t \in Tabs : CancelQuery(t)
  <2>1. PICK t \in Tabs : CancelQuery(t)
    BY <1>1
  <2>2. /\ k.kind = "cancel" /\ k.actor = t /\ k.thread = running_queries[t]
        /\ running_queries[t] # 0 /\ UNCHANGED <<pc, queue, session, at, timedOut>>
    BY <2>1 DEF CancelQuery, lockVars, actorVars, jobVars
  <2>3. running_queries[t] \in Threads /\ t \in Actors
    BY <2>2 DEF TabType, Actors
  <2>4. QED BY <2>2, <2>3 DEF CancelTargetsOwnSession
<1>2. CASE \E j \in Jobs : CancelExport(j) \/ CloseCancelExport(j)
  <2>1. PICK j \in Jobs : CancelExport(j) \/ CloseCancelExport(j)
    BY <1>2
  <2>2. /\ k.kind = "export" /\ k.actor = j /\ k.run = 0 /\ k.idx = 0
        /\ k.thread = mysql_thread_id[j]
        /\ mysql_thread_id[j] # 0 /\ UNCHANGED <<pc, queue, session, at, timedOut>>
    BY <2>1 DEF CancelExport, CloseCancelExport, RequestCancel, lockVars, actorVars, jobVars
  <2>3. mysql_thread_id[j] \in Threads /\ j \in Actors
    BY <2>2 DEF JobType, Actors
  <2>4. pc[j] \notin WaitedPC
    BY <2>2 DEF Deregistered, DisarmedPC, WaitedPC
  <2>5. QED BY <2>2, <2>3, <2>4 DEF CancelTargetsOwnSession
<1>3. QED BY <1>1, <1>2, KillSteps

LEMMA FreshNext ==
  ASSUME IInv, IInv', SlotInv, SlotInv', FreshInv, [Next]_vars
  PROVE  FreshInv'
<1> USE DEF IInv, TypeOK
<1>1. /\ nextThread \in Nat /\ nextThread' \in Nat /\ session[1] \in Nat
      /\ session[1] < nextThread /\ nextThread > 0
  BY BoundsAssumption DEF ServerType, LockType, Slots, Threads, FreshInv
<1>2. session'[1] < nextThread' /\ nextThread <= nextThread'
  BY <1>1, SessionSteps
<1>3. ASSUME NEW th \in Threads, th >= nextThread', flags'[th] # {}
      PROVE  FALSE
  <2>1. flags[th] # {} /\ th >= nextThread
    BY <1>1, <1>2, <1>3, SetOnLive DEF Threads
  <2>2. QED BY <2>1 DEF FreshInv
<1>4. ASSUME NEW k \in kills'
      PROVE  k.thread < nextThread'
  <2>1. k.thread \in Nat
    BY DEF KillType, Kill, Threads
  <2>2. k.thread < nextThread
    <3>1. CASE k \in kills
      BY <3>1 DEF FreshInv
    <3>2. CASE k \notin kills
      <4>1. PICK th \in Threads : k.thread = th /\ k.actor \in Actors /\ Owns(k.actor, th)
        BY <3>2, NewKill
      <4>2. th = session[1]
        BY <4>1, OwnerOfOne
      <4>3. QED BY <1>1, <4>1, <4>2
    <3>3. QED BY <3>1, <3>2
  <2>3. QED BY <1>1, <1>2, <2>1, <2>2
<1>5. QED BY <1>2, <1>3, <1>4 DEF FreshInv

----------
(* What a step does to one task. *)

\* Nothing of b that PendingInv reads changes.
Untouched(b) ==
    /\ pc'[b] = pc[b] /\ kill_sent'[b] = kill_sent[b] /\ reply'[b] = reply[b]
    /\ run'[b] = run[b] /\ idx'[b] = idx[b]
    /\ b \in Jobs => interrupted'[b] = interrupted[b] /\ timedOut'[b] = timedOut[b]

OwnStep(b) ==
    \/ Acquire(b)
    \/ b \in Tabs /\ (RunQuery(b) \/ TabStep(b))
    \/ b \in Jobs /\ (StartExport(b) \/ JobStep(b))

LEMMA TaskSteps ==
  ASSUME IInv, [Next]_vars, NEW b \in Actors
  PROVE  \/ Untouched(b) \/ OwnStep(b)
         \/ \E k \in kills : KillArrives(k)
         \/ \E th \in Threads : ServerEnd(th) \/ ConnectionLost(th)
<1> USE DEF IInv, TypeOK
<1>1. ASSUME NEW a \in Actors, a # b, Acquire(a)
      PROVE  Untouched(b)
  BY <1>1 DEF Untouched, Acquire, AcquireAlive, AcquireReconnect, AcquireFail,
     AcquireConnect, Goto, jobVars, ActorType
<1>2. ASSUME NEW t \in Tabs, t # b, RunQuery(t) \/ TabStep(t)
      PROVE  Untouched(b)
  <2>1. CASE RunQuery(t) \/ Register(t) \/ StartStatement(t) \/ StatementEnd(t)
    BY <1>2, <2>1 DEF Untouched, RunQuery, Register, StartStatement, StatementEnd,
       Send, Goto, jobVars, ActorType
  <2>2. CASE CeilingKill(t) \/ DrainEnd(t) \/ AbsorbEnd(t)
    BY <1>2, <2>2 DEF Untouched, CeilingKill, DrainEnd, AbsorbEnd, CaptureDatabase,
       Send, Goto, jobVars, ActorType
  <2>3. CASE CaptureEnd(t) \/ Unregister(t) \/ ReleaseTab(t)
    BY <1>2, <2>3 DEF Untouched, CaptureEnd, Unregister, ReleaseTab, Goto, jobVars, ActorType
  <2>4. QED BY <1>2, <2>1, <2>2, <2>3 DEF TabStep
<1>3. ASSUME NEW j \in Jobs, j # b, StartExport(j) \/ JobStep(j)
      PROVE  Untouched(b)
  <2>1. CASE StartExport(j) \/ BeginExport(j) \/ SetJobThread(j) \/ StartRerun(j)
    BY <1>3, <2>1 DEF Untouched, StartExport, BeginExport, SetJobThread, StartRerun,
       Send, Goto, jobVars, ActorType
  <2>2. CASE ReadDatabase(j) \/ UseDatabase(j)
    BY <1>3, <2>2 DEF Untouched, ReadDatabase, UseDatabase, SkipRerun, StartStream,
       Send, Goto, ActorType
  <2>3. CASE StopStream(j) \/ StreamEnd(j) \/ ClearJobThread(j)
    BY <1>3, <2>3 DEF Untouched, StopStream, StreamEnd, ClearJobThread, Goto, ActorType, JobType
  <2>4. CASE WaitForCancelKills(j) \/ WaitTimeout(j)
    BY <1>3, <2>4 DEF Untouched, WaitForCancelKills, WaitTimeout, AfterWait, Restore,
       Send, Goto, ActorType, JobType
  <2>5. CASE ExportAbsorbEnd(j) \/ RestoreEnd(j) \/ ReleaseJob(j)
    BY <1>3, <2>5 DEF Untouched, ExportAbsorbEnd, RestoreEnd, ReleaseJob, Restore,
       Send, Goto, jobVars, ActorType
  <2>6. CASE FinishFile(j) \/ PublishStatus(j)
    BY <1>3, <2>6 DEF Untouched, FinishFile, PublishStatus, Goto, ActorType
  <2>7. QED BY <1>3, <2>1, <2>2, <2>3, <2>4, <2>5, <2>6 DEF JobStep
<1>4. CASE \/ \E t \in Tabs : CancelQuery(t)
           \/ \E j \in Jobs : CancelExport(j)
           \/ \E k \in kills : KillGivenUp(k)
           \/ Close
           \/ UNCHANGED vars
  BY <1>4 DEF Untouched, CancelQuery, CancelExport, KillGivenUp, Close, CloseBegin,
     CloseCancelExport, CloseRemove, CloseRunningQueries, CloseSession, vars,
     actorVars, jobVars
<1>5. QED BY <1>1, <1>2, <1>3, <1>4 DEF Next, OwnStep

\* An export never takes back that it gave up waiting.
LEMMA TimedOutStays ==
  ASSUME IInv, [Next]_vars, NEW j \in Jobs, timedOut[j]
  PROVE  timedOut'[j]
<1> USE DEF IInv, TypeOK
<1>1. j \in Actors /\ j \notin Tabs
  BY ActorsAssumption DEF Actors
<1>2. CASE OwnStep(j)
  BY <1>1, <1>2 DEF OwnStep, Acquire, AcquireAlive, AcquireReconnect, AcquireFail,
     AcquireConnect, StartExport, JobStep, BeginExport, SetJobThread, StartRerun,
     ReadDatabase, UseDatabase, StopStream, StreamEnd, ClearJobThread, WaitForCancelKills,
     WaitTimeout, ExportAbsorbEnd, RestoreEnd, ReleaseJob, FinishFile, PublishStatus,
     jobVars, JobType
<1>3. CASE \/ \E k \in kills : KillArrives(k)
           \/ \E th \in Threads : ServerEnd(th) \/ ConnectionLost(th)
  BY <1>3 DEF KillArrives, ServerEnd, ConnectionLost, jobVars
<1>4. QED BY <1>1, <1>2, <1>3, TaskSteps DEF Untouched

\* The labels behind the wait are only reached through it.
LEMMA EntersWaited ==
  ASSUME IInv, [Next]_vars, NEW j \in Jobs, pc[j] \notin WaitedPC, pc'[j] \in WaitedPC
  PROVE  WaitForCancelKills(j) \/ WaitTimeout(j)
<1> USE DEF IInv, TypeOK
<1>1. j \in Actors /\ j \notin Tabs
  BY ActorsAssumption DEF Actors
<1>2. CASE Acquire(j)
  BY <1>1, <1>2 DEF Acquire, AcquireAlive, AcquireReconnect, AcquireFail, AcquireConnect,
     Goto, ActorType, WaitedPC
<1>3. CASE \/ StartExport(j) \/ BeginExport(j) \/ SetJobThread(j) \/ StartRerun(j)
           \/ ReadDatabase(j) \/ UseDatabase(j) \/ StopStream(j) \/ StreamEnd(j)
           \/ ClearJobThread(j) \/ ExportAbsorbEnd(j) \/ RestoreEnd(j) \/ ReleaseJob(j)
           \/ FinishFile(j) \/ PublishStatus(j)
  BY <1>1, <1>3 DEF StartExport, BeginExport, SetJobThread, StartRerun, ReadDatabase,
     UseDatabase, SkipRerun, StartStream, StopStream, StreamEnd, ClearJobThread,
     ExportAbsorbEnd, RestoreEnd, ReleaseJob, FinishFile, PublishStatus, Goto,
     ActorType, WaitedPC
<1>4. CASE \/ \E k \in kills : KillArrives(k)
           \/ \E th \in Threads : ServerEnd(th) \/ ConnectionLost(th)
  BY <1>4 DEF KillArrives, ServerEnd, ConnectionLost
<1>5. QED BY <1>1, <1>2, <1>3, <1>4, TaskSteps DEF Untouched, OwnStep, JobStep

LEMMA RegisteredNext ==
  ASSUME IInv, IInv', SlotInv, SlotInv', RegisteredInv, [Next]_vars
  PROVE  RegisteredInv'
<1> USE DEF IInv, TypeOK
<1>1. ASSUME NEW k \in kills', k \notin kills
      PROVE  /\ k.kind # "ceiling"
             /\ k.kind = "export" =>
                  /\ k.actor \in Jobs /\ k.run = 0 /\ k.idx = 0
                  /\ Owns(k.actor, k.thread)' /\ pc'[k.actor] \notin WaitedPC
  BY <1>1, NewKill DEF Owns, Holds, Thread
<1>2. ASSUME NEW k \in kills, k.kind = "export"
      PROVE  \/ timedOut'[k.actor] \/ k \notin kills'
             \/ Owns(k.actor, k.thread)' /\ pc'[k.actor] \notin WaitedPC
  <2>1. k.actor \in Jobs /\ k.actor \in Actors /\ k.thread \in Threads
    BY <1>2 DEF RegisteredInv, Actors, KillType, Kill
  <2>2. CASE timedOut[k.actor]
    BY <2>1, <2>2, TimedOutStays
  <2>3. CASE Owns(k.actor, k.thread) /\ pc[k.actor] \notin WaitedPC
    <3>1. Owns(k.actor, k.thread)'
      BY <2>1, <2>3, OwnersStay DEF WaitedPC
    <3>2. CASE WaitForCancelKills(k.actor)
      BY <3>2 DEF WaitForCancelKills, KillsInFlight
    <3>3. CASE WaitTimeout(k.actor)
      BY <2>1, <3>3 DEF WaitTimeout, JobType
    <3>4. QED BY <2>1, <2>3, <3>1, <3>2, <3>3, EntersWaited
  <2>4. QED BY <1>2, <2>2, <2>3 DEF RegisteredInv
<1>3. QED BY <1>1, <1>2 DEF RegisteredInv

----------
(* A statement belongs to its task's current run. *)

\* A task with a statement on the session keeps its run and its place in it.
LEMMA RunStays ==
  ASSUME IInv, [Next]_vars, NEW b \in Actors, pc[b] \in AwaitingPC
  PROVE  run'[b] = run[b] /\ idx'[b] = idx[b]
<1>1. CASE OwnStep(b)
  BY <1>1 DEF OwnStep, Acquire, AcquireAlive, AcquireReconnect, AcquireFail,
     AcquireConnect, RunQuery, TabStep, Register, StartStatement, StatementEnd,
     CeilingKill, DrainEnd, AbsorbEnd, CaptureEnd, Unregister, ReleaseTab,
     StartExport, JobStep, BeginExport, SetJobThread, StartRerun,
     ReadDatabase, UseDatabase, StopStream, StreamEnd, ClearJobThread, WaitForCancelKills,
     WaitTimeout, AfterWait, ExportAbsorbEnd, RestoreEnd, ReleaseJob, FinishFile,
     PublishStatus, AwaitingPC
<1>2. CASE \/ \E k \in kills : KillArrives(k)
           \/ \E th \in Threads : ServerEnd(th) \/ ConnectionLost(th)
  BY <1>2 DEF KillArrives, ServerEnd, ConnectionLost
<1>3. QED BY <1>1, <1>2, TaskSteps DEF Untouched

\* The statements that start in a step: of one task, at its place in its run.
LEMMA StatementSteps ==
  ASSUME IInv, [Next]_vars
  PROVE  \/ \A th \in Threads : stmt'[th] \in {stmt[th], None}
         \/ \E a \in Actors, i \in Nat :
              Send(a, i) /\ run'[a] = run[a] /\ (a \in Tabs => i = idx'[a])
<1> USE DEF IInv, TypeOK
<1>1. /\ Tabs \subseteq Actors /\ Jobs \subseteq Actors /\ \A j \in Jobs : j \notin Tabs
      /\ \A a \in Actors : idx[a] \in Nat
  BY ActorsAssumption DEF Actors, ActorType
<1>2. CASE \E a \in Actors : Acquire(a)
  BY <1>2 DEF Acquire, AcquireAlive, AcquireReconnect, AcquireFail, AcquireConnect, serverVars
<1>3. ASSUME NEW t \in Tabs, RunQuery(t) \/ TabStep(t) \/ CancelQuery(t)
      PROVE  \/ UNCHANGED stmt
             \/ \E i \in Nat : Send(t, i) /\ run'[t] = run[t] /\ i = idx'[t]
  <2>1. CASE StartStatement(t)
    <3>1. Send(t, idx[t] + 1) /\ run' = run /\ idx'[t] = idx[t] + 1 /\ idx[t] + 1 \in Nat
      BY <1>1, <2>1 DEF StartStatement, ActorType
    <3>2. QED BY <3>1
  <2>2. CASE DrainEnd(t) \/ AbsorbEnd(t)
    <3>1. UNCHANGED <<run, idx>> /\ (UNCHANGED stmt \/ Send(t, idx[t]))
      BY <2>2 DEF DrainEnd, AbsorbEnd, CaptureDatabase
    <3>2. QED BY <1>1, <3>1
  <2>3. QED
    BY <1>3, <2>1, <2>2 DEF RunQuery, TabStep, CancelQuery, Register, StatementEnd,
       CeilingKill, CaptureEnd, Unregister, ReleaseTab, serverVars
<1>4. ASSUME NEW j \in Jobs, StartExport(j) \/ JobStep(j) \/ CancelExport(j)
      PROVE  UNCHANGED stmt \/ (Send(j, 0) /\ run'[j] = run[j])
  <2>1. CASE StartRerun(j) \/ ReadDatabase(j) \/ UseDatabase(j)
    BY <2>1 DEF StartRerun, ReadDatabase, UseDatabase, SkipRerun, StartStream
  <2>2. CASE WaitForCancelKills(j) \/ WaitTimeout(j) \/ ExportAbsorbEnd(j) \/ RestoreEnd(j)
    BY <2>2 DEF WaitForCancelKills, WaitTimeout, AfterWait, Restore, ExportAbsorbEnd, RestoreEnd
  <2>3. QED
    BY <1>4, <2>1, <2>2 DEF StartExport, JobStep, CancelExport, BeginExport, SetJobThread,
       StopStream, StreamEnd, ClearJobThread, ReleaseJob, FinishFile, PublishStatus, serverVars
<1>5. CASE \E th \in Threads : ServerEnd(th) \/ ConnectionLost(th)
  BY <1>5 DEF ServerEnd, ConnectionLost, ServerType
<1>6. CASE \/ \E k \in kills : KillArrives(k) \/ KillGivenUp(k)
           \/ Close
           \/ UNCHANGED vars
  BY <1>6 DEF KillArrives, KillGivenUp, Close, CloseBegin, CloseCancelExport, CloseRemove,
     CloseRunningQueries, CloseSession, vars, serverVars
<1>7. CASE \E t \in Tabs : RunQuery(t) \/ TabStep(t) \/ CancelQuery(t)
  BY <1>1, <1>3, <1>7
<1>8. CASE \E j \in Jobs : StartExport(j) \/ JobStep(j) \/ CancelExport(j)
  BY <1>1, <1>4, <1>8
<1>9. QED BY <1>2, <1>5, <1>6, <1>7, <1>8 DEF Next

LEMMA RunNext ==
  ASSUME IInv, RunInv, [Next]_vars
  PROVE  RunInv'
<1> USE DEF IInv, TypeOK
<1>1. ASSUME NEW th \in Threads, NEW b \in Actors, RunsFor(th, b), stmt'[th] = stmt[th]
      PROVE  stmt'[th].run = run'[b] /\ (b \in Tabs => stmt'[th].idx = idx'[b])
  BY <1>1, RunStays DEF RunInv, StatementAwaited
<1>2. CASE \A th \in Threads : stmt'[th] \in {stmt[th], None}
  BY <1>1, <1>2 DEF RunInv, RunsFor
<1>3. ASSUME NEW a \in Actors, NEW i \in Nat, Send(a, i), run'[a] = run[a],
             a \in Tabs => i = idx'[a]
      PROVE  RunInv'
  <2>1. ASSUME NEW th \in Threads, NEW b \in Actors, RunsFor(th, b)'
        PROVE  stmt'[th].run = run'[b] /\ (b \in Tabs => stmt'[th].idx = idx'[b])
    <3>1. CASE stmt'[th] = stmt[th]
      BY <1>1, <2>1, <3>1 DEF RunsFor
    <3>2. CASE stmt'[th] # stmt[th]
      <4>1. stmt'[th] = [actor |-> a, run |-> run[a], idx |-> i]
        BY <1>3, <3>2 DEF Send, ServerType
      <4>2. b = a
        BY <2>1, <4>1 DEF RunsFor
      <4>3. QED BY <1>3, <4>1, <4>2
    <3>3. QED BY <3>1, <3>2
  <2>2. QED BY <2>1 DEF RunInv
<1>4. QED BY <1>2, <1>3, StatementSteps

----------
(* A KILL that is set and has interrupted nothing will be absorbed. *)

\* The answer of the owner of a live thread on which a KILL stays set.
LEMMA ReplyStays ==
  ASSUME IInv, SlotInv, DeadInv, [Next]_vars, NEW b \in Actors, NEW th \in Threads,
         Owns(b, th), NEW f \in flags[th], f \in flags'[th]
  PROVE  /\ reply'[b] \in {reply[b], "none"}
         /\ pc'[b] = "absorb" /\ pc[b] # "absorb" => reply'[b] = "none"
<1> USE DEF IInv, TypeOK
<1>1. th \notin gone /\ Thread(b) = th /\ pc[b] \in HoldingPC
  BY OwnerOfOne DEF DeadInv, Owns
<1>2. \A i : Send(b, i) => reply'[b] = "none"
  BY <1>1 DEF Send, ActorType
<1>3. CASE \E u \in Threads : ServerEnd(u) \/ ConnectionLost(u)
  <2>1. PICK u \in Threads : ServerEnd(u) \/ ConnectionLost(u)
    BY <1>3
  <2>2. u # th
    BY <2>1 DEF ServerEnd, ConnectionLost, ServerType
  <2>3. ~RunsFor(u, b)
    BY <2>2, OneOwner DEF StatementAwaited
  <2>4. stmt[u] = None \/ stmt[u].actor # b
    BY <2>3 DEF RunsFor
  <2>5. reply'[b] = reply[b] /\ pc'[b] = pc[b]
    BY <2>1, <2>4 DEF ServerEnd, ConnectionLost, ActorType
  <2>6. QED BY <2>5
<1>4. CASE \E k \in kills : KillArrives(k)
  BY <1>4 DEF KillArrives
<1>5. CASE Acquire(b)
  BY <1>1, <1>5 DEF Acquire, AcquireAlive, AcquireReconnect, AcquireFail, AcquireConnect, HoldingPC
<1>6. CASE b \in Tabs /\ (RunQuery(b) \/ TabStep(b))
  <2>1. CASE DrainEnd(b)
    BY <1>2, <2>1 DEF DrainEnd, CaptureDatabase, Goto, ActorType
  <2>2. CASE AbsorbEnd(b) \/ StartStatement(b)
    BY <1>2, <2>2 DEF AbsorbEnd, StartStatement, CaptureDatabase, Goto, ActorType
  <2>3. CASE \/ RunQuery(b) \/ Register(b) \/ StatementEnd(b) \/ CeilingKill(b)
             \/ CaptureEnd(b) \/ Unregister(b) \/ ReleaseTab(b)
    BY <2>3 DEF RunQuery, Register, StatementEnd, CeilingKill, CaptureEnd, Unregister,
       ReleaseTab, Goto, ActorType
  <2>4. QED BY <1>6, <2>1, <2>2, <2>3 DEF TabStep
<1>7. CASE b \in Jobs /\ (StartExport(b) \/ JobStep(b))
  <2>1. CASE WaitForCancelKills(b) \/ WaitTimeout(b)
    BY <1>2, <2>1 DEF WaitForCancelKills, WaitTimeout, AfterWait, Restore, Goto, ActorType
  <2>2. CASE \/ StartRerun(b) \/ ReadDatabase(b) \/ UseDatabase(b) \/ ExportAbsorbEnd(b)
             \/ RestoreEnd(b)
    BY <1>2, <2>2 DEF StartRerun, ReadDatabase, UseDatabase, SkipRerun, StartStream,
       ExportAbsorbEnd, RestoreEnd, Restore, Goto, ActorType
  <2>3. CASE \/ StartExport(b) \/ BeginExport(b) \/ SetJobThread(b) \/ StopStream(b)
             \/ StreamEnd(b) \/ ClearJobThread(b) \/ ReleaseJob(b) \/ FinishFile(b)
             \/ PublishStatus(b)
    BY <2>3 DEF StartExport, BeginExport, SetJobThread, StopStream, StreamEnd,
       ClearJobThread, ReleaseJob, FinishFile, PublishStatus, Goto, ActorType
  <2>4. QED BY <1>7, <2>1, <2>2, <2>3 DEF JobStep
<1>8. QED BY <1>3, <1>4, <1>5, <1>6, <1>7, TaskSteps DEF Untouched, OwnStep

\* That a KILL was sent is only forgotten when the next statement starts.
LEMMA KillSentStays ==
  ASSUME IInv, [Next]_vars, NEW b \in Actors, kill_sent[b],
         b \in Tabs => pc[b] # "ready"
  PROVE  kill_sent'[b]
<1> USE DEF IInv, TypeOK
<1>1. CASE OwnStep(b)
  BY <1>1 DEF OwnStep, Acquire, AcquireAlive, AcquireReconnect, AcquireFail,
     AcquireConnect, RunQuery, TabStep, Register, StartStatement, StatementEnd,
     CeilingKill, DrainEnd, AbsorbEnd, CaptureEnd, Unregister, ReleaseTab,
     StartExport, JobStep, BeginExport, SetJobThread, StartRerun,
     ReadDatabase, UseDatabase, StopStream, StreamEnd, ClearJobThread, WaitForCancelKills,
     WaitTimeout, AfterWait, ExportAbsorbEnd, RestoreEnd, ReleaseJob, FinishFile,
     PublishStatus, ActorType
<1>2. CASE \/ \E k \in kills : KillArrives(k)
           \/ \E th \in Threads : ServerEnd(th) \/ ConnectionLost(th)
  BY <1>2 DEF KillArrives, ServerEnd, ConnectionLost, ActorType
<1>3. QED BY <1>1, <1>2, TaskSteps DEF Untouched

\* The owner of a pending KILL keeps what makes it pending.
LEMMA PendingStays ==
  ASSUME IInv, IInv', SlotInv, SlotInv', DeadInv, [Next]_vars, NEW k, NEW th \in Threads,
         k.actor \in Actors, Pending(k, th), pc[k.actor] # "release",
         k.actor \in Tabs => pc[k.actor] # "ready",
         NEW f \in flags[th], f \in flags'[th]
  PROVE  Pending(k, th)'
<1> DEFINE b == k.actor
<1>1. Owns(b, th)' /\ kill_sent'[b]
  BY OwnersStay, KillSentStays DEF Pending
<1>2. /\ reply'[b] \in {reply[b], "none"}
      /\ pc'[b] = "absorb" /\ pc[b] # "absorb" => reply'[b] = "none"
  BY ReplyStays DEF Pending
<1>3. reply'[b] # "killed" /\ (pc'[b] = "absorb" => reply'[b] = "none")
  BY <1>2 DEF Pending
<1>4. QED BY <1>1, <1>3 DEF Pending

LEMMA CeilingStays ==
  ASSUME IInv, IInv', SlotInv, SlotInv', DeadInv, [Next]_vars, NEW k, NEW th \in Threads,
         CeilingPending(k, th), NEW f \in flags[th], f \in flags'[th]
  PROVE  CeilingPending(k, th)'
<1> DEFINE t == k.actor
<1> USE DEF IInv, TypeOK
<1>1. /\ t \in Actors /\ t \in Tabs /\ t \notin Jobs /\ Pending(k, th)
      /\ pc[t] \in {"drain", "absorb"}
  BY ActorsAssumption DEF CeilingPending, Actors
<1>2. Pending(k, th)' /\ run'[t] = run[t] /\ idx'[t] = idx[t]
  BY <1>1, PendingStays, RunStays DEF AwaitingPC
<1>3. pc'[t] \in {"drain", "absorb"}
  <2>1. CASE RunQuery(t) \/ TabStep(t)
    <3>1. DrainEnd(t) \/ AbsorbEnd(t)
      BY <1>1, <2>1 DEF RunQuery, TabStep, Register, StartStatement, StatementEnd,
                        CeilingKill, CaptureEnd, Unregister, ReleaseTab
    <3>2. ~AbsorbEnd(t)
      BY <1>1 DEF AbsorbEnd, Ended, Pending
    <3>3. pc' = [pc EXCEPT ![t] = "absorb"]
      BY <1>1, <3>1, <3>2 DEF DrainEnd, LateKillPossible, Pending, Goto
    <3>4. QED BY <1>1, <3>3 DEF ActorType
  <2>2. CASE \/ \E q \in kills : KillArrives(q)
             \/ \E u \in Threads : ServerEnd(u) \/ ConnectionLost(u)
    BY <1>1, <2>2 DEF KillArrives, ServerEnd, ConnectionLost
  <2>3. ~Acquire(t)
    BY <1>1 DEF Acquire, AcquireAlive, AcquireReconnect, AcquireFail, AcquireConnect
  <2>4. QED BY <1>1, <2>1, <2>2, <2>3, TaskSteps DEF Untouched, OwnStep
<1>4. QED BY <1>1, <1>2, <1>3 DEF CeilingPending

LEMMA ExportStays ==
  ASSUME IInv, IInv', SlotInv, SlotInv', DeadInv, [Next]_vars, NEW k, NEW th \in Threads,
         ExportPending(k, th), NEW f \in flags[th], f \in flags'[th]
  PROVE  timedOut'[k.actor] \/ ExportPending(k, th)'
<1> DEFINE j == k.actor
<1> USE DEF IInv, TypeOK
<1>1. /\ j \in Actors /\ j \in Jobs /\ j \notin Tabs /\ Pending(k, th) /\ ~interrupted[j]
      /\ pc[j] \notin {"restore", "retry", "release"}
  BY ActorsAssumption DEF ExportPending, Actors
<1>2. Pending(k, th)'
  BY <1>1, PendingStays
<1>3. ~interrupted'[j]
  <2>1. CASE StreamEnd(j)
    BY <1>1, <2>1 DEF StreamEnd, Pending, JobType
  <2>2. CASE OwnStep(j) /\ ~StreamEnd(j)
    BY <1>1, <2>2 DEF OwnStep, Acquire, AcquireAlive, AcquireReconnect, AcquireFail,
       AcquireConnect, StartExport, JobStep, BeginExport, SetJobThread, StartRerun,
       ReadDatabase, UseDatabase, StopStream, ClearJobThread, WaitForCancelKills,
       WaitTimeout, AfterWait, ExportAbsorbEnd, RestoreEnd, ReleaseJob, FinishFile,
       PublishStatus, jobVars
  <2>3. CASE \/ \E q \in kills : KillArrives(q)
             \/ \E u \in Threads : ServerEnd(u) \/ ConnectionLost(u)
    BY <1>1, <2>3 DEF KillArrives, ServerEnd, ConnectionLost, jobVars
  <2>4. QED BY <1>1, <2>1, <2>2, <2>3, TaskSteps DEF Untouched
<1>4. timedOut'[j] \/ pc'[j] \notin {"restore", "retry", "release"}
  <2>1. CASE WaitForCancelKills(j)
    BY <1>1, <2>1 DEF WaitForCancelKills, AfterWait, ExportLateKillPossible, Pending,
                      Goto, ActorType
  <2>2. CASE WaitTimeout(j)
    BY <2>2 DEF WaitTimeout, JobType
  <2>3. CASE pc[j] = "absorb"
    <3>1. CASE OwnStep(j)
      BY <1>1, <2>3, <3>1 DEF OwnStep, Acquire, AcquireAlive, AcquireReconnect, AcquireFail,
         AcquireConnect, StartExport, JobStep, BeginExport, SetJobThread, StartRerun,
         ReadDatabase, UseDatabase, StopStream, StreamEnd, ClearJobThread,
         WaitForCancelKills, WaitTimeout, ExportAbsorbEnd, RestoreEnd, ReleaseJob,
         FinishFile, PublishStatus, Ended, Pending
    <3>2. CASE \/ \E q \in kills : KillArrives(q)
               \/ \E u \in Threads : ServerEnd(u) \/ ConnectionLost(u)
      BY <2>3, <3>2 DEF KillArrives, ServerEnd, ConnectionLost
    <3>3. QED BY <1>1, <2>3, <3>1, <3>2, TaskSteps DEF Untouched
  <2>4. CASE pc[j] # "absorb" /\ ~WaitForCancelKills(j) /\ ~WaitTimeout(j)
    BY <1>1, <2>4, EntersWaited DEF WaitedPC
  <2>5. QED BY <2>1, <2>2, <2>3, <2>4
<1>5. QED BY <1>1, <1>2, <1>3, <1>4 DEF ExportPending

\* A KILL that is set in this step.
LEMMA NewFlag ==
  ASSUME IInv, SlotInv, FreshInv, RegisteredInv, [Next]_vars, NEW th \in Threads,
         NEW f \in flags'[th], f \notin flags[th]
  PROVE  FlagPending(f, th)'
<1> USE DEF IInv, TypeOK
<1>1. Tabs \subseteq Actors /\ Jobs \subseteq Actors /\ \A j \in Jobs : j \notin Tabs
  BY ActorsAssumption DEF Actors
<1>2. ASSUME NEW k, k.thread \in Threads, NEW lost \in BOOLEAN, Strike(k, lost), f.mark = "first"
      PROVE  /\ f.kill = k /\ k.thread = th /\ ~lost /\ reply[k.actor] # "killed"
             /\ k.actor \in Jobs => ~interrupted[k.actor]
  <2>1. ~UNCHANGED flags
    OBVIOUS
  <2>2. PICK m \in {"first", "second", "lost"} :
          /\ Set(k, m)
          /\ m = "first" => /\ ~lost /\ reply[k.actor] # "killed"
                            /\ k.actor \in Jobs => ~interrupted[k.actor]
    BY <1>2, <2>1, StrikeSets
  <2>3. th = k.thread /\ f = [kill |-> k, mark |-> m]
    BY <2>2 DEF Set, ServerType
  <2>4. QED BY <1>2, <2>2, <2>3
<1>3. CASE \E k \in kills : KillArrives(k)
  <2>1. PICK k \in kills : KillArrives(k)
    BY <1>3
  <2>2. k.thread \in Threads /\ k.kind # "ceiling"
    BY DEF KillType, Kill, RegisteredInv
  <2>3. SUFFICES ASSUME f.mark = "first", f.kill.kind \in {"ceiling", "export"}
                 PROVE  /\ f.kill.kind = "export" /\ f.kill.actor \in Jobs
                        /\ timedOut'[f.kill.actor] \/ ExportPending(f.kill, th)'
    BY DEF FlagPending
  <2>4. /\ UNCHANGED <<pc, queue, session, at, reply, interrupted, timedOut>>
        /\ Strike(k, TRUE)
           \/ (Strike(k, FALSE) /\ (k.kind = "export" => kill_sent' = [kill_sent EXCEPT ![k.actor] = TRUE]))
    BY <2>1 DEF KillArrives, lockVars, jobVars
  <2>5. /\ f.kill = k /\ k.thread = th /\ reply[k.actor] # "killed"
        /\ k.actor \in Jobs => ~interrupted[k.actor]
        /\ Strike(k, FALSE) /\ kill_sent' = [kill_sent EXCEPT ![k.actor] = TRUE]
    BY <1>2, <2>2, <2>3, <2>4
  <2>6. /\ k.kind = "export" /\ k.actor \in Jobs /\ k.run = 0 /\ k.idx = 0
        /\ timedOut[k.actor] \/ (Owns(k.actor, th) /\ pc[k.actor] \notin WaitedPC)
    BY <2>2, <2>3, <2>5 DEF RegisteredInv
  <2>7. kill_sent'[k.actor]
    BY <1>1, <2>5, <2>6 DEF ActorType
  <2>8. Owns(k.actor, th) => Owns(k.actor, th)'
    BY <2>4 DEF Owns, Holds, Thread
  <2>9. QED
    BY <2>4, <2>5, <2>6, <2>7, <2>8 DEF ExportPending, Pending, WaitedPC
<1>4. CASE \E t \in Tabs : CeilingKill(t)
  <2>1. PICK t \in Tabs : CeilingKill(t)
    BY <1>4
  <2>2. SUFFICES ASSUME f.mark = "first" PROVE FlagPending(f, th)'
    BY DEF FlagPending
  <2>3. t \in Actors /\ pc[t] = "exec" /\ pc[t] \in HoldingPC /\ pc'[t] = "drain"
    BY <1>1, <2>1 DEF CeilingKill, HoldingPC, Goto, ActorType
  <2>4. CeilingOf(t).thread \in Threads /\ Owns(t, CeilingOf(t).thread)
    BY <2>3, OwnThread DEF CeilingOf
  <2>5. PICK lost \in BOOLEAN : Strike(CeilingOf(t), lost)
    BY <2>1, OwnKill
  <2>6. f.kill = CeilingOf(t) /\ th = CeilingOf(t).thread /\ ~lost /\ reply[t] # "killed"
    BY <1>2, <2>2, <2>4, <2>5 DEF CeilingOf
  <2>7. /\ UNCHANGED <<queue, session, at, run, idx, reply>>
        /\ kill_sent' = [kill_sent EXCEPT ![t] = TRUE] \/ UNCHANGED flags \/ Strike(CeilingOf(t), TRUE)
    BY <2>1 DEF CeilingKill, CeilingOf, lockVars
  <2>8. kill_sent' = [kill_sent EXCEPT ![t] = TRUE]
    BY <1>2, <2>2, <2>4, <2>7
  <2>9. Owns(t, th)' /\ kill_sent'[t]
    BY <2>3, <2>4, <2>6, <2>7, <2>8 DEF Owns, Holds, Thread, HoldingPC, ActorType
  <2>10. CeilingPending(f.kill, th)'
    BY <2>3, <2>6, <2>7, <2>9 DEF CeilingPending, Pending, CeilingOf
  <2>11. f.kill.kind = "ceiling"
    BY <2>6 DEF CeilingOf
  <2>12. QED BY <2>10, <2>11 DEF FlagPending
<1>5. CASE \E j \in Jobs : StopStream(j)
  <2>1. PICK j \in Jobs : StopStream(j)
    BY <1>5
  <2>2. SUFFICES ASSUME f.mark = "first" PROVE FlagPending(f, th)'
    BY DEF FlagPending
  <2>3. j \in Actors /\ pc[j] = "stream" /\ pc[j] \in HoldingPC
    BY <1>1, <2>1 DEF StopStream, HoldingPC
  <2>4. StopOf(j).thread \in Threads /\ Owns(j, StopOf(j).thread)
    BY <2>3, OwnThread DEF StopOf
  <2>5. PICK lost \in BOOLEAN : Strike(StopOf(j), lost)
    BY <2>1, OwnKill
  <2>6. /\ f.kill = StopOf(j) /\ th = StopOf(j).thread /\ ~lost
        /\ reply[j] # "killed" /\ ~interrupted[j]
    BY <1>2, <2>2, <2>4, <2>5 DEF StopOf
  <2>7. /\ UNCHANGED <<pc, queue, session, at, reply, interrupted>>
        /\ kill_sent' = [kill_sent EXCEPT ![j] = TRUE] \/ UNCHANGED flags \/ Strike(StopOf(j), TRUE)
    BY <2>1 DEF StopStream, StopOf, lockVars
  <2>8. kill_sent' = [kill_sent EXCEPT ![j] = TRUE]
    BY <1>2, <2>2, <2>4, <2>7
  <2>9. Owns(j, th)' /\ kill_sent'[j]
    BY <2>3, <2>4, <2>6, <2>7, <2>8 DEF Owns, Holds, Thread, ActorType
  <2>10. ExportPending(f.kill, th)'
    BY <2>3, <2>6, <2>7, <2>9 DEF ExportPending, Pending, StopOf
  <2>11. f.kill.kind = "export" /\ f.kill.actor = j
    BY <2>6 DEF StopOf
  <2>12. QED BY <2>10, <2>11 DEF FlagPending
<1>6. CASE \E u \in Threads : ServerEnd(u) \/ ConnectionLost(u)
  BY <1>6 DEF ServerEnd, ConnectionLost, ServerType
<1>7. QED BY <1>3, <1>4, <1>5, <1>6, FlagSteps

LEMMA PendingNext ==
  ASSUME IInv, IInv', SlotInv, SlotInv', FreshInv, DeadInv, RegisteredInv, PendingInv,
         [Next]_vars
  PROVE  PendingInv'
<1>1. ASSUME NEW th \in Threads, NEW f \in flags[th], f \in flags'[th]
      PROVE  FlagPending(f, th)'
  <2>1. FlagPending(f, th)
    BY DEF PendingInv
  <2>2. ASSUME f.mark = "first", f.kill.kind = "ceiling"
        PROVE  CeilingPending(f.kill, th)'
    BY <1>1, <2>1, <2>2, CeilingStays DEF FlagPending
  <2>3. ASSUME f.mark = "first", f.kill.kind = "export"
        PROVE  /\ f.kill.actor \in Jobs
               /\ timedOut'[f.kill.actor] \/ ExportPending(f.kill, th)'
    <3>1. CASE f.kill.actor \in Jobs /\ timedOut[f.kill.actor]
      BY <3>1, TimedOutStays
    <3>2. CASE f.kill.actor \in Jobs /\ ExportPending(f.kill, th)
      BY <1>1, <3>2, ExportStays
    <3>3. QED BY <2>1, <2>3, <3>1, <3>2 DEF FlagPending
  <2>4. QED BY <2>2, <2>3 DEF FlagPending
<1>2. QED BY <1>1, NewFlag DEF PendingInv

----------
(* The inductive invariant, and what follows from it. *)

LEMMA InitKInv == Init => KInv
<1> SUFFICES ASSUME Init PROVE KInv
  OBVIOUS
<1>1. IInv
  BY InitIInv
<1>2. SlotInv
  BY DEF Init, SlotInv, Slots
<1>3. FreshInv /\ DeadInv
  BY DEF Init, FreshInv, DeadInv, Slots
<1>4. RunInv
  BY DEF Init, RunInv, RunsFor
<1>5. RegisteredInv /\ PendingInv
  BY DEF Init, RegisteredInv, PendingInv
<1>6. OutcomeInv
  BY DEF Init, OutcomeInv, OutcomeOf, EndStatus, Actors
<1>7. QED BY <1>1, <1>2, <1>3, <1>4, <1>5, <1>6 DEF KInv

LEMMA NextKInv == KInv /\ [Next]_vars => KInv'
<1> SUFFICES ASSUME KInv, [Next]_vars PROVE KInv'
  OBVIOUS
<1> USE DEF KInv
<1>1. IInv'
  BY NextIInv
<1>2. SlotInv'
  BY SlotNext
<1>3. FreshInv' /\ DeadInv'
  BY <1>1, <1>2, FreshNext, DeadNext
<1>4. RunInv'
  BY RunNext
<1>5. RegisteredInv' /\ PendingInv'
  BY <1>1, <1>2, RegisteredNext, PendingNext
<1>6. OutcomeInv'
  BY OutcomeNext
<1>7. QED BY <1>1, <1>2, <1>3, <1>4, <1>5, <1>6

\* The strengthened invariant holds in every reachable state.
THEOREM KillInvariant == Spec => []KInv
BY InitKInv, NextKInv, PTL DEF Spec

\* A KILL of an export or of the row ceiling interrupts only what it was sent for
\* (multi_result.rs drain_after_ceiling, result_export.rs wait_for_cancel_kills and
\* absorb_late_kill), with any number of tabs, exports, cancels and faults, but for
\* the cases KillsLandOnTarget names.
THEOREM KillsLand == Spec => []KillsLandOnTarget
<1>1. KInv => KillsLandOnTarget
  <2> SUFFICES ASSUME KInv, NEW th \in Threads, NEW f \in Striking(th),
                      f.kill.kind # "cancel", f.mark = "first",
                      ~(f.kill.kind = "export" /\ timedOut[f.kill.actor])
               PROVE  Aimed(f.kill, stmt[th])
    <3>1. ASSUME KInv, NEW th \in Threads, NEW f \in Striking(th)
          PROVE  f.mark \in {"first", "second", "lost"}
      BY <3>1 DEF KInv, IInv, TypeOK, ServerType, Flag, Striking
    <3>2. QED BY <3>1 DEF KillsLandOnTarget
  <2> USE DEF KInv, IInv, TypeOK
  <2>1. f \in flags[th] /\ stmt[th] # None
    BY DEF Striking
  <2>2. f.kill.kind \in {"ceiling", "export"}
    BY <2>1 DEF ServerType, Flag, Kill
  <2>3. PICK a \in Actors : stmt[th].actor = a /\ RunsFor(th, a)
    BY <2>1 DEF ServerType, Statement, RunsFor
  <2>4. Owns(a, th) /\ stmt[th].run = run[a] /\ (a \in Tabs => stmt[th].idx = idx[a])
    BY <2>3 DEF StatementAwaited, RunInv
  <2>5. CASE f.kill.kind = "ceiling"
    <3>1. CeilingPending(f.kill, th) /\ f.kill.actor \in Actors
      BY <2>1, <2>5 DEF PendingInv, FlagPending, CeilingPending, Actors
    <3>2. f.kill.actor = a
      BY <2>4, <3>1, OneOwner DEF CeilingPending, Pending
    <3>3. QED BY <2>3, <2>4, <3>1, <3>2 DEF CeilingPending, Aimed
  <2>6. CASE f.kill.kind = "export"
    <3>1. ExportPending(f.kill, th) /\ f.kill.actor \in Actors
      BY <2>1, <2>6 DEF PendingInv, FlagPending, ExportPending, Actors
    <3>2. f.kill.actor = a
      BY <2>4, <3>1, OneOwner DEF ExportPending, Pending
    <3>3. QED BY <2>3, <3>1, <3>2 DEF ExportPending, Aimed
  <2>7. QED BY <2>2, <2>5, <2>6
<1>2. QED BY <1>1, KillInvariant, PTL

\* While the KILL of a cancel is in flight its export keeps the session, unless
\* it gave up waiting (ResultExportCancel, wait_for_cancel_kills).
THEOREM ExportWaits == Spec => []ExportWaitsForItsKills
<1>1. KInv => ExportWaitsForItsKills
  BY DEF KInv, RegisteredInv, ExportWaitsForItsKills
<1>2. QED BY <1>1, KillInvariant, PTL

\* No KILL, of whoever, makes an export publish a file that stops in the middle
\* (stream_rerun, ExportPipeline::complete).
THEOREM NeverTruncated == Spec => []NoSilentTruncation
<1>1. KInv => NoSilentTruncation
  BY DEF KInv, OutcomeInv, OutcomeOf, NoSilentTruncation
<1>2. QED BY <1>1, KillInvariant, PTL

\* After close_connection the session goes with the last task of its queue
\* (session::close, acquire), however runs and the close interleave.
THEOREM ClosedIsDropped == Spec => []ClosedSessionIsDropped
<1>1. KInv => ClosedSessionIsDropped
  BY DEF KInv, SlotInv, ClosedSessionIsDropped, Slots
<1>2. QED BY <1>1, KillInvariant, PTL

\* An export that ended is final: its status and its file never change again,
\* and they agree (ExportPipeline::complete).
THEOREM EndedIsFinal == Spec => EndedJobIsFinal
<1> DEFINE Final == \A j \in Jobs : status[j] \in {"completed", "cancelled", "failed"} =>
                      /\ status'[j] = status[j]
                      /\ written'[j] = written[j]
                      /\ (status[j] = "completed") = written[j]
<1>1. KInv /\ [Next]_vars => Final
  <2> SUFFICES ASSUME KInv, [Next]_vars, NEW j \in Jobs, status[j] \in EndStatus
               PROVE  /\ status'[j] = status[j]
                      /\ written'[j] = written[j]
                      /\ (status[j] = "completed") = written[j]
    BY DEF EndStatus
  <2> USE DEF KInv, IInv, TypeOK
  <2>1. pc[j] = "done" /\ status[j] = outcome[j] /\ (outcome[j] = "completed" <=> written[j])
    BY DEF OutcomeInv, OutcomeOf
  <2>2. /\ \A i \in Jobs : StartExport(i) \/ FinishFile(i) \/ PublishStatus(i) => i # j
        /\ written[j] \in BOOLEAN
    BY <2>1 DEF StartExport, FinishFile, PublishStatus, JobType
  <2>3. status'[j] = status[j] /\ written'[j] = written[j]
    <3>1. CASE \E a \in Actors : Acquire(a)
      BY <3>1 DEF Acquire, AcquireAlive, AcquireReconnect, AcquireFail, AcquireConnect, jobVars
    <3>2. CASE \E t \in Tabs : RunQuery(t) \/ TabStep(t) \/ CancelQuery(t)
      BY <3>2 DEF RunQuery, TabStep, CancelQuery, Register, StartStatement, StatementEnd,
         CeilingKill, DrainEnd, AbsorbEnd, CaptureEnd, Unregister, ReleaseTab, jobVars
    <3>3. CASE \E i \in Jobs : StartExport(i) \/ FinishFile(i) \/ PublishStatus(i)
      BY <2>2, <3>3 DEF StartExport, FinishFile, PublishStatus, JobType
    <3>4. CASE /\ \E i \in Jobs : JobStep(i) \/ CancelExport(i)
               /\ ~\E i \in Jobs : StartExport(i) \/ FinishFile(i) \/ PublishStatus(i)
      BY <3>4 DEF JobStep, CancelExport, BeginExport, SetJobThread, StartRerun,
         ReadDatabase, UseDatabase, StopStream, StreamEnd, ClearJobThread,
         WaitForCancelKills, WaitTimeout, AfterWait, ExportAbsorbEnd, RestoreEnd,
         ReleaseJob, jobVars
    <3>5. CASE \/ \E k \in kills : KillArrives(k) \/ KillGivenUp(k)
               \/ \E th \in Threads : ServerEnd(th) \/ ConnectionLost(th)
               \/ Close
               \/ UNCHANGED vars
      BY <3>5 DEF KillArrives, KillGivenUp, ServerEnd, ConnectionLost, Close, CloseBegin,
         CloseCancelExport, CloseRemove, CloseRunningQueries, CloseSession, vars, jobVars
    <3>6. QED BY <3>1, <3>2, <3>3, <3>4, <3>5 DEF Next
  <2>4. QED BY <2>1, <2>2, <2>3
<1>2. KInv /\ [Next]_vars => [Final]_vars
  BY <1>1
<1>3. QED BY <1>2, KillInvariant, PTL DEF Spec, EndedJobIsFinal

----------
(***************************************************************************)
(* The editor session of EditorSession implements FifoSession: its slots   *)
(* are one line of tasks, served first come, first served, by one task at  *)
(* a time, although close_connection replaces the slot under its waiters.  *)
(*                                                                         *)
(* The invariant QueueInv says who stands in the queues: each task once,   *)
(* on the slot it asked, between asking and dropping the guard.            *)
(***************************************************************************)
InsidePC == HoldingPC \cup {"queued", "connecting"}

QueueOf(s) ==
    /\ \A i \in 1 .. Len(queue[s]) : /\ queue[s][i] \in Actors
                                     /\ at[queue[s][i]] = s
                                     /\ pc[queue[s][i]] \in InsidePC
    /\ \A i, j \in 1 .. Len(queue[s]) : queue[s][i] = queue[s][j] => i = j

QueueInv == QueueOf(1) /\ QueueOf(2)

line  == queue[1] \o queue[2]
using == queue[1] # << >> /\ pc[Head(queue[1])] \in HoldingPC

----------
(* Sequences. *)

LEMMA AppendFacts ==
  ASSUME NEW q \in Seq(Actors), NEW a \in Actors
  PROVE  /\ Len(Append(q, a)) = Len(q) + 1
         /\ \A i \in 1 .. Len(q) : Append(q, a)[i] = q[i]
         /\ Append(q, a)[Len(q) + 1] = a
OBVIOUS

LEMMA TailFacts ==
  ASSUME NEW q \in Seq(Actors), q # << >>
  PROVE  /\ Len(q) >= 1 /\ Head(q) = q[1]
         /\ Tail(q) \in Seq(Actors)
         /\ Len(Tail(q)) = Len(q) - 1
         /\ \A i \in 1 .. Len(Tail(q)) : Tail(q)[i] = q[i + 1]
OBVIOUS

LEMMA JoinFacts ==
  ASSUME NEW p \in Seq(Actors), NEW q \in Seq(Actors)
  PROVE  /\ p \o q \in Seq(Actors)
         /\ Len(p \o q) = Len(p) + Len(q)
         /\ \A i \in 1 .. Len(p) : (p \o q)[i] = p[i]
         /\ \A i \in 1 .. Len(q) : (p \o q)[Len(p) + i] = q[i]
OBVIOUS

LEMMA SameSequence ==
  ASSUME NEW p \in Seq(Actors), NEW q \in Seq(Actors), Len(p) = Len(q),
         \A i \in 1 .. Len(p) : p[i] = q[i]
  PROVE  p = q
OBVIOUS

\* A task at the end of the line.
LEMMA JoinAppend ==
  ASSUME NEW p \in Seq(Actors), NEW q \in Seq(Actors), NEW a \in Actors
  PROVE  /\ p \o Append(q, a) = Append(p \o q, a)
         /\ q = << >> => Append(p, a) \o q = Append(p \o q, a)
<1>1. p \o Append(q, a) = Append(p \o q, a)
  <2> DEFINE l == p \o Append(q, a)
             r == Append(p \o q, a)
  <2>1. l \in Seq(Actors) /\ r \in Seq(Actors)
    BY JoinFacts
  <2>2. Len(l) = Len(p) + Len(q) + 1 /\ Len(r) = Len(p) + Len(q) + 1
    BY JoinFacts, AppendFacts
  <2>3. ASSUME NEW i \in 1 .. Len(l)
        PROVE  l[i] = r[i]
    OBVIOUS
  <2>4. QED BY <2>1, <2>2, <2>3, SameSequence
<1>2. QED BY <1>1

\* The first of the line leaves.
LEMMA JoinTail ==
  ASSUME NEW p \in Seq(Actors), NEW q \in Seq(Actors), p # << >>
  PROVE  Tail(p) \o q = Tail(p \o q) /\ p \o q # << >>
<1>1. /\ Tail(p) \in Seq(Actors) /\ p \o q \in Seq(Actors) /\ Len(p \o q) >= 1
      /\ Len(Tail(p)) = Len(p) - 1
  BY TailFacts, JoinFacts
<1>2. p \o q # << >>
  BY <1>1
<1>3. Len(Tail(p) \o q) = Len(Tail(p \o q))
  BY <1>1, <1>2, JoinFacts, TailFacts
<1>4. ASSUME NEW i \in 1 .. Len(Tail(p) \o q)
      PROVE  (Tail(p) \o q)[i] = Tail(p \o q)[i]
  OBVIOUS
<1>5. Tail(p) \o q \in Seq(Actors) /\ Tail(p \o q) \in Seq(Actors)
  BY <1>1, <1>2, JoinFacts, TailFacts
<1>6. QED BY <1>2, <1>3, <1>4, <1>5, SameSequence

\* A task leaves from within the line.
Without(l, i) == [k \in 1 .. Len(l) - 1 |-> l[IF k < i THEN k ELSE k + 1]]

LEMMA SeqIsFun ==
  ASSUME NEW p \in Seq(Actors)
  PROVE  p \in [1 .. Len(p) -> Actors] /\ Len(p) \in Nat
OBVIOUS

LEMMA JoinWithout ==
  ASSUME NEW p \in Seq(Actors), NEW q \in Seq(Actors), q # << >>
  PROVE  p \o Tail(q) = Without(p \o q, Len(p) + 1)
<1>1. /\ Len(p) \in Nat /\ Len(q) \in Nat /\ Len(q) >= 1 /\ Tail(q) \in Seq(Actors)
      /\ Len(Tail(q)) = Len(q) - 1
  BY SeqIsFun, TailFacts
<1>2. /\ Len(p \o q) = Len(p) + Len(q) /\ Len(p \o Tail(q)) = Len(p) + Len(q) - 1
      /\ p \o Tail(q) \in Seq(Actors)
  BY <1>1, JoinFacts
<1>3. ASSUME NEW k \in 1 .. Len(p) + Len(q) - 1
      PROVE  (p \o Tail(q))[k] = (p \o q)[IF k < Len(p) + 1 THEN k ELSE k + 1]
  OBVIOUS
<1>4. p \o Tail(q) \in [1 .. Len(p) + Len(q) - 1 -> Actors]
  BY <1>2, SeqIsFun
<1>5. p \o Tail(q) = [k \in 1 .. Len(p) + Len(q) - 1 |-> (p \o Tail(q))[k]]
  BY <1>4
<1>6. QED BY <1>2, <1>3, <1>5 DEF Without

LEMMA TailWithout ==
  ASSUME NEW p \in Seq(Actors), NEW q \in Seq(Actors), p # << >>
  PROVE  Tail(p) \o q = Without(p \o q, 1)
<1>1. /\ Len(p) \in Nat /\ Len(q) \in Nat /\ Len(p) >= 1 /\ Tail(p) \in Seq(Actors)
      /\ Len(Tail(p)) = Len(p) - 1
  BY SeqIsFun, TailFacts
<1>2. /\ Len(p \o q) = Len(p) + Len(q) /\ Len(Tail(p) \o q) = Len(p) + Len(q) - 1
      /\ Tail(p) \o q \in Seq(Actors)
  BY <1>1, JoinFacts
<1>3. ASSUME NEW k \in 1 .. Len(p) + Len(q) - 1
      PROVE  (Tail(p) \o q)[k] = (p \o q)[IF k < 1 THEN k ELSE k + 1]
  OBVIOUS
<1>4. Tail(p) \o q \in [1 .. Len(p) + Len(q) - 1 -> Actors]
  BY <1>2, SeqIsFun
<1>5. Tail(p) \o q = [k \in 1 .. Len(p) + Len(q) - 1 |-> (Tail(p) \o q)[k]]
  BY <1>4
<1>6. QED BY <1>2, <1>3, <1>5 DEF Without

LEMMA JoinIndex ==
  ASSUME NEW p \in Seq(Actors), NEW q \in Seq(Actors), NEW i \in 1 .. Len(p \o q)
  PROVE  \/ i \in 1 .. Len(p) /\ (p \o q)[i] = p[i]
         \/ \E k \in 1 .. Len(q) : (p \o q)[i] = q[k]
<1>1. Len(p) \in Nat /\ Len(q) \in Nat /\ i \in Int /\ i >= 1 /\ i <= Len(p) + Len(q)
  BY JoinFacts, SeqIsFun
<1>2. CASE i <= Len(p)
  BY <1>1, <1>2, JoinFacts
<1>3. CASE i > Len(p)
  <2>1. i - Len(p) \in 1 .. Len(q) /\ Len(p) + (i - Len(p)) = i
    BY <1>1, <1>3
  <2>2. (p \o q)[Len(p) + (i - Len(p))] = q[i - Len(p)]
    BY <2>1, JoinFacts
  <2>3. QED BY <2>1, <2>2
<1>4. QED BY <1>1, <1>2, <1>3

LEMMA SecondStart ==
  ASSUME NEW p \in Seq(Actors), NEW q \in Seq(Actors), q # << >>
  PROVE  /\ Len(p) + 1 \in 1 .. Len(p \o q)
         /\ (p \o q)[Len(p) + 1] = q[1]
<1>1. /\ Len(p) \in Nat /\ Len(q) \in Nat /\ Len(q) >= 1
      /\ Len(p \o q) = Len(p) + Len(q)
  BY SeqIsFun, TailFacts, JoinFacts
<1>2. QED BY <1>1, JoinFacts

----------
(* Who stands in the queues. *)

LEMMA QueueTypes ==
  ASSUME IInv
  PROVE  queue[1] \in Seq(Actors) /\ queue[2] \in Seq(Actors) /\ line \in Seq(Actors)
<1>1. queue[1] \in Seq(Actors) /\ queue[2] \in Seq(Actors)
  BY DEF IInv, TypeOK, LockType, Slots
<1>2. QED BY <1>1, JoinFacts DEF line

\* The steps that leave queues and slots alone keep the tasks inside.
LEMMA QueueStill ==
  ASSUME IInv, QueueInv, UNCHANGED <<queue, at>>,
         \A b \in Actors : pc[b] \in InsidePC => pc'[b] \in InsidePC
  PROVE  QueueInv'
BY DEF QueueInv, QueueOf

\* A task comes to a slot.
LEMMA QueueGrows ==
  ASSUME IInv, QueueInv, NEW a \in Actors, NEW s \in Slots, pc[a] \notin InsidePC,
         queue' = [queue EXCEPT ![s] = Append(@, a)],
         at' = [at EXCEPT ![a] = s], pc' = [pc EXCEPT ![a] = "queued"]
  PROVE  QueueInv'
<1>1. \A b \in Actors : /\ at'[b] = IF b = a THEN s ELSE at[b]
                        /\ pc'[b] = IF b = a THEN "queued" ELSE pc[b]
  BY DEF IInv, TypeOK, ActorType
<1>2. ASSUME NEW r \in Slots, QueueOf(r)
      PROVE  QueueOf(r)'
  <2>1. queue[r] \in Seq(Actors) /\ queue'[r] = IF r = s THEN Append(queue[r], a) ELSE queue[r]
    BY DEF IInv, TypeOK, LockType
  <2>2. \A i \in 1 .. Len(queue[r]) : queue[r][i] \in Actors /\ queue[r][i] # a
    BY <1>2 DEF QueueOf
  <2>3. CASE r # s
    BY <1>1, <1>2, <2>1, <2>2, <2>3 DEF QueueOf
  <2>4. CASE r = s
    <3>1. /\ Len(queue'[r]) = Len(queue[r]) + 1
          /\ \A i \in 1 .. Len(queue[r]) : queue'[r][i] = queue[r][i]
          /\ queue'[r][Len(queue[r]) + 1] = a
      BY <2>1, <2>4, AppendFacts
    <3>2. \A i \in 1 .. Len(queue'[r]) : i \in 1 .. Len(queue[r]) \/ i = Len(queue[r]) + 1
      BY <2>1, <3>1
    <3>3. \A i \in 1 .. Len(queue'[r]) : /\ queue'[r][i] \in Actors
                                         /\ at'[queue'[r][i]] = r
                                         /\ pc'[queue'[r][i]] \in InsidePC
      BY <1>1, <1>2, <2>2, <2>4, <3>1, <3>2 DEF QueueOf, InsidePC
    <3>4. \A i, j \in 1 .. Len(queue'[r]) : queue'[r][i] = queue'[r][j] => i = j
      BY <1>2, <2>2, <3>1, <3>2 DEF QueueOf
    <3>5. QED BY <3>3, <3>4 DEF QueueOf
  <2>5. QED BY <2>3, <2>4
<1>3. QED BY <1>2 DEF QueueInv, Slots

\* The first task of a slot leaves.
LEMMA QueueShrinks ==
  ASSUME IInv, QueueInv, NEW a \in Actors, Holds(a),
         queue' = [queue EXCEPT ![at[a]] = Tail(@)], UNCHANGED at,
         NEW l, pc' = [pc EXCEPT ![a] = l]
  PROVE  /\ QueueInv'
         /\ \A i \in 1 .. Len(queue'[at[a]]) : queue'[at[a]][i] # a
<1> DEFINE s == at[a]
<1>1. \A b \in Actors : b # a => pc'[b] = pc[b]
  BY DEF IInv, TypeOK, ActorType
<1>2. /\ s \in Slots /\ queue[s] \in Seq(Actors) /\ queue[s] # << >>
      /\ queue'[s] = Tail(queue[s]) /\ queue[s][1] = a
  BY TailFacts DEF IInv, TypeOK, LockType, ActorType, Holds
<1>3. QueueOf(s)
  BY <1>2 DEF QueueInv, Slots
<1>4. /\ Len(queue'[s]) = Len(queue[s]) - 1 /\ Len(queue[s]) \in Nat
      /\ \A i \in 1 .. Len(queue'[s]) : queue'[s][i] = queue[s][i + 1]
  BY <1>2, TailFacts, SeqIsFun
<1>5. \A i \in 1 .. Len(queue'[s]) : i + 1 \in 1 .. Len(queue[s]) /\ i + 1 # 1
  BY <1>4
<1>6. 1 \in 1 .. Len(queue[s])
  BY <1>2, TailFacts
<1>7. \A i \in 1 .. Len(queue'[s]) : queue'[s][i] # a
  BY <1>2, <1>3, <1>4, <1>5, <1>6 DEF QueueOf
<1>8. QueueOf(s)'
  <2>1. \A i \in 1 .. Len(queue'[s]) : /\ queue'[s][i] \in Actors
                                       /\ at'[queue'[s][i]] = s
                                       /\ pc'[queue'[s][i]] \in InsidePC
    <3>1. TAKE i \in 1 .. Len(queue'[s])
    <3>2. queue'[s][i] = queue[s][i + 1] /\ i + 1 \in 1 .. Len(queue[s])
      BY <1>4, <1>5
    <3>3. /\ queue[s][i + 1] \in Actors /\ at[queue[s][i + 1]] = s
          /\ pc[queue[s][i + 1]] \in InsidePC
      BY <1>3, <3>2 DEF QueueOf
    <3>4. queue'[s][i] # a
      BY <1>7
    <3>5. QED BY <1>1, <3>2, <3>3, <3>4
  <2>2. \A i, j \in 1 .. Len(queue'[s]) : queue'[s][i] = queue'[s][j] => i = j
    <3>1. TAKE i, j \in 1 .. Len(queue'[s])
    <3>2. HAVE queue'[s][i] = queue'[s][j]
    <3>3. i + 1 = j + 1
      BY <1>3, <1>4, <1>5, <3>2 DEF QueueOf
    <3>4. QED BY <1>4, <3>3
  <2>3. QED BY <2>1, <2>2 DEF QueueOf
<1>9. ASSUME NEW r \in Slots, r # s, QueueOf(r)
      PROVE  QueueOf(r)'
  <2>1. queue'[r] = queue[r]
    BY <1>2, <1>9 DEF IInv, TypeOK, LockType
  <2>2. \A i \in 1 .. Len(queue[r]) : queue[r][i] # a
    BY <1>9 DEF QueueOf
  <2>3. QED BY <1>1, <1>9, <2>1, <2>2 DEF QueueOf
<1>10. QED BY <1>2, <1>7, <1>8, <1>9 DEF QueueInv, Slots

\* A task outside of the queues stands on no slot of the line.
LEMMA Outside ==
  ASSUME IInv, QueueInv, NEW a \in Actors, pc[a] \notin InsidePC
  PROVE  \A i \in 1 .. Len(line) : line[i] # a
<1>1. queue[1] \in Seq(Actors) /\ queue[2] \in Seq(Actors)
  BY QueueTypes
<1>2. \A i \in 1 .. Len(queue[1]) : queue[1][i] # a
  BY DEF QueueInv, QueueOf
<1>3. \A i \in 1 .. Len(queue[2]) : queue[2][i] # a
  BY DEF QueueInv, QueueOf
<1>4. \A i \in 1 .. Len(queue[1] \o queue[2]) : (queue[1] \o queue[2])[i] # a
  <2>1. TAKE i \in 1 .. Len(queue[1] \o queue[2])
  <2>2. \/ i \in 1 .. Len(queue[1]) /\ (queue[1] \o queue[2])[i] = queue[1][i]
        \/ \E k \in 1 .. Len(queue[2]) : (queue[1] \o queue[2])[i] = queue[2][k]
    BY <1>1, JoinIndex
  <2>3. QED BY <1>2, <1>3, <2>2
<1>5. QED BY <1>4 DEF line

\* The task that uses the session is the first of the line.
LEMMA UserIsFirst ==
  ASSUME IInv, SlotInv, NEW a \in Actors, pc[a] \in HoldingPC
  PROVE  at[a] = 1 /\ queue[1] # << >> /\ Head(queue[1]) = a
<1>1. Holds(a) /\ Thread(a) # 0
  BY DEF IInv, LockHeld
<1>2. at[a] = 1
  BY <1>1 DEF SlotInv, Thread, IInv, TypeOK, ActorType, Slots
<1>3. QED BY <1>1, <1>2 DEF Holds

\* What the second slot holds has come after the first one was forgotten.
LEMMA SecondIsLast ==
  ASSUME IInv, SlotInv, QueueInv
  PROVE  closing # "closed" => queue[2] = << >>
<1>1. SUFFICES ASSUME queue[2] # << >> PROVE closing = "closed"
  OBVIOUS
<1>2. 1 \in 1 .. Len(queue[2])
  BY <1>1, QueueTypes, TailFacts
<1>3. queue[2][1] \in Actors /\ at[queue[2][1]] = 2
  BY <1>2 DEF QueueInv, QueueOf
<1>4. QED BY <1>3 DEF SlotInv

\* using depends on the head of the first queue and on who is inside.
LEMMA UsingFrame ==
  ASSUME UNCHANGED queue,
         \A b \in Actors : pc'[b] \in HoldingPC <=> pc[b] \in HoldingPC, IInv
  PROVE  UNCHANGED <<line, using>>
<1>1. queue[1] # << >> => Head(queue[1]) \in Actors
  BY QueueTypes
<1>2. QED BY <1>1 DEF line, using

----------
(* Each kind of step, as a step of the line. *)

Stutter == UNCHANGED <<line, using>>
Asks(a) == /\ \A i \in 1 .. Len(line) : line[i] # a
           /\ line' = Append(line, a)
           /\ UNCHANGED using
Begins  == line # << >> /\ ~using /\ using' = TRUE /\ UNCHANGED line
Ends    == using /\ line' = Tail(line) /\ using' = FALSE
GivesUp(a) == \E i \in 1 .. Len(line) : /\ line[i] = a
                                        /\ using => i # 1
                                        /\ line' = Without(line, i)
                                        /\ UNCHANGED using

LineStep == \/ Stutter \/ Begins \/ Ends
            \/ \E a \in Actors : Asks(a) \/ GivesUp(a)

LEMMA StillStep ==
  ASSUME IInv, QueueInv, SlotStill
  PROVE  QueueInv' /\ Stutter
<1>1. /\ UNCHANGED <<queue, at>>
      /\ \/ UNCHANGED pc
         \/ \E a \in Actors, l \in TabPC \cup JobPC :
               pc' = [pc EXCEPT ![a] = l] /\ StaysInside(a, l)
  BY SlotStillFrame
<1>2. \A b \in Actors : /\ pc[b] \in InsidePC => pc'[b] \in InsidePC
                        /\ pc'[b] \in HoldingPC <=> pc[b] \in HoldingPC
  BY <1>1 DEF StaysInside, InsidePC, IInv, TypeOK, ActorType
<1>3. QED BY <1>1, <1>2, QueueStill, UsingFrame DEF Stutter

LEMMA CloseStep ==
  ASSUME IInv, QueueInv, CloseBegin \/ CloseRemove \/ CloseRunningQueries \/ CloseSession
  PROVE  QueueInv' /\ Stutter
<1>1. UNCHANGED <<queue, at, pc>>
  BY DEF CloseBegin, CloseRemove, CloseRunningQueries, CloseSession, actorVars, lockVars
<1>2. QED BY <1>1, QueueStill, UsingFrame DEF Stutter

LEMMA EnqueueStep ==
  ASSUME IInv, SlotInv, QueueInv, NEW a \in Actors, pc[a] \in {"idle", "spawned"},
         Enqueue(a), pc' = [pc EXCEPT ![a] = "queued"], UNCHANGED closeVars
  PROVE  QueueInv' /\ Asks(a)
<1> DEFINE s == IF slot # 0 THEN slot ELSE IF closing = "closed" THEN 2 ELSE 1
<1>1. /\ s \in Slots /\ queue' = [queue EXCEPT ![s] = Append(@, a)]
      /\ at' = [at EXCEPT ![a] = s]
  BY DEF Enqueue, IInv, TypeOK, LockType, Slots
<1>2. s = 2 <=> closing = "closed"
  BY DEF SlotInv, IInv, TypeOK, LockType, Slots
<1>3. pc[a] \notin InsidePC
  BY DEF InsidePC, HoldingPC
<1>4. QueueInv'
  BY <1>1, <1>3, QueueGrows
<1>5. queue[1] \in Seq(Actors) /\ queue[2] \in Seq(Actors)
  BY QueueTypes
<1>6. line' = Append(line, a)
  <2>1. CASE s = 1
    <3>1. queue'[1] = Append(queue[1], a) /\ queue'[2] = queue[2] /\ queue[2] = << >>
      BY <1>1, <1>2, <2>1, SecondIsLast DEF IInv, TypeOK, LockType, Slots
    <3>2. QED BY <1>5, <3>1, JoinAppend DEF line
  <2>2. CASE s = 2
    <3>1. queue'[1] = queue[1] /\ queue'[2] = Append(queue[2], a)
      BY <1>1, <2>2 DEF IInv, TypeOK, LockType, Slots
    <3>2. QED BY <1>5, <3>1, JoinAppend DEF line
  <2>3. QED BY <1>1, <2>1, <2>2 DEF Slots
<1>7. \A b \in Actors : pc'[b] \in HoldingPC <=> pc[b] \in HoldingPC
  BY <1>3 DEF InsidePC, HoldingPC, IInv, TypeOK, ActorType
<1>8. UNCHANGED using
  <2>1. queue[1] # << >> => queue'[1] # << >> /\ Head(queue'[1]) = Head(queue[1])
    BY <1>1, <1>5, QueueFacts DEF IInv, TypeOK, LockType, Slots
  <2>2. queue[1] # << >> => Head(queue[1]) \in Actors
    BY <1>5
  <2>3. queue'[1] = queue[1] \/ queue'[1] = Append(queue[1], a)
    BY <1>1 DEF IInv, TypeOK, LockType, Slots
  <2>4. pc'[a] \notin HoldingPC
    BY <1>3, <1>7 DEF InsidePC
  <2>5. queue[1] = << >> /\ queue'[1] # << >> => Head(queue'[1]) = a
    BY <1>5, <2>3
  <2>6. QED BY <1>7, <2>1, <2>2, <2>4, <2>5 DEF using
<1>9. QED BY <1>3, <1>4, <1>6, <1>8, Outside DEF Asks

LEMMA LeaveLine ==
  ASSUME IInv, SlotInv, QueueInv, NEW a \in Actors, Holds(a),
         queue' = [queue EXCEPT ![at[a]] = Tail(@)], UNCHANGED at,
         NEW l, l \notin HoldingPC, pc' = [pc EXCEPT ![a] = l]
  PROVE  /\ at[a] = 1 => /\ line # << >> /\ line[1] = a /\ ~using'
                         /\ line' = Tail(line) /\ line' = Without(line, 1)
         /\ at[a] = 2 => LET i == Len(queue[1]) + 1 IN
                         /\ i \in 1 .. Len(line) /\ line[i] = a /\ (using => i # 1)
                         /\ line' = Without(line, i) /\ UNCHANGED using
<1>1. /\ queue[1] \in Seq(Actors) /\ queue[2] \in Seq(Actors) /\ line \in Seq(Actors)
  BY QueueTypes
<1>2. \A b \in Actors : pc'[b] = IF b = a THEN l ELSE pc[b]
  BY DEF IInv, TypeOK, ActorType
<1>3. CASE at[a] = 1
  <2>1. /\ queue[1] # << >> /\ Head(queue[1]) = a
        /\ queue'[1] = Tail(queue[1]) /\ queue'[2] = queue[2]
    BY <1>3 DEF Holds, IInv, TypeOK, LockType, Slots
  <2>2. line # << >> /\ line' = Tail(line) /\ line' = Without(line, 1)
    BY <1>1, <2>1, JoinTail, TailWithout DEF line
  <2>3. line[1] = a
    <3>1. 1 \in 1 .. Len(queue[1]) /\ queue[1][1] = a
      BY <1>1, <2>1, TailFacts
    <3>2. QED BY <1>1, <3>1, JoinFacts DEF line
  <2>4. ASSUME using'
        PROVE  FALSE
    <3>1. queue'[1] # << >> /\ pc'[Head(queue'[1])] \in HoldingPC
      BY <2>4 DEF using
    <3>2. queue'[1] \in Seq(Actors)
      BY <1>1, <2>1, TailFacts
    <3>3. 1 \in 1 .. Len(queue'[1]) /\ Head(queue'[1]) = queue'[1][1]
      BY <3>1, <3>2, TailFacts
    <3>4. Head(queue'[1]) \in Actors /\ Head(queue'[1]) # a
      <4>1. \A i \in 1 .. Len(queue'[1]) : queue'[1][i] # a
        BY <1>3, QueueShrinks
      <4>2. Head(queue'[1]) # a
        BY <3>3, <4>1
      <4>3. QED BY <3>1, <3>2, <4>2
    <3>5. pc[Head(queue'[1])] \in HoldingPC
      BY <1>2, <3>1, <3>4
    <3>6. Head(queue[1]) = Head(queue'[1])
      BY <3>4, <3>5, UserIsFirst
    <3>7. QED BY <2>1, <3>4, <3>6
  <2>5. QED BY <1>3, <2>2, <2>3, <2>4
<1>4. CASE at[a] = 2
  <2> DEFINE i == Len(queue[1]) + 1
  <2>1. /\ queue[2] # << >> /\ Head(queue[2]) = a
        /\ queue'[2] = Tail(queue[2]) /\ queue'[1] = queue[1]
    BY <1>4 DEF Holds, IInv, TypeOK, LockType, Slots
  <2>2. line' = Without(line, i)
    BY <1>1, <2>1, JoinWithout DEF line
  <2>3. Len(queue[1]) \in Nat /\ 1 \in 1 .. Len(queue[2]) /\ queue[2][1] = a
    BY <1>1, <2>1, TailFacts, SeqIsFun
  <2>4. i \in 1 .. Len(line) /\ line[i] = queue[2][1]
    BY <1>1, <2>1, SecondStart DEF line
  <2>5. line[i] = a
    BY <2>3, <2>4
  <2>6. using => i # 1
    <3>1. queue[1] # << >> => Len(queue[1]) >= 1
      BY <1>1, TailFacts
    <3>2. QED BY <2>3, <3>1 DEF using
  <2>7. UNCHANGED using
    <3>1. queue[1] # << >> => Head(queue[1]) \in Actors /\ Head(queue[1]) # a
      <4>1. queue[1] # << >> => 1 \in 1 .. Len(queue[1]) /\ Head(queue[1]) = queue[1][1]
        BY <1>1, TailFacts
      <4>2. QED BY <1>4, <4>1 DEF QueueInv, QueueOf
    <3>2. QED BY <1>2, <2>1, <3>1 DEF using
  <2>8. QED BY <1>4, <2>2, <2>4, <2>5, <2>6, <2>7
<1>5. at[a] \in {1, 2}
  BY DEF IInv, TypeOK, ActorType, Slots
<1>6. QED BY <1>3, <1>4, <1>5

\* A task that fails to get a session gives up its place.
LEMMA FailStep ==
  ASSUME IInv, SlotInv, QueueInv, NEW a \in Actors, AcquireFail(a)
  PROVE  QueueInv' /\ GivesUp(a)
<1>1. PICK l \in {"idle", "complete"} :
        /\ Holds(a) /\ pc[a] \in {"queued", "connecting"}
        /\ queue' = [queue EXCEPT ![at[a]] = Tail(@)]
        /\ UNCHANGED at /\ pc' = [pc EXCEPT ![a] = l]
  BY DEF AcquireFail, Goto
<1>2. l \notin HoldingPC /\ pc[a] \notin HoldingPC
  BY <1>1 DEF HoldingPC
<1>3. CASE at[a] = 1
  <2>1. line # << >> /\ line[1] = a /\ ~using' /\ line' = Without(line, 1)
    BY <1>1, <1>2, <1>3, LeaveLine
  <2>2. ~using
    BY <1>1, <1>2, <1>3 DEF using, Holds
  <2>3. 1 \in 1 .. Len(line)
    BY <2>1, QueueTypes, TailFacts
  <2>4. using' = using
    BY <2>1, <2>2 DEF using
  <2>5. QED BY <1>1, <2>1, <2>2, <2>3, <2>4, QueueShrinks DEF GivesUp
<1>4. CASE at[a] = 2
  BY <1>1, <1>2, <1>4, LeaveLine, QueueShrinks DEF GivesUp
<1>5. QED BY <1>3, <1>4 DEF IInv, TypeOK, ActorType, Slots

\* A task that drops the guard makes room for the next one.
LEMMA ReleaseStep ==
  ASSUME IInv, SlotInv, QueueInv, NEW a \in Actors, pc[a] = "release", Unlock(a),
         NEW l \in {"idle", "complete"}, pc' = [pc EXCEPT ![a] = l], UNCHANGED at
  PROVE  QueueInv' /\ Ends
<1>1. pc[a] \in HoldingPC /\ l \notin HoldingPC
  BY DEF HoldingPC
<1>2. at[a] = 1 /\ queue[1] # << >> /\ Head(queue[1]) = a
  BY <1>1, UserIsFirst
<1>3. Holds(a) /\ queue' = [queue EXCEPT ![at[a]] = Tail(@)]
  BY <1>2 DEF Holds, Unlock
<1>4. line' = Tail(line) /\ ~using'
  BY <1>1, <1>2, <1>3, LeaveLine
<1>5. using /\ using' = FALSE
  BY <1>1, <1>2, <1>4 DEF using
<1>6. QED BY <1>3, <1>4, <1>5, QueueShrinks DEF Ends

\* The first of the line gets the session.
LEMMA GrantStep ==
  ASSUME IInv, SlotInv, QueueInv, NEW a \in Actors, AcquireAlive(a) \/ AcquireConnect(a)
  PROVE  QueueInv' /\ Begins
<1>1. /\ pc[a] \in {"queued", "connecting"} /\ pc' = [pc EXCEPT ![a] = "granted"]
      /\ UNCHANGED <<queue, at>>
  BY DEF AcquireAlive, AcquireConnect, Goto, lockVars
<1>2. Holds(a)
  BY <1>1 DEF AcquireAlive, AcquireConnect, IInv, LockHeld
<1>3. at[a] = 1
  BY DEF AcquireAlive, AcquireConnect, Thread, SlotInv, IInv, TypeOK, ActorType, Slots
<1>4. \A b \in Actors : pc'[b] = IF b = a THEN "granted" ELSE pc[b]
  BY <1>1 DEF IInv, TypeOK, ActorType
<1>5. queue[1] # << >> /\ Head(queue[1]) = a
  BY <1>2, <1>3 DEF Holds
<1>6. QueueInv'
  BY <1>1, <1>4, QueueStill DEF InsidePC, HoldingPC
<1>7. using' = TRUE /\ ~using
  BY <1>1, <1>4, <1>5 DEF using, HoldingPC
<1>8. line # << >> /\ UNCHANGED line
  BY <1>1, <1>5, QueueTypes, JoinTail DEF line
<1>9. QED BY <1>6, <1>7, <1>8 DEF Begins

LEMMA ReconnectStep ==
  ASSUME IInv, QueueInv, NEW a \in Actors, AcquireReconnect(a)
  PROVE  QueueInv' /\ Stutter
<1>1. /\ pc[a] = "queued" /\ pc' = [pc EXCEPT ![a] = "connecting"]
      /\ UNCHANGED <<queue, at>>
  BY DEF AcquireReconnect, Goto
<1>2. \A b \in Actors : /\ pc[b] \in InsidePC => pc'[b] \in InsidePC
                        /\ pc'[b] \in HoldingPC <=> pc[b] \in HoldingPC
  BY <1>1 DEF InsidePC, HoldingPC, IInv, TypeOK, ActorType
<1>3. QED BY <1>1, <1>2, QueueStill, UsingFrame DEF Stutter

\* An export that was cancelled before it began never asks.
LEMMA SkipStep ==
  ASSUME IInv, QueueInv, NEW j \in Jobs, BeginExport(j), cancel_requested[j]
  PROVE  QueueInv' /\ Stutter
<1>1. /\ pc[j] = "spawned" /\ pc' = [pc EXCEPT ![j] = "complete"]
      /\ UNCHANGED <<queue, at>>
  BY DEF BeginExport, Goto, lockVars
<1>2. \A b \in Actors : /\ pc[b] \in InsidePC => pc'[b] \in InsidePC
                        /\ pc'[b] \in HoldingPC <=> pc[b] \in HoldingPC
  BY <1>1 DEF InsidePC, HoldingPC, IInv, TypeOK, ActorType
<1>3. QED BY <1>1, <1>2, QueueStill, UsingFrame DEF Stutter

LEMMA StepOfLine ==
  ASSUME IInv, SlotInv, QueueInv, [Next]_vars
  PROVE  QueueInv' /\ LineStep
<1>1. Tabs \subseteq Actors /\ Jobs \subseteq Actors
  BY DEF Actors
<1>2. CASE SlotStill
  BY <1>2, StillStep DEF LineStep
<1>3. CASE \E a \in Actors : Acquire(a)
  BY <1>3, FailStep, GrantStep, ReconnectStep DEF Acquire, LineStep
<1>4. CASE \E t \in Tabs : RunQuery(t) \/ ReleaseTab(t)
  <2>1. PICK t \in Tabs : RunQuery(t) \/ ReleaseTab(t)
    BY <1>4
  <2>2. CASE RunQuery(t)
    <3>1. /\ pc[t] \in {"idle", "spawned"} /\ Enqueue(t) /\ UNCHANGED closeVars
          /\ pc' = [pc EXCEPT ![t] = "queued"]
      BY <2>2 DEF RunQuery, Goto
    <3>2. QED BY <1>1, <3>1, EnqueueStep DEF LineStep
  <2>3. CASE ReleaseTab(t)
    <3>1. /\ pc[t] = "release" /\ Unlock(t) /\ UNCHANGED at
          /\ pc' = [pc EXCEPT ![t] = "idle"]
      BY <2>3 DEF ReleaseTab, Goto
    <3>2. QED BY <1>1, <3>1, ReleaseStep DEF LineStep
  <2>4. QED BY <2>1, <2>2, <2>3
<1>5. CASE \E j \in Jobs : BeginExport(j) \/ ReleaseJob(j)
  <2>1. PICK j \in Jobs : BeginExport(j) \/ ReleaseJob(j)
    BY <1>5
  <2>2. CASE BeginExport(j) /\ ~cancel_requested[j]
    <3>1. /\ pc[j] \in {"idle", "spawned"} /\ Enqueue(j) /\ UNCHANGED closeVars
          /\ pc' = [pc EXCEPT ![j] = "queued"]
      BY <2>2 DEF BeginExport, Goto
    <3>2. QED BY <1>1, <3>1, EnqueueStep DEF LineStep
  <2>3. CASE BeginExport(j) /\ cancel_requested[j]
    BY <2>3, SkipStep DEF LineStep
  <2>4. CASE ReleaseJob(j)
    <3>1. /\ pc[j] = "release" /\ Unlock(j) /\ UNCHANGED at
          /\ pc' = [pc EXCEPT ![j] = "complete"]
      BY <2>4 DEF ReleaseJob, Goto
    <3>2. QED BY <1>1, <3>1, ReleaseStep DEF LineStep
  <2>5. QED BY <2>1, <2>2, <2>3, <2>4
<1>6. CASE CloseBegin \/ CloseRemove \/ CloseRunningQueries \/ CloseSession
  BY <1>6, CloseStep DEF LineStep
<1>7. QED BY <1>2, <1>3, <1>4, <1>5, <1>6, StepKinds

----------
(* The refinement. *)

\* A step of the line is a step of FifoSession.
LEMMA StepIsFifo ==
  ASSUME LineStep
  PROVE  [Fifo!Next]_(Fifo!fifoVars)
<1>1. CASE Stutter
  BY <1>1 DEF Stutter, line, using, Fifo!fifoVars
<1>2. CASE Begins
  BY <1>2 DEF Begins, line, using, Fifo!Next, Fifo!Begin
<1>3. CASE Ends
  BY <1>3 DEF Ends, line, using, Fifo!Next, Fifo!End
<1>4. ASSUME NEW a \in Actors, Asks(a)
      PROVE  Fifo!Next
  BY <1>4 DEF Asks, line, using, Fifo!Next, Fifo!Ask, Fifo!InLine
<1>5. ASSUME NEW a \in Actors, GivesUp(a)
      PROVE  Fifo!Next
  BY <1>5 DEF GivesUp, Without, line, using, Fifo!Next, Fifo!GiveUp
<1>6. QED BY <1>1, <1>2, <1>3, <1>4, <1>5 DEF LineStep

LEMMA InitQueueInv == Init => QueueInv /\ Fifo!Init
<1> SUFFICES ASSUME Init PROVE QueueInv /\ Fifo!Init
  OBVIOUS
<1>1. queue[1] = << >> /\ queue[2] = << >>
  BY DEF Init, Slots
<1>2. QED BY <1>1 DEF QueueInv, QueueOf, Fifo!Init

\* The editor session serves its tasks in the order they asked, one at a time:
\* with any number of tabs, exports, threads, faults, cancels and closes, and
\* although close_connection replaces the slot while tasks wait on the old one
\* (session.rs, editor_session and close).
THEOREM SessionIsFifo == Spec => ImplementsFifo
<1>1. Init => Fifo!Init
  BY InitQueueInv
<1>2. Spec => [](IInv /\ SlotInv)
  <2>1. KInv => IInv /\ SlotInv
    BY DEF KInv
  <2>2. QED BY <2>1, KillInvariant, PTL
<1>3. Init => QueueInv
  BY InitQueueInv
<1>4. IInv /\ SlotInv /\ QueueInv /\ [Next]_vars => QueueInv' /\ [Fifo!Next]_(Fifo!fifoVars)
  BY StepOfLine, StepIsFifo
<1>5. QED BY <1>1, <1>2, <1>3, <1>4, PTL DEF Spec, ImplementsFifo, Fifo!Spec
=============================================================================
