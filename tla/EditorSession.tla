---------------------------- MODULE EditorSession ----------------------------
(***************************************************************************)
(* The shared MySQL session of one open connection: the slot mutex of      *)
(* mysql/session.rs, the editor runs of mysql/multi_result.rs that queue   *)
(* on it, the full-export jobs of export/result_export.rs that queue       *)
(* behind them, the KILL QUERY statements all of them send over the pool,  *)
(* and close_connection of commands/mysql.rs.                              *)
(*                                                                         *)
(* A step is what one task does between two awaits.  The MySQL server is   *)
(* external: it runs one statement per thread, and a KILL QUERY sets a     *)
(* flag that ends the statement with error 1317.  A KILL that reaches a    *)
(* thread between two statements is either dropped or stays pending and    *)
(* hits the next one, which is what absorb_late_kill defends against.      *)
(***************************************************************************)
EXTENDS Integers, Sequences, FiniteSets

CONSTANTS Tabs,           \* query-editor tabs of the connection
          Jobs,           \* full-export jobs of the connection
          MaxRuns,        \* bound: runs per tab
          MaxStatements,  \* bound: statements per run
          MaxTabCancels,  \* bound: cancel_query calls per tab
          MaxJobCancels,  \* bound: cancel_result_export calls per job
          MaxThreads,     \* bound: MySQL threads the session may use in turn
          Faults,         \* faults that may happen: "lost_reply" of a KILL, "broken_connection"
          None            \* no statement

ASSUME ActorsAssumption == Tabs \cap Jobs = {}
ASSUME BoundsAssumption ==
    /\ MaxRuns \in Nat /\ MaxStatements \in Nat /\ MaxThreads \in Nat
    /\ MaxTabCancels \in Nat /\ MaxJobCancels \in Nat
    /\ Faults \subseteq {"lost_reply", "broken_connection"}

Actors  == Tabs \cup Jobs
Slots   == {1, 2}         \* the slot close() removes, and one made after it
Threads == 1 .. MaxThreads

VARIABLES
    slot,             \* editor_sessions entry of the connection, 0 when absent
    queue,            \* per slot: holder of the mutex, then its waiters
    session,          \* per slot: thread_id of the session, 0 for None
    registered,       \* the registry still has the connection
    closing,          \* where close_connection is
    closeTodo,        \* exports close_connection still has to cancel
    pc,               \* per actor: where its task is
    at,               \* per actor: the slot it queued on
    run,              \* per actor: number of its current run
    idx,              \* per actor: statement of the run
    reply,            \* per actor: how its last statement ended
    kill_sent,        \* per actor: it must assume a KILL reached its session
    running_queries,  \* per tab: thread registered for cancel_query, or 0
    pooled,           \* per tab: the run holds a pool for the ceiling KILL
    status,           \* per job: ResultExportStatus, "none" before the start
    cancel_requested, \* per job
    mysql_thread_id,  \* per job: thread a cancel KILL would target, or 0
    interrupted,      \* per job: the re-run ended with error 1317
    stopping,         \* per job: why the rest of the stream is discarded
    outcome,          \* per job: ExportOutcome
    restore_to,       \* per job: a database to restore after the re-run
    timedOut,         \* per job: wait_for_cancel_kills gave up
    written,          \* per job: the target file was replaced
    asked,            \* per actor: cancels requested so far
    kills,            \* KILL QUERY calls registered and not yet finished
    stmt,             \* per thread: statement the server is running
    flags,            \* per thread: KILLs that arrived and were not consumed
    gone,             \* threads that no longer exist on the server
    nextThread        \* the next CONNECTION_ID()

lockVars   == <<slot, queue, session>>
closeVars  == <<registered, closing, closeTodo>>
actorVars  == <<pc, at, run, idx, reply, kill_sent>>
tabVars    == <<running_queries, pooled>>
jobVars    == <<status, cancel_requested, mysql_thread_id, interrupted, stopping,
                outcome, restore_to, timedOut, written>>
killVars   == <<asked, kills>>
serverVars == <<stmt, flags, gone, nextThread>>
vars == <<lockVars, closeVars, actorVars, tabVars, jobVars, killVars, serverVars>>

Statement == [actor : Actors, run : 0 .. MaxRuns, idx : 0 .. MaxStatements]
Kill == [kind : {"cancel", "ceiling", "export"}, actor : Actors, run : 0 .. MaxRuns,
         idx : 0 .. MaxStatements, n : 0 .. MaxTabCancels + MaxJobCancels,
         thread : Threads]
\* A KILL that is set on a thread, and what else had happened when it arrived.
Flag == [kill : Kill, mark : {"first", "second", "lost"}]

TabPC == {"idle", "queued", "connecting", "granted", "ready", "exec", "drain",
          "absorb", "capture", "finish", "release"}
JobPC == {"idle", "spawned", "queued", "connecting", "granted", "armed", "dbread",
          "dbuse", "stream", "disarm", "wait", "absorb", "restore", "retry",
          "release", "complete", "publish", "done"}
\* A task at one of these labels holds the lock with a session in the slot.
HoldingPC == {"granted", "ready", "exec", "drain", "absorb", "capture", "finish",
              "release", "armed", "dbread", "dbuse", "stream", "disarm", "wait",
              "restore", "retry"}

Init ==
    /\ slot = 0
    /\ queue = [s \in Slots |-> << >>]
    /\ session = [s \in Slots |-> 0]
    /\ registered = TRUE
    /\ closing = "open"
    /\ closeTodo = {}
    /\ pc = [a \in Actors |-> "idle"]
    /\ at = [a \in Actors |-> 1]
    /\ run = [a \in Actors |-> 0]
    /\ idx = [a \in Actors |-> 0]
    /\ reply = [a \in Actors |-> "none"]
    /\ kill_sent = [a \in Actors |-> FALSE]
    /\ running_queries = [t \in Tabs |-> 0]
    /\ pooled = [t \in Tabs |-> FALSE]
    /\ status = [j \in Jobs |-> "none"]
    /\ cancel_requested = [j \in Jobs |-> FALSE]
    /\ mysql_thread_id = [j \in Jobs |-> 0]
    /\ interrupted = [j \in Jobs |-> FALSE]
    /\ stopping = [j \in Jobs |-> "no"]
    /\ outcome = [j \in Jobs |-> "cancelled"]
    /\ restore_to = [j \in Jobs |-> FALSE]
    /\ timedOut = [j \in Jobs |-> FALSE]
    /\ written = [j \in Jobs |-> FALSE]
    /\ asked = [a \in Actors |-> 0]
    /\ kills = {}
    /\ stmt = [th \in Threads |-> None]
    /\ flags = [th \in Threads |-> {}]
    /\ gone = {}
    /\ nextThread = 1

(***************************************************************************)
(* The slot mutex: a FIFO queue whose head holds the lock.                 *)
(***************************************************************************)
Holds(a)  == queue[at[a]] # << >> /\ Head(queue[at[a]]) = a
Thread(a) == session[at[a]]
Goto(a, label) == pc' = [pc EXCEPT ![a] = label]

\* Faulty variant: a new task goes to the head of the queue.
JumpsTheQueue(a) ==
    LET s == IF slot # 0 THEN slot ELSE IF closing = "closed" THEN 2 ELSE 1
    IN  /\ slot' = s
        /\ queue' = [queue EXCEPT ![s] = <<a>> \o @]
        /\ at' = [at EXCEPT ![a] = s]
        /\ UNCHANGED session

\* editor_sessions.entry(id).or_default(), then the wait for the lock.
Enqueue(a) ==
    LET s == IF slot # 0 THEN slot ELSE IF closing = "closed" THEN 2 ELSE 1
    IN  /\ slot' = s
        /\ queue' = [queue EXCEPT ![s] = Append(@, a)]
        /\ at' = [at EXCEPT ![a] = s]
        /\ UNCHANGED session

\* The guard is dropped.  The last task on a slot the map no longer holds drops
\* the session with it, which disconnects it.
Unlock(a) ==
    LET s == at[a]
        orphan == Tail(queue[s]) = << >> /\ slot # s
    IN  /\ queue' = [queue EXCEPT ![s] = Tail(@)]
        /\ session' = [session EXCEPT ![s] = IF orphan THEN 0 ELSE @]
        /\ gone' = IF orphan /\ session[s] # 0 THEN gone \cup {session[s]} ELSE gone
        /\ UNCHANGED slot

\* acquire: the session under the lock answers the ping.
AcquireAlive(a) ==
    /\ pc[a] = "queued"
    /\ Holds(a)
    /\ Thread(a) # 0 /\ Thread(a) \notin gone
    /\ Goto(a, "granted")
    /\ UNCHANGED <<lockVars, closeVars, at, run, idx, reply, kill_sent, tabVars,
                   jobVars, killVars, serverVars>>

\* acquire: no session, or a dead one (discarded); the connection's parameters
\* are still in the registry.
AcquireReconnect(a) ==
    /\ pc[a] = "queued"
    /\ Holds(a)
    /\ Thread(a) = 0 \/ Thread(a) \in gone
    /\ registered
    /\ session' = [session EXCEPT ![at[a]] = 0]
    /\ Goto(a, "connecting")
    /\ UNCHANGED <<slot, queue, closeVars, at, run, idx, reply, kill_sent, tabVars,
                   jobVars, killVars, serverVars>>

\* acquire returns Err: connection not in the registry, or the new connection
\* failed.  A tab's run ends there; an export goes on to its cleanup as failed.
AcquireFail(a) ==
    /\ \/ /\ pc[a] = "queued"
          /\ Thread(a) = 0 \/ Thread(a) \in gone
          /\ ~registered
       \/ pc[a] = "connecting"
    /\ Holds(a)
    /\ queue' = [queue EXCEPT ![at[a]] = Tail(@)]
    /\ session' = [session EXCEPT ![at[a]] = 0]
    /\ IF a \in Tabs
       THEN Goto(a, "idle") /\ UNCHANGED jobVars
       ELSE /\ Goto(a, "complete")
            /\ outcome' = [outcome EXCEPT ![a] = "failed"]
            /\ UNCHANGED <<status, cancel_requested, mysql_thread_id, interrupted,
                           stopping, restore_to, timedOut, written>>
    /\ UNCHANGED <<slot, closeVars, at, run, idx, reply, kill_sent, tabVars,
                   killVars, serverVars>>

\* acquire: the new connection is up and its CONNECTION_ID() is known.
AcquireConnect(a) ==
    /\ pc[a] = "connecting"
    /\ nextThread <= MaxThreads
    /\ session' = [session EXCEPT ![at[a]] = nextThread]
    /\ nextThread' = nextThread + 1
    /\ Goto(a, "granted")
    /\ UNCHANGED <<slot, queue, closeVars, at, run, idx, reply, kill_sent, tabVars,
                   jobVars, killVars, stmt, flags, gone>>

Acquire(a) ==
    \/ AcquireAlive(a) \/ AcquireReconnect(a)
    \/ AcquireFail(a)  \/ AcquireConnect(a)

(***************************************************************************)
(* The MySQL server (external).                                            *)
(***************************************************************************)
\* The task sends statement i of its run; a dead connection answers at once.
Send(a, i) ==
    LET th == Thread(a)
    IN  IF th \in gone
        THEN reply' = [reply EXCEPT ![a] = "err"] /\ UNCHANGED stmt
        ELSE /\ reply' = [reply EXCEPT ![a] = "none"]
             /\ stmt' = [stmt EXCEPT ![th] = [actor |-> a, run |-> run[a], idx |-> i]]

\* KILL QUERY k runs on the server.  A flag records what else had happened: the
\* target's statement was already ended by an earlier KILL, or the reply of this
\* one is lost.  Between two statements the KILL may also be dropped.
Strike(k, lost) ==
    LET th == k.thread
        ended == \/ reply[k.actor] = "killed"
                 \/ k.actor \in Jobs /\ interrupted[k.actor]
        mark == IF lost THEN "lost" ELSE IF ended THEN "second" ELSE "first"
    IN  \/ /\ th \notin gone
           /\ flags' = [flags EXCEPT ![th] = @ \cup {[kill |-> k, mark |-> mark]}]
        \/ /\ th \in gone \/ stmt[th] = None
           /\ UNCHANGED flags

\* The statement ends: normally, with a server error, or with error 1317 when a
\* KILL is flagged.  The end of a command clears the flag either way.
ServerEnd(th) ==
    /\ stmt[th] # None
    /\ \E r \in {"ok", "err"} \cup IF flags[th] # {} THEN {"killed"} ELSE {} :
          reply' = [reply EXCEPT ![stmt[th].actor] = r]
    /\ stmt' = [stmt EXCEPT ![th] = None]
    /\ flags' = [flags EXCEPT ![th] = {}]
    /\ UNCHANGED <<lockVars, closeVars, pc, at, run, idx, kill_sent, tabVars, jobVars,
                   killVars, gone, nextThread>>

\* The connection breaks (server restart, network, wait_timeout).
ConnectionLost(th) ==
    /\ "broken_connection" \in Faults
    /\ th < nextThread /\ th \notin gone
    /\ gone' = gone \cup {th}
    /\ stmt' = [stmt EXCEPT ![th] = None]
    /\ flags' = [flags EXCEPT ![th] = {}]
    /\ reply' = IF stmt[th] = None THEN reply
                ELSE [reply EXCEPT ![stmt[th].actor] = "err"]
    /\ UNCHANGED <<lockVars, closeVars, pc, at, run, idx, kill_sent, tabVars, jobVars,
                   killVars, nextThread>>

\* Faulty variant: the task goes on before its statement has ended.
DoesNotDrain(a) == TRUE

\* The statement the task awaits has ended: nothing of it is left on the session.
Ended(a) == reply[a] # "none"

(***************************************************************************)
(* An editor run: execute_multi_query_internal and its one-statement       *)
(* variant execute_single_on_session.                                      *)
(***************************************************************************)
\* Faulty variant: the tab is registered for cancel_query while it still queues.
RegistersWhileQueued(t) ==
    /\ pc[t] = "idle"
    /\ run[t] < MaxRuns
    /\ Enqueue(t)
    /\ run' = [run EXCEPT ![t] = @ + 1]
    /\ idx' = [idx EXCEPT ![t] = 0]
    /\ running_queries' = [running_queries EXCEPT ![t] = session[1]]
    /\ Goto(t, "queued")
    /\ UNCHANGED <<closeVars, reply, kill_sent, pooled, jobVars, killVars, serverVars>>

\* The tab runs a query: fetch the connection's slot and queue on its mutex.
RunQuery(t) ==
    /\ pc[t] = "idle"
    /\ run[t] < MaxRuns
    /\ Enqueue(t)
    /\ run' = [run EXCEPT ![t] = @ + 1]
    /\ idx' = [idx EXCEPT ![t] = 0]
    /\ Goto(t, "queued")
    /\ UNCHANGED <<closeVars, reply, kill_sent, tabVars, jobVars, killVars, serverVars>>

\* The session is ours: register its thread for cancel_query and keep the pool
\* that a ceiling KILL will need.
Register(t) ==
    /\ pc[t] = "granted"
    /\ running_queries' = [running_queries EXCEPT ![t] = Thread(t)]
    /\ pooled' = [pooled EXCEPT ![t] = registered]
    /\ Goto(t, "ready")
    /\ UNCHANGED <<lockVars, closeVars, at, run, idx, reply, kill_sent, jobVars,
                   killVars, serverVars>>

StartStatement(t) ==
    /\ pc[t] = "ready"
    /\ idx[t] < MaxStatements
    /\ idx' = [idx EXCEPT ![t] = @ + 1]
    /\ Send(t, idx[t] + 1)
    /\ kill_sent' = [kill_sent EXCEPT ![t] = FALSE]
    /\ Goto(t, "exec")
    /\ UNCHANGED <<lockVars, closeVars, at, run, tabVars, jobVars, killVars,
                   flags, gone, nextThread>>

\* The statement ended within the ceiling; an error stops the batch.
StatementEnd(t) ==
    /\ pc[t] = "exec"
    /\ Ended(t)
    /\ Goto(t, IF reply[t] = "ok" THEN "ready" ELSE "finish")
    /\ reply' = [reply EXCEPT ![t] = "none"]
    /\ UNCHANGED <<lockVars, closeVars, at, run, idx, kill_sent, tabVars, jobVars,
                   killVars, serverVars>>

\* One row more than the ceiling arrived.  The run awaits its own KILL QUERY,
\* which may fail to be sent, and then drains the rest of the stream.
CeilingKill(t) ==
    /\ pc[t] = "exec"
    /\ reply[t] # "err"
    /\ Goto(t, "drain")
    /\ LET k == [kind |-> "ceiling", actor |-> t, run |-> run[t], idx |-> idx[t],
                 n |-> 0, thread |-> Thread(t)]
       IN  \/ UNCHANGED <<flags, kill_sent>>
           \/ /\ pooled[t] /\ k.thread \notin gone
              /\ Strike(k, FALSE)
              /\ kill_sent' = [kill_sent EXCEPT ![t] = TRUE]
           \/ /\ pooled[t] /\ "lost_reply" \in Faults
              /\ Strike(k, TRUE)
              /\ UNCHANGED kill_sent
    /\ UNCHANGED <<lockVars, closeVars, at, run, idx, reply, tabVars, jobVars,
                   killVars, stmt, gone, nextThread>>

\* After a truncated SELECT: record the database it ran in, unless its re-run is
\* blocked anyway.
CaptureDatabase(t) ==
    \/ Send(t, idx[t]) /\ Goto(t, "capture")
    \/ /\ Goto(t, "ready")
       /\ reply' = [reply EXCEPT ![t] = "none"]
       /\ UNCHANGED stmt

\* Faulty variant: no DO 0 after a KILL that may be late.
NeverAbsorbs(t) == FALSE

\* The KILL was sent, but the stream did not end by error 1317.
LateKillPossible(t) == kill_sent[t] /\ reply[t] # "killed"

\* The drain reached the end of the stream: DO 0 absorbs a KILL still pending.
DrainEnd(t) ==
    /\ pc[t] = "drain"
    /\ Ended(t)
    /\ IF LateKillPossible(t)
       THEN Send(t, idx[t]) /\ Goto(t, "absorb")
       ELSE CaptureDatabase(t)
    /\ UNCHANGED <<lockVars, closeVars, at, run, idx, kill_sent, tabVars, jobVars,
                   killVars, flags, gone, nextThread>>

AbsorbEnd(t) ==
    /\ pc[t] = "absorb"
    /\ Ended(t)
    /\ CaptureDatabase(t)
    /\ UNCHANGED <<lockVars, closeVars, at, run, idx, kill_sent, tabVars, jobVars,
                   killVars, flags, gone, nextThread>>

\* A failed SELECT DATABASE() only blocks the full export of this result.
CaptureEnd(t) ==
    /\ pc[t] = "capture"
    /\ Ended(t)
    /\ Goto(t, "ready")
    /\ reply' = [reply EXCEPT ![t] = "none"]
    /\ UNCHANGED <<lockVars, closeVars, at, run, idx, kill_sent, tabVars, jobVars,
                   killVars, serverVars>>

\* The batch is over (all statements ran, one failed, or one was refused on a
\* read-only connection): unregister, then drop the guard.
Unregister(t) ==
    /\ pc[t] \in {"ready", "finish"}
    /\ running_queries' = [running_queries EXCEPT ![t] = 0]
    /\ Goto(t, "release")
    /\ UNCHANGED <<lockVars, closeVars, at, run, idx, reply, kill_sent, pooled, jobVars,
                   killVars, serverVars>>

ReleaseTab(t) ==
    /\ pc[t] = "release"
    /\ Unlock(t)
    /\ Goto(t, "idle")
    /\ UNCHANGED <<closeVars, at, run, idx, reply, kill_sent, tabVars, jobVars,
                   killVars, stmt, flags, nextThread>>

\* cancel_query: read the thread under the running_queries lock, let go of the
\* lock, take the pool; the KILL itself is sent later.
CancelQuery(t) ==
    /\ asked[t] < MaxTabCancels
    /\ running_queries[t] # 0
    /\ registered
    /\ asked' = [asked EXCEPT ![t] = @ + 1]
    /\ kills' = kills \cup {[kind |-> "cancel", actor |-> t, run |-> run[t], idx |-> 0,
                             n |-> asked[t] + 1, thread |-> running_queries[t]]}
    /\ UNCHANGED <<lockVars, closeVars, actorVars, tabVars, jobVars, serverVars>>

TabStep(t) ==
    \/ Register(t) \/ StartStatement(t) \/ StatementEnd(t) \/ CeilingKill(t)
    \/ DrainEnd(t) \/ AbsorbEnd(t) \/ CaptureEnd(t) \/ Unregister(t) \/ ReleaseTab(t)

(***************************************************************************)
(* A full-export job: start_result_export, rerun_into_pipeline,            *)
(* stream_rerun and ExportPipeline::complete.                              *)
(***************************************************************************)
StartExport(j) ==
    /\ pc[j] = "idle"
    /\ status' = [status EXCEPT ![j] = "running"]
    /\ Goto(j, "spawned")
    /\ UNCHANGED <<lockVars, closeVars, at, run, idx, reply, kill_sent, tabVars,
                   cancel_requested, mysql_thread_id, interrupted, stopping, outcome,
                   restore_to, timedOut, written, killVars, serverVars>>

\* The job task starts: cancelled already, or queue behind the editor runs.
BeginExport(j) ==
    /\ pc[j] = "spawned"
    /\ IF cancel_requested[j]
       THEN Goto(j, "complete") /\ UNCHANGED <<lockVars, at>>
       ELSE Enqueue(j) /\ Goto(j, "queued")
    /\ UNCHANGED <<closeVars, run, idx, reply, kill_sent, tabVars, jobVars, killVars,
                   serverVars>>

\* The session is ours: from here a cancel has a thread to KILL.
SetJobThread(j) ==
    /\ pc[j] = "granted"
    /\ mysql_thread_id' = [mysql_thread_id EXCEPT ![j] = Thread(j)]
    /\ Goto(j, "armed")
    /\ UNCHANGED <<lockVars, closeVars, at, run, idx, reply, kill_sent, tabVars, status,
                   cancel_requested, interrupted, stopping, outcome, restore_to,
                   timedOut, written, killVars, serverVars>>

\* A cancel that came while the job was queued had no thread to KILL.
StartRerun(j) ==
    /\ pc[j] = "armed"
    /\ IF cancel_requested[j]
       THEN Goto(j, "disarm") /\ UNCHANGED <<reply, stmt>>
       ELSE Goto(j, "dbread") /\ Send(j, 0)
    /\ UNCHANGED <<lockVars, closeVars, at, run, idx, kill_sent, tabVars, jobVars,
                   killVars, flags, gone, nextThread>>

\* switch_to_run_database failed: the re-run is skipped.
SkipRerun(j) ==
    /\ outcome' = [outcome EXCEPT
          ![j] = IF cancel_requested[j] THEN "cancelled" ELSE "failed"]
    /\ Goto(j, "disarm")
    /\ UNCHANGED <<reply, stmt>>

StartStream(j) == Send(j, 0) /\ Goto(j, "stream") /\ UNCHANGED outcome

\* SELECT DATABASE() answered: stream at once, or USE the result's database first.
ReadDatabase(j) ==
    /\ pc[j] = "dbread"
    /\ Ended(j)
    /\ IF reply[j] # "ok" THEN SkipRerun(j)
       ELSE \/ StartStream(j)
            \/ Send(j, 0) /\ Goto(j, "dbuse") /\ UNCHANGED outcome
    /\ UNCHANGED <<lockVars, closeVars, at, run, idx, kill_sent, tabVars, status,
                   cancel_requested, mysql_thread_id, interrupted, stopping, restore_to,
                   timedOut, written, killVars, flags, gone, nextThread>>

\* The USE answered; a session that had no database is not switched back.
UseDatabase(j) ==
    /\ pc[j] = "dbuse"
    /\ Ended(j)
    /\ IF reply[j] # "ok" THEN SkipRerun(j) /\ UNCHANGED restore_to
       ELSE /\ StartStream(j)
            /\ \E named \in BOOLEAN : restore_to' = [restore_to EXCEPT ![j] = named]
    /\ UNCHANGED <<lockVars, closeVars, at, run, idx, kill_sent, tabVars, status,
                   cancel_requested, mysql_thread_id, interrupted, stopping, timedOut,
                   written, killVars, flags, gone, nextThread>>

\* The file cannot be written, or the sheet is full: the job awaits a KILL of
\* its own re-run and discards the rest of the stream.
StopStream(j) ==
    /\ pc[j] = "stream"
    /\ stopping[j] = "no"
    /\ reply[j] # "err"
    /\ \E why \in {"failure", "limit"} : stopping' = [stopping EXCEPT ![j] = why]
    /\ LET k == [kind |-> "export", actor |-> j, run |-> 0, idx |-> 0, n |-> 0,
                 thread |-> Thread(j)]
       IN  \/ UNCHANGED <<flags, kill_sent>>
           \/ /\ registered /\ k.thread \notin gone
              /\ Strike(k, FALSE)
              /\ kill_sent' = [kill_sent EXCEPT ![j] = TRUE]
           \/ /\ registered /\ "lost_reply" \in Faults
              /\ Strike(k, TRUE)
              /\ UNCHANGED kill_sent
    /\ UNCHANGED <<lockVars, closeVars, pc, at, run, idx, reply, tabVars, status,
                   cancel_requested, mysql_thread_id, interrupted, outcome, restore_to,
                   timedOut, written, killVars, stmt, gone, nextThread>>

\* Faulty variant: error 1317 always counts as an orderly end of the stream.
InterruptIsNoFailure(j) == stopping[j] = "failure" \/ reply[j] = "err"

\* Error 1317 is a failure only when nobody asked for it.
StreamFailed(j) ==
    \/ stopping[j] = "failure"
    \/ reply[j] = "err"
    \/ reply[j] = "killed" /\ stopping[j] = "no" /\ ~cancel_requested[j]

\* The stream ended.
StreamEnd(j) ==
    /\ pc[j] = "stream"
    /\ Ended(j)
    /\ interrupted' = [interrupted EXCEPT ![j] = reply[j] = "killed"]
    /\ outcome' = [outcome EXCEPT ![j] = IF StreamFailed(j) THEN "failed"
                                         ELSE IF cancel_requested[j] THEN "cancelled"
                                         ELSE "completed"]
    /\ Goto(j, "disarm")
    /\ UNCHANGED <<lockVars, closeVars, at, run, idx, reply, kill_sent, tabVars, status,
                   cancel_requested, mysql_thread_id, stopping, restore_to, timedOut,
                   written, killVars, serverVars>>

\* Faulty variant: the thread id is left in the job when the re-run is over.
KeepsJobThread(j) ==
    /\ pc[j] = "disarm"
    /\ Goto(j, "wait")
    /\ UNCHANGED <<lockVars, closeVars, at, run, idx, reply, kill_sent, tabVars, jobVars,
                   killVars, serverVars>>

\* set_job_thread(None): no new cancel KILL can target the session.
ClearJobThread(j) ==
    /\ pc[j] = "disarm"
    /\ mysql_thread_id' = [mysql_thread_id EXCEPT ![j] = 0]
    /\ Goto(j, "wait")
    /\ UNCHANGED <<lockVars, closeVars, at, run, idx, reply, kill_sent, tabVars, status,
                   cancel_requested, interrupted, stopping, outcome, restore_to,
                   timedOut, written, killVars, serverVars>>

KillsInFlight(j) == {k \in kills : k.actor = j}

Restore(j) == IF restore_to[j] THEN Send(j, 0) /\ Goto(j, "restore")
              ELSE Goto(j, "release") /\ UNCHANGED <<reply, stmt>>

\* Faulty variant: no DO 0 before the session is released.
NeverAbsorbsExportKill(j) == FALSE

\* A KILL was sent, but the re-run did not end by error 1317.
ExportLateKillPossible(j) == kill_sent[j] /\ ~interrupted[j]

\* After the wait: absorb a KILL that may have come after the re-run ended, then
\* restore the session's database.
AfterWait(j) ==
    /\ IF ExportLateKillPossible(j) THEN Send(j, 0) /\ Goto(j, "absorb")
                                    ELSE Restore(j)
    /\ UNCHANGED <<lockVars, closeVars, at, run, idx, kill_sent, tabVars, status,
                   cancel_requested, mysql_thread_id, interrupted, stopping, outcome,
                   restore_to, written, killVars, flags, gone, nextThread>>

\* Faulty variant: the job does not wait for the KILLs in flight.
SkipsTheWait(j) == pc[j] = "wait" /\ AfterWait(j) /\ UNCHANGED timedOut

\* wait_for_cancel_kills: every registered KILL has finished.
WaitForCancelKills(j) ==
    /\ pc[j] = "wait"
    /\ KillsInFlight(j) = {}
    /\ AfterWait(j)
    /\ UNCHANGED timedOut

\* Faulty variant: the wait has no timeout.
NeverTimesOut(j) == FALSE /\ UNCHANGED vars

\* wait_for_cancel_kills: two seconds are over with a KILL still in flight.
WaitTimeout(j) ==
    /\ pc[j] = "wait"
    /\ KillsInFlight(j) # {}
    /\ timedOut' = [timedOut EXCEPT ![j] = TRUE]
    /\ AfterWait(j)

ExportAbsorbEnd(j) ==
    /\ pc[j] = "absorb"
    /\ Ended(j)
    /\ Restore(j)
    /\ UNCHANGED <<lockVars, closeVars, at, run, idx, kill_sent, tabVars, jobVars,
                   killVars, flags, gone, nextThread>>

\* restore_database: one retry when a late KILL hits the USE.
RestoreEnd(j) ==
    /\ pc[j] \in {"restore", "retry"}
    /\ Ended(j)
    /\ IF pc[j] = "restore" /\ reply[j] = "killed"
       THEN Send(j, 0) /\ Goto(j, "retry")
       ELSE Goto(j, "release") /\ UNCHANGED <<reply, stmt>>
    /\ UNCHANGED <<lockVars, closeVars, at, run, idx, kill_sent, tabVars, jobVars,
                   killVars, flags, gone, nextThread>>

ReleaseJob(j) ==
    /\ pc[j] = "release"
    /\ Unlock(j)
    /\ Goto(j, "complete")
    /\ UNCHANGED <<closeVars, at, run, idx, reply, kill_sent, tabVars, jobVars,
                   killVars, stmt, flags, nextThread>>

\* Faulty variant: the file is renamed before the cancel request is looked at.
RenamesBeforeCancelCheck(j) ==
    /\ pc[j] = "complete"
    /\ written' = [written EXCEPT ![j] = outcome[j] = "completed"]
    /\ outcome' = [outcome EXCEPT ![j] = IF @ = "completed" /\ cancel_requested[j]
                                         THEN "cancelled" ELSE @]
    /\ Goto(j, "publish")
    /\ UNCHANGED <<lockVars, closeVars, at, run, idx, reply, kill_sent, tabVars, status,
                   cancel_requested, mysql_thread_id, interrupted, stopping, restore_to,
                   timedOut, killVars, serverVars>>

\* ExportPipeline::complete, up to the file: a cancel turns a completed re-run
\* into a cancelled one; the file is finished and renamed onto the target, or
\* that fails.
FinishFile(j) ==
    /\ pc[j] = "complete"
    /\ \/ /\ outcome[j] = "completed" /\ ~cancel_requested[j]
          /\ \/ written' = [written EXCEPT ![j] = TRUE] /\ UNCHANGED outcome
             \/ outcome' = [outcome EXCEPT ![j] = "failed"] /\ UNCHANGED written
       \/ /\ outcome[j] = "completed" /\ cancel_requested[j]
          /\ outcome' = [outcome EXCEPT ![j] = "cancelled"]
          /\ UNCHANGED written
       \/ outcome[j] # "completed" /\ UNCHANGED <<outcome, written>>
    /\ Goto(j, "publish")
    /\ UNCHANGED <<lockVars, closeVars, at, run, idx, reply, kill_sent, tabVars, status,
                   cancel_requested, mysql_thread_id, interrupted, stopping, restore_to,
                   timedOut, killVars, serverVars>>

\* ExportPipeline::complete, the final job update.
PublishStatus(j) ==
    /\ pc[j] = "publish"
    /\ status' = [status EXCEPT ![j] = outcome[j]]
    /\ mysql_thread_id' = [mysql_thread_id EXCEPT ![j] = 0]
    /\ Goto(j, "done")
    /\ UNCHANGED <<lockVars, closeVars, at, run, idx, reply, kill_sent, tabVars,
                   cancel_requested, interrupted, stopping, outcome, restore_to,
                   timedOut, written, killVars, serverVars>>

\* Faulty variant: a KILL is registered for a job that has no thread yet.
CancelWithoutThread(j, n) ==
    /\ cancel_requested' = [cancel_requested EXCEPT ![j] = TRUE]
    /\ kills' = kills \cup {[kind |-> "export", actor |-> j, run |-> 0, idx |-> 0,
                             n |-> n, thread |-> mysql_thread_id[j]]}

\* request_cancel, under the job-map lock; cancel number n of the job.
RequestCancel(j, n) ==
    /\ cancel_requested' = [cancel_requested EXCEPT ![j] = TRUE]
    /\ kills' = IF mysql_thread_id[j] = 0 THEN kills
                ELSE kills \cup {[kind |-> "export", actor |-> j, run |-> 0, idx |-> 0,
                                  n |-> n, thread |-> mysql_thread_id[j]]}

CancelExport(j) ==
    /\ asked[j] < MaxJobCancels
    /\ status[j] = "running"
    /\ RequestCancel(j, asked[j] + 1)
    /\ asked' = [asked EXCEPT ![j] = @ + 1]
    /\ UNCHANGED <<lockVars, closeVars, actorVars, tabVars, status, mysql_thread_id,
                   interrupted, stopping, outcome, restore_to, timedOut, written,
                   serverVars>>

JobStep(j) ==
    \/ BeginExport(j)  \/ SetJobThread(j) \/ StartRerun(j)   \/ ReadDatabase(j)
    \/ UseDatabase(j)  \/ StopStream(j)   \/ StreamEnd(j)    \/ ClearJobThread(j)
    \/ WaitForCancelKills(j) \/ WaitTimeout(j) \/ ExportAbsorbEnd(j) \/ RestoreEnd(j) \/ ReleaseJob(j)
    \/ FinishFile(j)   \/ PublishStatus(j)

(***************************************************************************)
(* KILL QUERY calls of cancel_query and cancel_result_export.              *)
(***************************************************************************)
\* The KILL runs on the server.  An export's cancel is marked sent and leaves
\* kills_in_flight, unless its reply is lost: then it only leaves.
KillArrives(k) ==
    /\ \/ /\ k.thread \notin gone
          /\ Strike(k, FALSE)
          /\ kill_sent' = IF k.kind = "export" THEN [kill_sent EXCEPT ![k.actor] = TRUE]
                          ELSE kill_sent
       \/ /\ "lost_reply" \in Faults
          /\ Strike(k, TRUE)
          /\ UNCHANGED kill_sent
    /\ kills' = kills \ {k}
    /\ UNCHANGED <<lockVars, closeVars, pc, at, run, idx, reply, tabVars, jobVars, asked,
                   stmt, gone, nextThread>>

\* No pool connection in time, the pool is closed, or the thread is unknown.
KillGivenUp(k) ==
    /\ kills' = kills \ {k}
    /\ UNCHANGED <<lockVars, closeVars, actorVars, tabVars, jobVars, asked, serverVars>>

(***************************************************************************)
(* close_connection.                                                       *)
(***************************************************************************)
CloseBegin ==
    /\ closing = "open"
    /\ closing' = "cancelling"
    /\ closeTodo' = {j \in Jobs : status[j] = "running"}
    /\ UNCHANGED <<lockVars, registered, actorVars, tabVars, jobVars, killVars, serverVars>>

\* Cancel the next running export, once the KILL of the one before is finished.
CloseCancelExport(j) ==
    /\ closing = "cancelling"
    /\ j \in closeTodo
    /\ \A k \in kills : k.kind = "export" => k.n # 0
    /\ closeTodo' = closeTodo \ {j}
    /\ IF status[j] = "running" THEN RequestCancel(j, 0)
                                ELSE UNCHANGED <<cancel_requested, kills>>
    /\ UNCHANGED <<lockVars, registered, closing, actorVars, tabVars, status,
                   mysql_thread_id, interrupted, stopping, outcome, restore_to, timedOut,
                   written, asked, serverVars>>

\* registry.remove
CloseRemove ==
    /\ closing = "cancelling"
    /\ closeTodo = {}
    /\ \A k \in kills : k.kind = "export" => k.n # 0
    /\ closing' = "removed"
    /\ registered' = FALSE
    /\ UNCHANGED <<lockVars, closeTodo, actorVars, tabVars, jobVars, killVars, serverVars>>

\* running_queries.retain
CloseRunningQueries ==
    /\ closing = "removed"
    /\ closing' = "retained"
    /\ running_queries' = [t \in Tabs |-> 0]
    /\ UNCHANGED <<lockVars, registered, closeTodo, actorVars, pooled, jobVars, killVars,
                   serverVars>>

\* Faulty variant: a busy session makes close return before it forgets the slot.
KeepsBusySlot ==
    /\ closing = "retained"
    /\ closing' = "closed"
    /\ IF slot # 0 /\ queue[slot] = << >>
       THEN /\ slot' = 0
            /\ session' = [session EXCEPT ![slot] = 0]
            /\ gone' = gone \cup ({session[slot]} \ {0})
       ELSE UNCHANGED <<slot, session, gone>>
    /\ UNCHANGED <<queue, registered, closeTodo, actorVars, tabVars, jobVars, killVars,
                   stmt, flags, nextThread>>

\* session::close: forget the slot; disconnect its session unless it is busy.
CloseSession ==
    /\ closing = "retained"
    /\ closing' = "closed"
    /\ slot' = 0
    /\ IF slot # 0 /\ queue[slot] = << >>
       THEN /\ session' = [session EXCEPT ![slot] = 0]
            /\ gone' = gone \cup ({session[slot]} \ {0})
       ELSE UNCHANGED <<session, gone>>
    /\ UNCHANGED <<queue, registered, closeTodo, actorVars, tabVars, jobVars, killVars,
                   stmt, flags, nextThread>>

Close == CloseBegin \/ CloseRemove \/ CloseRunningQueries \/ CloseSession
         \/ \E j \in Jobs : CloseCancelExport(j)

-----------------------------------------------------------------------------
Next ==
    \/ \E a \in Actors : Acquire(a)
    \/ \E t \in Tabs : RunQuery(t) \/ TabStep(t) \/ CancelQuery(t)
    \/ \E j \in Jobs : StartExport(j) \/ JobStep(j) \/ CancelExport(j)
    \/ \E k \in kills : KillArrives(k) \/ KillGivenUp(k)
    \/ \E th \in Threads : ServerEnd(th) \/ ConnectionLost(th)
    \/ Close

\* Tasks that can go on do so, and the server ends every statement.  Nobody has
\* to run a query, cancel one or close the connection, and a KILL in flight may
\* hang.
Fairness ==
    /\ \A a \in Actors : WF_vars(Acquire(a))
    /\ \A t \in Tabs : WF_vars(TabStep(t))
    /\ \A j \in Jobs : WF_vars(JobStep(j))
    /\ \A th \in Threads : WF_vars(ServerEnd(th))

Spec == Init /\ [][Next]_vars
FairSpec == Spec /\ Fairness

-----------------------------------------------------------------------------
(***************************************************************************)
(* Safety.                                                                 *)
(***************************************************************************)
LockType ==
    /\ slot \in {0} \cup Slots
    /\ queue \in [Slots -> Seq(Actors)]
    /\ session \in [Slots -> {0} \cup Threads]

CloseType ==
    /\ registered \in BOOLEAN
    /\ closing \in {"open", "cancelling", "removed", "retained", "closed"}
    /\ closeTodo \subseteq Jobs

ActorType ==
    /\ pc \in [Actors -> TabPC \cup JobPC]
    /\ at \in [Actors -> Slots]
    /\ run \in [Actors -> 0 .. MaxRuns]
    /\ idx \in [Actors -> 0 .. MaxStatements]
    /\ reply \in [Actors -> {"none", "ok", "err", "killed"}]
    /\ kill_sent \in [Actors -> BOOLEAN]

TabType ==
    /\ running_queries \in [Tabs -> {0} \cup Threads]
    /\ pooled \in [Tabs -> BOOLEAN]

JobType ==
    /\ status \in [Jobs -> {"none", "running", "completed", "cancelled", "failed"}]
    /\ cancel_requested \in [Jobs -> BOOLEAN]
    /\ mysql_thread_id \in [Jobs -> {0} \cup Threads]
    /\ interrupted \in [Jobs -> BOOLEAN]
    /\ stopping \in [Jobs -> {"no", "failure", "limit"}]
    /\ outcome \in [Jobs -> {"completed", "cancelled", "failed"}]
    /\ restore_to \in [Jobs -> BOOLEAN]
    /\ timedOut \in [Jobs -> BOOLEAN]
    /\ written \in [Jobs -> BOOLEAN]

KillType ==
    /\ asked \in [Actors -> 0 .. MaxTabCancels + MaxJobCancels]
    /\ kills \subseteq Kill

ServerType ==
    /\ stmt \in [Threads -> Statement \cup {None}]
    /\ flags \in [Threads -> SUBSET Flag]
    /\ gone \subseteq Threads
    /\ nextThread \in 1 .. MaxThreads + 1

TypeOK == /\ LockType /\ CloseType /\ ActorType /\ TabType
          /\ JobType  /\ KillType  /\ ServerType

Owns(a, th) == pc[a] \in HoldingPC /\ Holds(a) /\ Thread(a) = th

\* Whatever a cancel could target now is the session of the task that registered
\* it: the running_queries entry of a tab and the thread id of an export exist
\* only while that task holds the lock on the session with this thread
\* (multi_result.rs:923, request_cancel's doc in result_export.rs:277).
CancelTargetsOwnSession ==
    \A th \in Threads :
        /\ \A t \in Tabs : running_queries[t] = th => Owns(t, th)
        /\ \A j \in Jobs : mysql_thread_id[j] = th => Owns(j, th)

\* One statement at a time per session, and only of the task that holds the
\* lock: a statement runs on a thread only for the owner of the slot.
RunsFor(th, a) == stmt[th] # None /\ stmt[th].actor = a

StatementsOfOwner ==
    \A th \in Threads : \A a \in Actors : RunsFor(th, a) => Owns(a, th)

Aimed(k, st) == k.actor = st.actor /\ k.run \in {0, st.run} /\ k.idx \in {0, st.idx}

\* The KILLs that would interrupt the statement the thread is running.
Striking(th) == IF stmt[th] = None THEN {} ELSE flags[th]

\* A KILL of an export or of the row ceiling interrupts only the statement or job
\* it was sent for, except: the job stopped waiting for it after two seconds, its
\* reply was lost, or the statement had already been ended by another KILL
\* (drain_after_ceiling and StreamEnd.interrupted take that 1317 for their own).
KillsLandOnTarget ==
    \A th \in Threads : \A f \in Striking(th) :
        \/ Aimed(f.kill, stmt[th])
        \/ f.kill.kind = "cancel"
        \/ f.mark \in {"second", "lost"}
        \/ f.kill.kind = "export" /\ timedOut[f.kill.actor]

\* While a cancel KILL of an export is in flight the job keeps the session, so
\* the KILL cannot find anybody else there, unless the job gave up waiting
\* (ResultExportCancel, state.rs:160).
ExportWaitsForItsKills ==
    \A k \in kills : k.kind = "export" =>
        Owns(k.actor, k.thread) \/ timedOut[k.actor]

\* A re-run cut short by error 1317, whoever sent the KILL, never ends as a
\* completed export, except when the job itself stopped at the sheet limit.
NoSilentTruncation ==
    \A j \in Jobs : written[j] => ~interrupted[j] \/ stopping[j] = "limit"

\* After close_connection nothing keeps the MySQL session open once its queue
\* is empty, however the close and the runs interleaved (session.rs:142).
ClosedSessionIsDropped ==
    closing = "closed" => \A s \in Slots : queue[s] = << >> => session[s] = 0

\* A job that ended keeps its status and its file.
EndedJobIsFinal ==
    [][\A j \in Jobs : status[j] \in {"completed", "cancelled", "failed"} =>
          /\ status'[j] = status[j]
          /\ written'[j] = written[j]
          /\ (status[j] = "completed") = written[j]]_vars

(***************************************************************************)
(* Liveness, under FairSpec.                                               *)
(***************************************************************************)
\* A queued run gets its turn and ends, with or without close_connection.
QueuedRunEnds == \A t \in Tabs : pc[t] = "queued" ~> pc[t] = "idle"

\* A cancelled export ends, even when the KILL hangs for ever.
CancelledExportEnds ==
    \A j \in Jobs : cancel_requested[j] ~> status[j] # "running"

\* Nobody who waits on the slot, or for a KILL, waits for ever.
WaitersEnd == QueuedRunEnds /\ CancelledExportEnds

(***************************************************************************)
(* The session as a first-come, first-served resource.                     *)
(***************************************************************************)
Fifo == INSTANCE FifoSession
          WITH line  <- queue[1] \o queue[2],
               using <- queue[1] # << >> /\ pc[Head(queue[1])] \in HoldingPC

ImplementsFifo == Fifo!Spec

(***************************************************************************)
(* What the code's comments say and its behaviour does not keep.           *)
(***************************************************************************)
\* multi_result.rs:923: cancelling a tab never kills another tab's query.
CancelKillsOnlyItsTab ==
    \A th \in Threads : \A f \in Striking(th) :
        f.kill.kind = "cancel" => f.kill.actor = stmt[th].actor

\* session.rs:143: once closed, a busy session is dropped (and disconnected) when
\* its running query ends.
BusySessionEndsWithItsQuery ==
    [][\A a \in Actors :
          closing = "closed" /\ pc[a] = "release" /\ pc'[a] # "release" =>
              session'[at[a]] = 0]_vars
=============================================================================
