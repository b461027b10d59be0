----------------------------- MODULE JobProofs -----------------------------
(***************************************************************************)
(* Proofs about the two kinds of background jobs, for every value of their *)
(* constants. Transfers (TransferJobs): what is reported as complete is    *)
(* whole, a dump file is well-formed, a cancel kills the dump's own        *)
(* thread, a copy that is reported as complete has given the foreign-key   *)
(* checks back, and a job that has ended stays as it ended. Index builds   *)
(* (SchemaIndex): the sessions of a profile are counted, its last close    *)
(* stops its build, one build goes on at a time, and what a session shows  *)
(* at rest is true.                                                        *)
(***************************************************************************)
EXTENDS TransferJobs, SchemaIndex, FiniteSetTheorems, SequenceTheorems, TLAPS

----------
(* Transfers. The inductive invariant. *)

Standing(q) == {q[i] : i \in 1 .. Len(q)}
NoDup(q)    == \A i, j \in 1 .. Len(q) : q[i] = q[j] => i = j
Held        == {job.conn, edit.conn} \ {0}

\* The steps at which a job holds a connection.
ConnSteps == {"connid", "first", "stream", "prepare", "checks", "count", "structure", "rows",
              "flush", "last", "wait"}

\* Each kind of job keeps to its own steps, and holds a connection at some of them.
StepInv ==
  /\ job.pc \in DumpSteps => job.kind = "dump"
  /\ job.pc \in CopySteps => job.kind = "copy"
  /\ job.pc \in ImportSteps => job.kind = "import"
  /\ job.pc = "status" => job.kind # "import"
  /\ job.pc \in ConnSteps => job.conn # 0
  /\ job.conn # 0 => job.pc \in ConnSteps \cup {"restore"}
  /\ edit.conn # 0 <=> edit.pc = "running"
  /\ edit.pc = "running" => edit.number < MaxEdits

\* A connection is idle, on its way back, held by one of hs, or closed; threads are
\* told apart.
PoolOK(hs, q, f, cs, n) ==
  /\ NoDup(q)
  /\ Standing(q) \cap f = {} /\ hs \cap (Standing(q) \cup f) = {}
  /\ \A c \in Standing(q) \cup f \cup hs : cs[c].thread # 0
  /\ \A c \in Conns : cs[c].thread <= n
  /\ \A c, d \in Conns : cs[c].thread = cs[d].thread /\ c # d => cs[c].thread = 0

PoolInv ==
  /\ PoolOK(Held, idle, free, conns, opened)
  /\ job.conn # 0 => job.conn # edit.conn

\* The registered thread is the one of the dump's connection, while it streams.
ThreadInv ==
  job.mysql_thread_id # 0 /\ "leftover" \notin gaps =>
    job.pc \in {"first", "stream"} /\ conns[job.conn].thread = job.mysql_thread_id

\* Foreign-key checks are off in the session of a copy only, between two steps of it.
OffSteps == {"count", "structure", "rows", "flush", "last", "restore"}

ChecksInv ==
  \A c \in Conns : \/ conns[c].checks
                   \/ c = job.conn /\ job.pc \in OffSteps
                   \/ "unrestored" \in gaps

\* After a refusal to turn them on again, a copy has an error and is about to end, or ended.
RefusedInv ==
  "unrestored" \in gaps =>
    /\ job.kind = "copy" /\ job.status # "Completed"
    /\ job.pc = "ended" \/ (job.pc = "status" /\ job.result = "err")

\* The races of the other kinds of job.
OtherGaps == Gaps \ {"unrestored"}

\* A table is locked in the file while its rows are written.
FileInv ==
  /\ output.lock => job.pc = "stream"
  /\ job.pc \in {"none", "version"} => ~output.header
  /\ job.kind = "dump" /\ job.pc \in {"status", "ended"} /\ output.header =>
       output.footer /\ ~output.transaction

\* The tables before the current one are whole while nothing has gone wrong.
PartInv ==
  job.kind \in {"dump", "copy"} =>
    /\ job.at \in Tables
    /\ job.pc \in (DumpSteps \cup CopySteps \cup {"none"}) \ {"finish", "restore"} =>
         job.result = "ok" /\ \A t \in Tables : t < job.at => output.part[t] = "whole"
    /\ job.pc \in {"finish", "restore", "status"} /\ job.result = "ok" => Whole
    /\ job.kind = "dump" /\ job.pc = "status" /\ job.result = "cancelled" => job.cancel_requested
    /\ job.status = "Completed" => Whole

\* A job that is over has ended, but for a cancelled copy, which still cleans up.
FinalInv ==
  job.status # "Running" =>
    \/ job.pc = "ended"
    \/ job.kind = "copy" /\ job.pc \in {"restore", "status"} /\ job.status = "Cancelled"

Done(s) == \E i \in 1 .. Len(input.script) : i < job.at /\ input.script[i] = s

\* An import that met no error and was not scattered has its row in its one session,
\* until a commit.
ImportInv ==
  job.kind = "import" =>
    /\ job.at \in 1 .. Len(input.script) + 1
    /\ job.pc \in {"send", "wait"} => job.at <= Len(input.script)
    /\ job.status = "Completed" => job.at = Len(input.script) + 1
    /\ input.stop /\ job.errors # 0 => job.status = "Failed"
    /\ input.script = Locked => \A c \in Conns : conns[c].autocommit
    /\ job.last <= opened
    /\ job.pc = "wait" => conns[job.conn].thread = job.last
    /\ job.errors = 0 /\ "scattered" \notin gaps =>
         /\ job.last = 0 => job.at = 1
         /\ Done("insert") =>
              \/ "row" \in saved
              \/ \A c \in Conns : conns[c].thread = job.last => "row" \in conns[c].pending
         /\ Done("insert") /\ input.script = Locked => "row" \in saved
         /\ Done("commit") => "row" \in saved

IInv == /\ TypeOK /\ StepInv /\ PoolInv /\ ThreadInv /\ ChecksInv /\ RefusedInv
        /\ FileInv /\ PartInv /\ FinalInv /\ ImportInv

----------
(* Queues. *)

LEMMA QueueTail ==
  ASSUME NEW S, NEW q \in Seq(S), q # <<>>, NoDup(q)
  PROVE  /\ Head(q) \in S /\ Head(q) \in Standing(q)
         /\ Tail(q) \in Seq(S) /\ NoDup(Tail(q))
         /\ Standing(Tail(q)) = Standing(q) \ {Head(q)}
<1>1. /\ Len(q) \in Nat /\ Len(q) >= 1 /\ Head(q) = q[1] /\ Head(q) \in S
      /\ Tail(q) \in Seq(S) /\ Len(Tail(q)) = Len(q) - 1
      /\ \A i \in 1 .. Len(Tail(q)) : Tail(q)[i] = q[i + 1]
  OBVIOUS
<1>2. NoDup(Tail(q))
  BY <1>1 DEF NoDup
<1>3. Standing(Tail(q)) \subseteq Standing(q) \ {Head(q)}
  BY <1>1 DEF Standing, NoDup
<1>4. ASSUME NEW i \in 1 .. Len(q), q[i] # q[1]
      PROVE  q[i] \in Standing(Tail(q))
  <2>1. i - 1 \in 1 .. Len(Tail(q)) /\ Tail(q)[i - 1] = q[i]
    BY <1>1, <1>4
  <2> QED BY <2>1 DEF Standing
<1>5. Standing(q) \ {Head(q)} \subseteq Standing(Tail(q))
  BY <1>1, <1>4 DEF Standing
<1> QED BY <1>1, <1>2, <1>3, <1>5 DEF Standing

LEMMA QueueAppend ==
  ASSUME NEW S, NEW q \in Seq(S), NEW c \in S, NoDup(q), c \notin Standing(q)
  PROVE  /\ Append(q, c) \in Seq(S) /\ NoDup(Append(q, c))
         /\ Standing(Append(q, c)) = Standing(q) \cup {c}
<1>1. /\ Append(q, c) \in Seq(S) /\ Len(Append(q, c)) = Len(q) + 1 /\ Len(q) \in Nat
      /\ \A i \in 1 .. Len(q) : Append(q, c)[i] = q[i]
      /\ Append(q, c)[Len(q) + 1] = c
  OBVIOUS
<1>2. NoDup(Append(q, c))
  BY <1>1 DEF NoDup, Standing
<1>3. Standing(Append(q, c)) = Standing(q) \cup {c}
  <2>1. Standing(Append(q, c)) \subseteq Standing(q) \cup {c}
    BY <1>1 DEF Standing
  <2>2. Standing(q) \subseteq Standing(Append(q, c))
    BY <1>1 DEF Standing
  <2>3. c \in Standing(Append(q, c))
    BY <1>1 DEF Standing
  <2> QED BY <2>1, <2>2, <2>3
<1> QED BY <1>1, <1>2, <1>3

LEMMA StandingIn ==
  ASSUME NEW S, NEW q \in Seq(S)
  PROVE  Standing(q) \subseteq S
BY DEF Standing

----------
(* The pool. *)

\* A session that stays, closes, or is opened: all a task does to those it does not own.
Kept(c)   == /\ conns'[c].thread = conns[c].thread /\ conns'[c].checks = conns[c].checks
             /\ conns'[c].autocommit = conns[c].autocommit
             /\ conns[c].pending \subseteq conns'[c].pending
Opened(c) == conns[c].thread = 0 /\ opened' = opened + 1 /\ conns'[c] = Fresh(opened + 1)

PoolTypeOK == /\ conns \in [Conns -> SessionType] /\ idle \in Seq(Conns)
              /\ free \subseteq Conns /\ opened \in Nat

LEMMA FreshType == ASSUME NEW n \in Nat PROVE Fresh(n) \in SessionType
BY DEF Fresh, SessionType

\* What taking a connection from the pool does.
LEMMA TakeFacts ==
  ASSUME PoolTypeOK, NEW hs \in SUBSET Conns, PoolOK(hs, idle, free, conns, opened),
         NEW c \in Conns, Take(c)
  PROVE  /\ conns' \in [Conns -> SessionType] /\ idle' \in Seq(Conns)
         /\ opened' \in Nat /\ opened' >= opened
         /\ c \notin hs /\ c \notin free /\ c \notin Standing(idle')
         /\ conns'[c].thread # 0
         /\ conns'[c] = conns[c] \/ Opened(c)
         /\ \A d \in Conns : d # c => conns'[d] = conns[d]
         /\ PoolOK(hs \cup {c}, idle', free, conns', opened')
<1>1. CASE idle # <<>> /\ c = Head(idle) /\ idle' = Tail(idle) /\ UNCHANGED <<conns, opened>>
  <2>1. NoDup(idle)
    BY DEF PoolOK
  <2>2. /\ c \in Standing(idle) /\ idle' \in Seq(Conns) /\ NoDup(idle')
        /\ Standing(idle') = Standing(idle) \ {c}
    BY <1>1, <2>1, QueueTail DEF PoolTypeOK
  <2>3. PoolOK(hs \cup {c}, idle', free, conns, opened)
    BY <2>2 DEF PoolOK
  <2> QED BY <1>1, <2>2, <2>3 DEF PoolOK, PoolTypeOK
<1>2. CASE /\ idle = <<>> /\ conns[c].thread = 0
           /\ opened' = opened + 1 /\ conns' = [conns EXCEPT ![c] = Fresh(opened + 1)]
           /\ UNCHANGED idle
  <2>1. /\ Fresh(opened + 1) \in SessionType /\ Fresh(opened + 1).thread = opened + 1
        /\ conns' \in [Conns -> SessionType] /\ conns'[c] = Fresh(opened + 1)
        /\ \A d \in Conns : d # c => conns'[d] = conns[d]
    BY <1>2, FreshType DEF PoolTypeOK, Fresh
  <2>2. c \notin hs \cup free \cup Standing(idle)
    BY <1>2 DEF PoolOK
  <2>3. \A d \in Conns : conns[d].thread \in Nat /\ conns[d].thread <= opened
    BY DEF PoolOK, PoolTypeOK, SessionType
  <2>4. PoolOK(hs \cup {c}, idle', free, conns', opened')
    <3>1. \A d \in Conns : conns'[d].thread <= opened'
      BY <1>2, <2>1, <2>3 DEF PoolTypeOK
    <3>2. \A d, e \in Conns : conns'[d].thread = conns'[e].thread /\ d # e => conns'[d].thread = 0
      BY <1>2, <2>1, <2>3 DEF PoolOK, PoolTypeOK
    <3>3. \A d \in Standing(idle') \cup free \cup hs \cup {c} : conns'[d].thread # 0
      BY <1>2, <2>1, <2>2, StandingIn DEF PoolOK, PoolTypeOK
    <3> QED BY <1>2, <2>2, <3>1, <3>2, <3>3 DEF PoolOK
  <2> QED BY <1>2, <2>1, <2>2, <2>4 DEF PoolTypeOK, Opened
<1> QED BY <1>1, <1>2 DEF Take

\* A held connection goes back: its session may have changed, its thread has not.
LEMMA ReleaseFacts ==
  ASSUME PoolTypeOK, NEW hs \in SUBSET Conns, PoolOK(hs, idle, free, conns, opened),
         NEW c \in hs, conns' \in [Conns -> SessionType],
         \A d \in Conns : conns'[d].thread = conns[d].thread
  PROVE  /\ PoolOK(hs \ {c}, idle, free \cup {c}, conns', opened)
         /\ PoolOK(hs, idle, free, conns', opened)
<1>1. \A d \in Standing(idle) \cup free \cup hs : conns'[d].thread # 0
  BY StandingIn DEF PoolOK, PoolTypeOK
<1>2. \A d, e \in Conns : conns'[d].thread = conns'[e].thread /\ d # e => conns'[d].thread = 0
  BY DEF PoolOK
<1> QED BY <1>1, <1>2 DEF PoolOK

LEMMA DiscardFacts ==
  ASSUME PoolTypeOK, NEW hs \in SUBSET Conns, PoolOK(hs, idle, free, conns, opened),
         NEW c \in hs, conns' = [conns EXCEPT ![c] = Fresh(0)]
  PROVE  /\ conns' \in [Conns -> SessionType] /\ conns'[c] = Fresh(0)
         /\ \A d \in Conns : d # c => conns'[d] = conns[d]
         /\ PoolOK(hs \ {c}, idle, free, conns', opened)
<1>1. /\ Fresh(0) \in SessionType /\ Fresh(0).thread = 0
      /\ conns' \in [Conns -> SessionType] /\ conns'[c] = Fresh(0)
      /\ \A d \in Conns : d # c => conns'[d] = conns[d]
  BY FreshType DEF PoolTypeOK, Fresh
<1>2. \A d \in Conns : conns'[d].thread <= opened
  BY <1>1 DEF PoolOK, PoolTypeOK
<1>3. \A d, e \in Conns : conns'[d].thread = conns'[e].thread /\ d # e => conns'[d].thread = 0
  BY <1>1 DEF PoolOK
<1>4. \A d \in Standing(idle) \cup free \cup (hs \ {c}) : conns'[d].thread # 0
  BY <1>1, StandingIn DEF PoolOK, PoolTypeOK
<1> QED BY <1>1, <1>2, <1>3, <1>4 DEF PoolOK

----------
(* Steps of others: the edit, the dialog, and connections on their way. *)

SameJob ==
  /\ \A f \in {"kind", "pc", "at", "conn", "status", "mysql_thread_id", "result", "errors", "last"} :
       job'[f] = job[f]
  /\ job.cancel_requested => job'.cancel_requested

Passive(c) == Kept(c) \/ (c # job.conn /\ (conns'[c] = Fresh(0) \/ Opened(c)))

LEMMA FreshFields ==
  ASSUME NEW n
  PROVE  /\ Fresh(n).thread = n /\ Fresh(n).autocommit /\ Fresh(n).checks
         /\ Fresh(n).pending = {} /\ ~Fresh(n).lock
BY DEF Fresh

LEMMA OthersPreserve ==
  ASSUME IInv, SameJob, UNCHANGED <<input, output>>, \A c \in Conns : Passive(c),
         opened' \in Nat, opened' >= opened, saved \subseteq saved', gaps \subseteq gaps',
         gaps' \subseteq gaps \cup OtherGaps
  PROVE  ThreadInv' /\ ChecksInv' /\ RefusedInv' /\ FileInv' /\ PartInv' /\ FinalInv' /\ ImportInv'
<1> USE FreshFields DEF Passive, Kept, Opened
<1>0. job.conn \in Conns \cup {0} /\ job.last \in Nat /\ opened \in Nat
  BY BoundsAssumption DEF IInv, TypeOK, JobType, Conns
<1>1. ThreadInv'
  <2>1. job.conn # 0 => conns'[job.conn].thread = conns[job.conn].thread
    BY <1>0
  <2>2. job.pc \in {"first", "stream"} => job.conn # 0
    BY DEF IInv, StepInv, ConnSteps
  <2> QED BY <2>1, <2>2 DEF IInv, ThreadInv, SameJob
<1>2. ChecksInv' /\ RefusedInv'
  BY DEF IInv, ChecksInv, RefusedInv, OtherGaps, SameJob
<1>3. FileInv'
  BY DEF IInv, FileInv, SameJob
<1>4. PartInv'
  BY DEF IInv, PartInv, SameJob, Whole
<1>5. FinalInv'
  BY DEF IInv, FinalInv, SameJob
<1>6. ImportInv'
  <2> SUFFICES ASSUME job.kind = "import"
               PROVE  ImportInv'
    BY DEF ImportInv, SameJob
  <2>1. /\ \A s : Done(s)' <=> Done(s)
        /\ job.pc = "wait" => job.conn # 0
    BY DEF Done, SameJob, IInv, StepInv, ConnSteps
  <2>2. job.pc = "wait" => conns'[job.conn].thread = conns[job.conn].thread
    BY <1>0, <2>1
  <2>3. input.script = Locked => \A c \in Conns : conns'[c].autocommit
    BY DEF IInv, ImportInv
  <2>4. ASSUME job.errors = 0, "scattered" \notin gaps', Done("insert"), "row" \notin saved',
               NEW c \in Conns, conns'[c].thread = job.last
        PROVE  "row" \in conns'[c].pending
    <3>1. job.last # 0
      BY <2>4 DEF IInv, ImportInv, Done
    <3>2. job.last <= opened
      BY DEF IInv, ImportInv
    <3>3. Kept(c)
      BY <1>0, <2>4, <3>1, <3>2
    <3>4. "row" \in conns[c].pending
      BY <2>4, <3>3 DEF IInv, ImportInv
    <3> QED BY <3>3, <3>4
  <2>5. job.last <= opened'
    BY <1>0 DEF IInv, ImportInv
  <2>6. /\ job'.kind = "import" /\ job'.pc = job.pc /\ job'.at = job.at /\ job'.conn = job.conn
        /\ job'.status = job.status /\ job'.errors = job.errors /\ job'.last = job.last
        /\ input' = input
    BY DEF SameJob
  <2>7. /\ job.at \in 1 .. Len(input.script) + 1
        /\ job.pc \in {"send", "wait"} => job.at <= Len(input.script)
        /\ job.status = "Completed" => job.at = Len(input.script) + 1
        /\ input.stop /\ job.errors # 0 => job.status = "Failed"
        /\ job.pc = "wait" => conns[job.conn].thread = job.last
        /\ job.errors = 0 /\ "scattered" \notin gaps =>
             /\ job.last = 0 => job.at = 1
             /\ Done("insert") /\ input.script = Locked => "row" \in saved
             /\ Done("commit") => "row" \in saved
    BY DEF IInv, ImportInv
  <2> QED BY <2>1, <2>2, <2>3, <2>4, <2>5, <2>6, <2>7 DEF ImportInv
<1> QED BY <1>1, <1>2, <1>3, <1>4, <1>5, <1>6

LEMMA HeldFacts ==
  ASSUME IInv
  PROVE  /\ PoolTypeOK /\ Held \in SUBSET Conns /\ PoolOK(Held, idle, free, conns, opened)
         /\ job.conn \in Conns \cup {0} /\ edit.conn \in Conns \cup {0} /\ 0 \notin Conns
         /\ job.conn # 0 => job.conn \in Held /\ job.conn # edit.conn
         /\ edit.conn # 0 => edit.conn \in Held
BY SMTT(25), BoundsAssumption DEF IInv, TypeOK, JobType, EditType, Conns, Held, PoolInv, PoolTypeOK

\* A connection that goes back as it was, but for what ran on it.
LEMMA GiveBackFacts ==
  ASSUME PoolTypeOK, NEW c \in Conns, GiveBack(c)
  PROVE  /\ conns' \in [Conns -> SessionType] /\ \A d \in Conns : Kept(d)
         /\ \A d \in Conns : d # c => conns'[d] = conns[d]
         /\ free' = free \cup {c} /\ UNCHANGED <<idle, opened>>
BY DEF GiveBack, PoolTypeOK, SessionType, Kept

LEMMA EditStartsPreserves ==
  ASSUME IInv, EditStarts
  PROVE  IInv'
<1>1. PICK c \in Conns : Acquire(c) /\ edit' = [edit EXCEPT !.pc = "running", !.conn = c]
  BY DEF EditStarts
<1>2. /\ edit.pc = "idle" /\ edit.number < MaxEdits
      /\ UNCHANGED <<job, input, output, cancel, dialog, poll, saved, faults, gaps>>
      /\ Take(c) /\ UNCHANGED free
  BY <1>1 DEF EditStarts, Acquire
<1>3. edit.conn = 0
  BY <1>2 DEF IInv, StepInv
<1>4. /\ conns' \in [Conns -> SessionType] /\ idle' \in Seq(Conns)
      /\ opened' \in Nat /\ opened' >= opened /\ c \notin Held
      /\ conns'[c] = conns[c] \/ Opened(c)
      /\ \A d \in Conns : d # c => conns'[d] = conns[d]
      /\ PoolOK(Held \cup {c}, idle', free, conns', opened')
  BY <1>2, HeldFacts, TakeFacts
<1>5. /\ edit' \in EditType /\ edit'.conn = c /\ edit'.pc = "running"
      /\ edit'.number = edit.number
  <2>1. edit \in EditType
    BY DEF IInv, TypeOK
  <2>2. c \in 0 .. PoolSize
    BY BoundsAssumption DEF Conns
  <2>3. edit' = [edit EXCEPT !.pc = "running", !.conn = c]
    BY <1>1
  <2> QED BY <2>1, <2>2, <2>3 DEF EditType
<1>6. TypeOK'
  BY <1>2, <1>4, <1>5 DEF IInv, TypeOK
<1>7. StepInv'
  BY <1>2, <1>5, HeldFacts DEF IInv, StepInv
<1>8. PoolInv'
  <2>1. Held' = Held \cup {c} /\ (job.conn # 0 => job.conn # c)
    BY <1>2, <1>3, <1>4, <1>5, HeldFacts DEF Held
  <2> QED BY <1>2, <1>4, <1>5, <2>1 DEF PoolInv
<1>9. \A d \in Conns : Passive(d)
  BY <1>4, HeldFacts DEF Passive, Kept
<1>10. ThreadInv' /\ ChecksInv' /\ RefusedInv' /\ FileInv' /\ PartInv' /\ FinalInv' /\ ImportInv'
  BY <1>2, <1>4, <1>9, OthersPreserve DEF SameJob
<1> QED BY <1>6, <1>7, <1>8, <1>10 DEF IInv

LEMMA EditEndPreserves ==
  ASSUME IInv, EditSucceeds \/ EditFails
  PROVE  IInv'
<1> DEFINE c == edit.conn
<1>1. PICK reply \in {"ok", "error"} : EditEnds(reply)
  BY DEF EditSucceeds, EditFails
<1>2. /\ edit.pc = "running" /\ c \in Conns /\ c \in Held /\ job.conn # c
      /\ UNCHANGED <<job, input, output, cancel, dialog, poll, gaps>>
  BY HeldFacts DEF EditSucceeds, EditFails, IInv, StepInv
<1>3. /\ conns' \in [Conns -> SessionType] /\ idle' = idle /\ opened' = opened
      /\ free' \subseteq Conns
      /\ \A d \in Conns : Passive(d)
      /\ PoolOK(Held \ {c}, idle', free', conns', opened')
  <2>1. CASE EditSucceeds
    <3>1. /\ conns' = [conns EXCEPT ![c].pending =
                         IF conns[c].autocommit THEN @ ELSE @ \cup {"edit"}]
          /\ free' = free \cup {c} /\ UNCHANGED <<idle, opened>>
      BY <2>1 DEF EditSucceeds
    <3>2. /\ conns[c] \in SessionType /\ conns'[c].pending \in SUBSET {"row", "edit"}
          /\ conns' = [conns EXCEPT ![c].pending = conns'[c].pending]
          /\ conns[c].pending \subseteq conns'[c].pending
      BY ZenonT(40), <1>2, <3>1, HeldFacts DEF PoolTypeOK, SessionType
    <3>3. conns' \in [Conns -> SessionType] /\ \A d \in Conns : Kept(d)
      BY SMTT(25), <1>2, <3>2, HeldFacts DEF PoolTypeOK, SessionType, Kept
    <3>4. \A d \in Conns : conns'[d].thread = conns[d].thread
      BY <3>3 DEF Kept
    <3>5. PoolOK(Held \ {c}, idle, free \cup {c}, conns', opened)
      BY <1>2, <3>3, <3>4, HeldFacts, ReleaseFacts
    <3> QED BY <1>2, <3>1, <3>3, <3>5, HeldFacts DEF Passive, PoolTypeOK
  <2>2. CASE GiveBack(c)
    <3>1. /\ conns' \in [Conns -> SessionType] /\ \A d \in Conns : Kept(d)
          /\ free' = free \cup {c} /\ UNCHANGED <<idle, opened>>
      BY <1>2, <2>2, HeldFacts, GiveBackFacts
    <3>2. \A d \in Conns : conns'[d].thread = conns[d].thread
      BY <3>1 DEF Kept
    <3>3. PoolOK(Held \ {c}, idle, free \cup {c}, conns', opened)
      BY <1>2, <3>1, <3>2, HeldFacts, ReleaseFacts
    <3> QED BY <1>2, <3>1, <3>3, HeldFacts DEF Passive, PoolTypeOK
  <2>3. CASE Discard(c)
    <3>1. conns' = [conns EXCEPT ![c] = Fresh(0)] /\ UNCHANGED <<idle, free, opened>>
      BY <2>3 DEF Discard
    <3> QED BY <1>2, <3>1, HeldFacts, DiscardFacts DEF Passive, Kept, PoolTypeOK
  <2> QED BY <2>1, <2>2, <2>3 DEF EditFails, EditSucceeds, Fails
<1>4. edit.number < MaxEdits /\ saved \subseteq saved' /\ saved' \subseteq {"row", "edit"}
  BY <1>2 DEF EditSucceeds, EditFails, IInv, StepInv, TypeOK
<1>5. faults' \in 0 .. MaxFaults
  BY BoundsAssumption DEF EditSucceeds, EditFails, Succeeds, Fails, Fault, IInv, TypeOK
<1>6. edit' \in EditType /\ edit'.conn = 0 /\ edit'.pc = "idle"
  <2>1. edit \in EditType
    BY DEF IInv, TypeOK
  <2> QED BY <1>1, <1>4, <2>1, BoundsAssumption DEF EditType, EditEnds
<1>7. TypeOK'
  BY <1>2, <1>3, <1>4, <1>5, <1>6 DEF IInv, TypeOK
<1>8. StepInv'
  BY <1>2, <1>6 DEF IInv, StepInv
<1>9. PoolInv'
  <2>1. Held' = Held \ {c}
    BY <1>2, <1>6 DEF Held
  <2> QED BY <1>2, <1>3, <1>6, <2>1 DEF PoolInv
<1>10. ThreadInv' /\ ChecksInv' /\ RefusedInv' /\ FileInv' /\ PartInv' /\ FinalInv' /\ ImportInv'
  BY <1>2, <1>3, <1>4, OthersPreserve DEF SameJob, IInv, TypeOK
<1> QED BY <1>7, <1>8, <1>9, <1>10 DEF IInv

LEMMA ReturnedPreserves ==
  ASSUME IInv, NEW c \in Conns, Returned(c)
  PROVE  IInv'
<1>1. /\ c \in free /\ free' = free \ {c} /\ idle' = Append(idle, c)
      /\ UNCHANGED <<job, input, output, conns, opened, user, saved, faults, gaps>>
  BY DEF Returned
<1>2. /\ idle' \in Seq(Conns) /\ NoDup(idle')
      /\ Standing(idle') = Standing(idle) \cup {c}
  BY <1>1, HeldFacts, QueueAppend DEF PoolTypeOK, PoolOK
<1>3. TypeOK'
  BY <1>1, <1>2 DEF IInv, TypeOK, user
<1>4. StepInv'
  BY <1>1 DEF IInv, StepInv, user
<1>5. PoolInv'
  <2>1. PoolOK(Held, idle', free', conns, opened)
    BY <1>1, <1>2, HeldFacts DEF PoolOK
  <2>2. Held' = Held /\ UNCHANGED <<conns, opened, job, edit>>
    BY <1>1 DEF Held, user
  <2> QED BY <2>1, <2>2 DEF IInv, PoolInv
<1>6. ThreadInv' /\ ChecksInv' /\ RefusedInv' /\ FileInv' /\ PartInv' /\ FinalInv' /\ ImportInv'
  BY <1>1, OthersPreserve DEF SameJob, Passive, Kept, IInv, TypeOK
<1> QED BY <1>3, <1>4, <1>5, <1>6 DEF IInv

LEMMA DialogPreserves ==
  ASSUME IInv, CancelPressed \/ CancelRechecks \/ KillArrives \/ Sleep \/ GetProgress
               \/ ProgressReply
  PROVE  IInv'
<1>1. /\ UNCHANGED <<input, output, idle, free, opened, edit, saved, faults>>
      /\ gaps \subseteq gaps' /\ gaps' \subseteq gaps \cup {"slept"}
  BY DEF CancelPressed, CancelRechecks, KillArrives, Sleep, GetProgress, ProgressReply, pool, user
<1>2. SameJob /\ job' \in JobType
  BY ZenonT(40) DEF CancelPressed, CancelRechecks, KillArrives, Sleep, GetProgress, ProgressReply,
         SameJob, IInv, TypeOK, JobType
<1>3. conns' \in [Conns -> SessionType] /\ \A c \in Conns : Kept(c)
  <2>1. CASE KillArrives
    <3>1. /\ DOMAIN conns' = Conns /\ conns' = [c \in Conns |-> conns'[c]]
          /\ \A c \in Conns : conns'[c] \in {conns[c], [conns[c] EXCEPT !.killed = TRUE]}
      BY <2>1 DEF KillArrives
    <3>2. ASSUME NEW c \in Conns
          PROVE  conns'[c] \in SessionType /\ Kept(c)
      <4>1. conns[c] \in SessionType
        BY HeldFacts DEF PoolTypeOK
      <4>2. CASE conns'[c] = conns[c]
        BY <4>1, <4>2 DEF Kept
      <4>3. CASE conns'[c] = [conns[c] EXCEPT !.killed = TRUE]
        BY <4>1, <4>3 DEF Kept, SessionType
      <4> QED BY <3>1, <4>2, <4>3
    <3> QED BY <3>1, <3>2
  <2>2. CASE UNCHANGED conns
    BY <2>2 DEF Kept, IInv, TypeOK
  <2> QED BY <2>1, <2>2 DEF CancelPressed, CancelRechecks, Sleep, GetProgress, ProgressReply, pool
<1>4. cancel' \in [pc : {"none", "read", "kill"}, thread : Nat]
  BY DEF CancelPressed, CancelRechecks, KillArrives, Sleep, GetProgress, ProgressReply, user,
         IInv, TypeOK, JobType
<1>5. dialog' \in DialogType
  <2>1. dialog \in DialogType
    BY DEF IInv, TypeOK
  <2>2. CASE CancelPressed
    BY <2>1, <2>2 DEF CancelPressed, DialogType
  <2>3. CASE ProgressReply
    BY <2>1, <2>3 DEF ProgressReply, DialogType
  <2> QED BY <2>1, <2>2, <2>3 DEF CancelRechecks, KillArrives, Sleep, GetProgress, user
<1>6. poll' \in {"none", "missing"} \cup Statuses
  BY DEF CancelPressed, CancelRechecks, KillArrives, Sleep, GetProgress, ProgressReply, user,
         IInv, TypeOK, JobType
<1>7. TypeOK'
  BY <1>1, <1>2, <1>3, <1>4, <1>5, <1>6 DEF IInv, TypeOK, Gaps
<1>8. StepInv'
  BY <1>1, <1>2 DEF IInv, StepInv, SameJob
<1>9. PoolInv'
  <2>1. PoolOK(Held, idle, free, conns', opened)
    <3>1. \A c \in Conns : conns'[c].thread = conns[c].thread
      BY <1>3 DEF Kept
    <3>2. \A c \in Standing(idle) \cup free \cup Held : c \in Conns
      BY HeldFacts, StandingIn DEF PoolTypeOK
    <3> QED BY <3>1, <3>2, HeldFacts DEF PoolOK
  <2>2. Held' = Held /\ job'.conn = job.conn
    BY <1>1, <1>2 DEF Held, SameJob
  <2> QED BY <1>1, <2>1, <2>2 DEF IInv, PoolInv
<1>10. ThreadInv' /\ ChecksInv' /\ RefusedInv' /\ FileInv' /\ PartInv' /\ FinalInv' /\ ImportInv'
  <2>1. gaps' \subseteq gaps \cup OtherGaps
    BY <1>1 DEF Gaps, OtherGaps
  <2> QED BY <1>1, <1>2, <1>3, <2>1, OthersPreserve DEF Passive, IInv, TypeOK
<1> QED BY <1>7, <1>8, <1>9, <1>10 DEF IInv

----------
(* Steps of the job. *)

\* How a job's step may use the pool: not at all, for one statement, to take a
\* connection, or to part with the one it has.
Moves ==
  \/ UNCHANGED pool /\ job'.conn = job.conn
  \/ Passing /\ job'.conn = job.conn
  \/ \E c \in Conns : Acquire(c) /\ job.conn = 0 /\ job'.conn = c
  \/ job.conn # 0 /\ job'.conn = 0 /\ (GiveBack(job.conn) \/ Discard(job.conn))

\* What the pool is after it: still in order, no check turned off.
PoolKept ==
  /\ conns' \in [Conns -> SessionType] /\ idle' \in Seq(Conns)
  /\ free' \subseteq Conns /\ opened' \in Nat /\ opened' >= opened
  /\ PoolInv'

LEMMA MovesFacts ==
  ASSUME IInv, Moves, UNCHANGED user
  PROVE  /\ PoolKept
         /\ \A c \in Conns : conns[c].checks => conns'[c].checks
         /\ job'.conn = job.conn /\ job.conn # 0 => conns'[job.conn] = conns[job.conn]
<1> USE HeldFacts
<1>0. UNCHANGED edit
  BY DEF user
<1>1. CASE UNCHANGED pool /\ job'.conn = job.conn
  BY <1>0, <1>1 DEF pool, PoolKept, PoolTypeOK, PoolInv, Held, IInv
<1>2. CASE Passing /\ job'.conn = job.conn
  <2>1. PICK c \in Conns : Take(c) /\ free' = free \cup {c}
    BY <1>2 DEF Passing
  <2>2. /\ conns' \in [Conns -> SessionType] /\ idle' \in Seq(Conns)
        /\ opened' \in Nat /\ opened' >= opened
        /\ c \notin Held /\ c \notin free /\ c \notin Standing(idle')
        /\ conns'[c].thread # 0
        /\ conns'[c] = conns[c] \/ Opened(c)
        /\ \A d \in Conns : d # c => conns'[d] = conns[d]
        /\ PoolOK(Held \cup {c}, idle', free, conns', opened')
    BY <2>1, TakeFacts
  <2>3. PoolOK(Held, idle', free \cup {c}, conns', opened')
    BY <2>2 DEF PoolOK
  <2>4. Held' = Held
    BY <1>0, <1>2 DEF Held
  <2> QED BY <1>0, <1>2, <2>1, <2>2, <2>3, <2>4, FreshFields
          DEF PoolKept, PoolInv, PoolTypeOK, Opened
<1>3. CASE \E c \in Conns : Acquire(c) /\ job.conn = 0 /\ job'.conn = c
  <2>1. PICK c \in Conns : Take(c) /\ UNCHANGED free /\ job.conn = 0 /\ job'.conn = c
    BY <1>3 DEF Acquire
  <2>2. /\ conns' \in [Conns -> SessionType] /\ idle' \in Seq(Conns)
        /\ opened' \in Nat /\ opened' >= opened
        /\ c \notin Held
        /\ conns'[c] = conns[c] \/ Opened(c)
        /\ \A d \in Conns : d # c => conns'[d] = conns[d]
        /\ PoolOK(Held \cup {c}, idle', free, conns', opened')
    BY <2>1, TakeFacts
  <2>3. Held' = Held \cup {c} /\ c # edit.conn
    BY <1>0, <2>1, <2>2 DEF Held
  <2> QED BY <1>0, <2>1, <2>2, <2>3, FreshFields DEF PoolKept, PoolInv, PoolTypeOK, Opened
<1>4. CASE job.conn # 0 /\ job'.conn = 0 /\ GiveBack(job.conn)
  <2>1. /\ conns' \in [Conns -> SessionType] /\ \A d \in Conns : Kept(d)
        /\ free' = free \cup {job.conn} /\ UNCHANGED <<idle, opened>>
    BY <1>4, GiveBackFacts
  <2>2. \A d \in Conns : conns'[d].thread = conns[d].thread
    BY <2>1 DEF Kept
  <2>3. PoolOK(Held \ {job.conn}, idle, free \cup {job.conn}, conns', opened)
    BY <1>4, <2>1, <2>2, ReleaseFacts
  <2>4. Held' = Held \ {job.conn}
    BY <1>0, <1>4 DEF Held
  <2> QED BY <1>0, <1>4, <2>1, <2>3, <2>4 DEF PoolKept, PoolInv, PoolTypeOK, Kept
<1>5. CASE job.conn # 0 /\ job'.conn = 0 /\ Discard(job.conn)
  <2>1. conns' = [conns EXCEPT ![job.conn] = Fresh(0)] /\ UNCHANGED <<idle, free, opened>>
    BY <1>5 DEF Discard
  <2>2. /\ conns' \in [Conns -> SessionType] /\ conns'[job.conn] = Fresh(0)
        /\ \A d \in Conns : d # job.conn => conns'[d] = conns[d]
        /\ PoolOK(Held \ {job.conn}, idle, free, conns', opened)
    BY <1>5, <2>1, DiscardFacts
  <2>3. Held' = Held \ {job.conn}
    BY <1>0, <1>5 DEF Held
  <2> QED BY <1>0, <1>5, <2>1, <2>2, <2>3, FreshFields DEF PoolKept, PoolInv, PoolTypeOK
<1> QED BY <1>1, <1>2, <1>3, <1>4, <1>5 DEF Moves

\* A statement on the job's own connection, which it may give back after it.
LEMMA OwnSessionFacts ==
  ASSUME IInv, job.conn # 0, conns' \in [Conns -> SessionType],
         \A d \in Conns : conns'[d].thread = conns[d].thread,
         UNCHANGED <<idle, opened, user>>,
         \/ UNCHANGED free /\ job'.conn = job.conn
         \/ free' = free \cup {job.conn} /\ job'.conn = 0
  PROVE  PoolKept
<1> USE HeldFacts
<1>1. /\ PoolOK(Held \ {job.conn}, idle, free \cup {job.conn}, conns', opened)
      /\ PoolOK(Held, idle, free, conns', opened)
  BY ReleaseFacts
<1>2. \/ UNCHANGED free /\ Held' = Held
      \/ free' = free \cup {job.conn} /\ Held' = Held \ {job.conn}
  BY DEF Held, user
<1>3. PoolOK(Held', idle', free', conns', opened')
  BY <1>1, <1>2
<1>4. /\ idle' \in Seq(Conns) /\ free' \subseteq Conns /\ opened' \in Nat /\ opened' >= opened
      /\ job'.conn # 0 => job'.conn # edit'.conn
  BY DEF PoolTypeOK, user
<1> QED BY <1>3, <1>4 DEF PoolKept, PoolInv

LEMMA JobTypes ==
  ASSUME IInv, PoolKept, job' \in JobType, output' \in OutputType,
         saved' \subseteq saved \cup {"row", "edit"}, Fault \/ UNCHANGED faults,
         gaps' \subseteq gaps \cup Gaps, UNCHANGED <<input, user>>
  PROVE  TypeOK'
<1>1. faults' \in 0 .. MaxFaults
  BY BoundsAssumption DEF Fault, IInv, TypeOK
<1> QED BY <1>1 DEF IInv, TypeOK, PoolKept, user

SameFields ==
  /\ job'.status = job.status /\ job'.mysql_thread_id = job.mysql_thread_id
  /\ job'.result = job.result /\ job'.errors = job.errors /\ job'.last = job.last

LEMMA StartPreserves ==
  ASSUME IInv, StartJob
  PROVE  IInv'
<1> DEFINE first == FirstStep[job.kind]
<1>1. /\ job.pc = "none" /\ job' = [job EXCEPT !.pc = first]
      /\ UNCHANGED <<input, output, pool, edit, cancel, poll, saved, faults, gaps>>
      /\ dialog' = [dialog EXCEPT !.busy = TRUE, !.polling = TRUE]
  BY DEF StartJob
<1>2. job \in JobType /\ job.kind \in {"dump", "import", "copy"} /\ job.conn = 0
  BY <1>1, KindsAssumption DEF IInv, TypeOK, JobType, StepInv, ConnSteps
<1>3. /\ job.kind = "dump" => first = "version"
      /\ job.kind = "copy" => first = "pin"
      /\ job.kind = "import" => first = "read"
  BY DEF FirstStep
<1>4. /\ job' \in JobType /\ job'.pc = first /\ SameFields
      /\ job'.kind = job.kind /\ job'.at = job.at /\ job'.conn = 0
  BY <1>1, <1>2, <1>3 DEF JobType, SameFields, Steps, DumpSteps, CopySteps, ImportSteps
<1>5. TypeOK'
  <2>1. dialog' \in DialogType
    BY <1>1 DEF IInv, TypeOK, DialogType
  <2> QED BY <1>1, <1>4, <2>1 DEF IInv, TypeOK, pool
<1>6. StepInv'
  BY <1>1, <1>2, <1>3, <1>4 DEF IInv, StepInv, ConnSteps, DumpSteps, CopySteps, ImportSteps
<1>7. PoolInv'
  BY <1>1, <1>2, <1>4 DEF IInv, PoolInv, Held, pool
<1>8. ThreadInv' /\ ChecksInv' /\ RefusedInv' /\ FileInv' /\ FinalInv'
  BY <1>1, <1>2, <1>3, <1>4
     DEF IInv, ThreadInv, ChecksInv, RefusedInv, OffSteps, FileInv, FinalInv, pool, SameFields
<1>9. PartInv'
  BY <1>1, <1>2, <1>3, <1>4
     DEF IInv, PartInv, SameFields, DumpSteps, CopySteps, Whole
<1>10. ImportInv'
  <2> SUFFICES ASSUME job.kind = "import"
               PROVE  ImportInv'
    BY <1>4 DEF ImportInv
  <2>1. \A s : Done(s)' <=> Done(s)
    BY <1>1, <1>4 DEF Done
  <2> QED BY <1>1, <1>2, <1>3, <1>4, <2>1 DEF IInv, ImportInv, SameFields, pool
<1> QED BY <1>5, <1>6, <1>7, <1>8, <1>9, <1>10 DEF IInv

----------
(* The dump. *)

\* What every step of a dump keeps.
DumpFrame ==
  /\ job.kind = "dump" /\ job'.kind = "dump" /\ Moves
  /\ UNCHANGED <<input, user, saved>> /\ (Fault \/ UNCHANGED faults)
  /\ gaps \subseteq gaps' /\ gaps' \subseteq gaps \cup OtherGaps
  /\ job' \in JobType /\ output' \in OutputType
  /\ job'.pc \in DumpSteps \cup {"status", "ended"}
  /\ job'.pc \in {"connid", "first", "stream"} <=> job'.conn # 0

LEMMA DumpPreserves ==
  ASSUME IInv, DumpFrame, ThreadInv', FileInv', PartInv', FinalInv'
  PROVE  IInv'
<1>1. /\ PoolKept
      /\ \A c \in Conns : conns[c].checks => conns'[c].checks
  BY MovesFacts DEF DumpFrame
<1>2. TypeOK'
  BY <1>1, JobTypes DEF DumpFrame, OtherGaps
<1>3. StepInv'
  BY DEF DumpFrame, IInv, StepInv, user, ConnSteps, DumpSteps, CopySteps, ImportSteps
<1>4. ChecksInv' /\ RefusedInv'
  <2>1. \A c \in Conns : conns[c].checks
    BY DEF IInv, ChecksInv, RefusedInv, OffSteps, StepInv, CopySteps, DumpFrame
  <2>2. "unrestored" \notin gaps'
    BY DEF IInv, RefusedInv, OtherGaps, DumpFrame
  <2> QED BY <1>1, <2>1, <2>2 DEF ChecksInv, RefusedInv
<1>5. ImportInv'
  BY DEF DumpFrame, ImportInv
<1> QED BY <1>1, <1>2, <1>3, <1>4, <1>5 DEF IInv, PoolKept

\* What is known of a dump before a step of it.
LEMMA DumpBefore ==
  ASSUME IInv, job.pc \in DumpSteps \cup {"status"}, job.pc = "status" => job.kind = "dump"
  PROVE  /\ job \in JobType /\ output \in OutputType /\ job.kind = "dump"
         /\ job.at \in Tables /\ LastTable \in Nat
         /\ job.status = "Running"
         /\ job.pc \in {"connid", "first", "stream"} <=> job.conn # 0
         /\ job.pc \notin {"finish", "status"} =>
              job.result = "ok" /\ \A t \in Tables : t < job.at => output.part[t] = "whole"
         /\ output.lock => job.pc = "stream"
         /\ job.pc = "version" => ~output.header
         /\ conns \in [Conns -> SessionType] /\ job.conn \in Conns \cup {0} /\ 0 \notin Conns
         /\ \A c \in Conns : conns[c].thread \in Nat
<1>1. job \in JobType /\ output \in OutputType /\ conns \in [Conns -> SessionType]
  BY DEF IInv, TypeOK
<1>2. job.kind = "dump"
  BY DEF IInv, StepInv
<1>3. /\ job.at \in Tables /\ LastTable \in Nat
      /\ job.pc \notin {"finish", "status"} =>
           job.result = "ok" /\ \A t \in Tables : t < job.at => output.part[t] = "whole"
  BY <1>2, BoundsAssumption DEF IInv, PartInv, DumpSteps
<1>4. job.status = "Running"
  BY <1>2 DEF IInv, FinalInv, DumpSteps
<1>5. job.pc \in {"connid", "first", "stream"} <=> job.conn # 0
  BY <1>2 DEF IInv, StepInv, ConnSteps, DumpSteps, CopySteps, ImportSteps
<1>6. (output.lock => job.pc = "stream") /\ (job.pc = "version" => ~output.header)
  BY DEF IInv, FileInv
<1>7. \A c \in Conns : conns[c].thread \in Nat
  BY <1>1 DEF SessionType
<1> QED BY <1>1, <1>2, <1>3, <1>4, <1>5, <1>6, <1>7, HeldFacts

\* How a table's end leads on.
LEMMA NextTableFacts ==
  ASSUME NEW j \in JobType, j.at \in Tables, LastTable \in Nat, j.result = "ok",
         NEW n, n = NextTable(j)
  PROVE  /\ n \in JobType /\ n.conn = 0 /\ n.kind = j.kind /\ n.status = j.status
         /\ n.mysql_thread_id = j.mysql_thread_id
         /\ \/ n.pc = "finish" /\ n.at = j.at /\ n.result = "cancelled"
            \/ n.pc = "finish" /\ n.at = LastTable /\ j.at = LastTable /\ n.result = "ok"
            \/ n.pc = "create" /\ n.at = j.at + 1 /\ n.at \in Tables /\ n.result = "ok"
<1>1. 0 \in 0 .. PoolSize
  BY BoundsAssumption
<1>2. \/ n = [j EXCEPT !.pc = "finish", !.result = "cancelled", !.conn = 0]
      \/ n = [j EXCEPT !.pc = "finish", !.conn = 0] /\ j.at = LastTable
      \/ n = [j EXCEPT !.pc = "create", !.at = j.at + 1, !.conn = 0] /\ j.at # LastTable
  BY DEF NextTable
<1>3. CASE n = [j EXCEPT !.pc = "finish", !.result = "cancelled", !.conn = 0]
  BY <1>1, <1>3 DEF JobType, Steps, DumpSteps
<1>4. CASE n = [j EXCEPT !.pc = "finish", !.conn = 0] /\ j.at = LastTable
  BY <1>1, <1>4 DEF JobType, Steps, DumpSteps
<1>5. CASE n = [j EXCEPT !.pc = "create", !.at = j.at + 1, !.conn = 0] /\ j.at # LastTable
  <2>1. j.at + 1 \in Nat /\ j.at + 1 \in Tables
    BY <1>5 DEF Tables
  <2>2. n \in JobType /\ n.at = j.at + 1
    BY <1>1, <1>5, <2>1 DEF JobType, Steps, DumpSteps
  <2> QED BY <1>5, <2>1, <2>2 DEF JobType
<1> QED BY <1>2, <1>3, <1>4, <1>5

\* The step that ends a table, whole, and gives the connection back or never had one.
LEMMA TableEnds ==
  ASSUME IInv, DumpFrame, job.pc \in {"create", "first", "stream"},
         NEW j \in JobType, job' = NextTable(j),
         j.at = job.at, j.result = "ok", j.status = job.status, j.mysql_thread_id = 0,
         \/ output' = [output EXCEPT !.lock = FALSE, !.part[job.at] = "whole"]
         \/ output' = [output EXCEPT !.part[job.at] = "whole"] /\ job.pc # "stream"
         \/ /\ output' = [output EXCEPT !.lock = FALSE, !.part[job.at] = "part"]
            /\ job'.pc = "finish" /\ job'.result = "cancelled"
  PROVE  ThreadInv' /\ FileInv' /\ PartInv' /\ FinalInv'
<1>1. /\ output \in OutputType /\ job.kind = "dump" /\ job.at \in Tables /\ LastTable \in Nat
      /\ job.status = "Running"
      /\ \A t \in Tables : t < job.at => output.part[t] = "whole"
      /\ output.lock => job.pc = "stream"
  BY DumpBefore DEF DumpSteps
<1>2. /\ job'.conn = 0 /\ job'.status = "Running" /\ job'.mysql_thread_id = 0
      /\ job'.kind = "dump"
      /\ \/ job'.pc = "finish" /\ job'.at = job.at /\ job'.result = "cancelled"
         \/ job'.pc = "finish" /\ job'.at = LastTable /\ job.at = LastTable /\ job'.result = "ok"
         \/ job'.pc = "create" /\ job'.at = job.at + 1 /\ job'.at \in Tables /\ job'.result = "ok"
  BY <1>1, NextTableFacts DEF DumpFrame
<1>3. ~output'.lock
  BY <1>1 DEF OutputType
<1>4. job'.result = "ok" =>
        /\ output'.part[job.at] = "whole"
        /\ \A t \in Tables : t # job.at => output'.part[t] = output.part[t]
  BY <1>1 DEF OutputType
<1>5. ThreadInv' /\ FileInv' /\ FinalInv'
  BY <1>2, <1>3 DEF ThreadInv, FileInv, FinalInv
<1>6. PartInv'
  <2>1. job'.at \in Tables
    BY <1>1, <1>2
  <2>2. job'.pc = "create" => \A t \in Tables : t < job'.at => output'.part[t] = "whole"
    BY <1>1, <1>2, <1>4 DEF Tables
  <2>3. job'.pc = "finish" /\ job'.result = "ok" => Whole'
    BY <1>1, <1>2, <1>4 DEF Tables, Whole
  <2> QED BY <1>2, <2>1, <2>2, <2>3 DEF PartInv
<1> QED BY <1>5, <1>6

\* A dump that an error ends.
LEMMA DumpFailing ==
  ASSUME IInv, job.pc \in {"create", "acquire", "connid", "first", "stream"},
         \/ job' = DumpFails /\ (job.pc = "first" => gaps' = gaps \cup {"leftover"})
         \/ job' = [DumpFails EXCEPT !.mysql_thread_id = 0],
         \/ Fault /\ UNCHANGED pool /\ job.conn = 0
         \/ job.conn # 0 /\ Fails(job.conn),
         \/ UNCHANGED output /\ job.pc # "stream"
         \/ output' = [output EXCEPT !.lock = FALSE],
         job.pc = "stream" => job'.mysql_thread_id = 0,
         gaps \subseteq gaps', gaps' \subseteq gaps \cup OtherGaps, UNCHANGED <<input, user, saved>>
  PROVE  IInv'
<1>1. /\ job \in JobType /\ output \in OutputType /\ job.kind = "dump"
      /\ job.at \in Tables /\ job.status = "Running"
      /\ output.lock => job.pc = "stream"
  BY DumpBefore DEF DumpSteps
<1>2. 0 \in 0 .. PoolSize
  BY BoundsAssumption
<1>3. /\ job' \in JobType /\ job'.kind = "dump" /\ job'.pc = "finish" /\ job'.conn = 0
      /\ job'.status = "Running" /\ job'.at = job.at /\ job'.result = "err"
  <2>1. /\ DumpFails \in JobType /\ DumpFails.pc = "finish" /\ DumpFails.conn = 0
        /\ DumpFails.result = "err" /\ DumpFails.kind = job.kind
        /\ DumpFails.status = job.status /\ DumpFails.at = job.at
    BY <1>1, <1>2 DEF DumpFails, JobType, Steps, DumpSteps
  <2>2. CASE job' = DumpFails
    BY <1>1, <2>1, <2>2
  <2>3. CASE job' = [DumpFails EXCEPT !.mysql_thread_id = 0]
    BY <1>1, <2>1, <2>3 DEF JobType
  <2> QED BY <2>2, <2>3
<1>4. output' \in OutputType /\ ~output'.lock
  BY <1>1 DEF OutputType
<1>5. Moves /\ (Fault \/ UNCHANGED faults)
  BY <1>3 DEF Moves, Fails, Fault
<1>6. DumpFrame
  BY <1>1, <1>3, <1>4, <1>5 DEF DumpFrame, DumpSteps
<1>7. ThreadInv'
  <2>1. \/ job'.mysql_thread_id = 0 \/ "leftover" \in gaps'
        \/ job'.mysql_thread_id = job.mysql_thread_id /\ job.pc \notin {"first", "stream"}
    BY <1>1 DEF DumpFails, JobType
  <2> QED BY <2>1 DEF IInv, ThreadInv
<1>8. FileInv' /\ FinalInv' /\ PartInv'
  BY <1>1, <1>3, <1>4 DEF FileInv, FinalInv, PartInv, DumpSteps, CopySteps
<1> QED BY <1>6, <1>7, <1>8, DumpPreserves

LEMMA DumpServerVersionPreserves ==
  ASSUME IInv, DumpServerVersion
  PROVE  IInv'
<1>1. /\ job \in JobType /\ output \in OutputType /\ job.kind = "dump" /\ job.conn = 0
      /\ job.at \in Tables /\ job.status = "Running" /\ ~output.lock /\ ~output.header
      /\ job.result = "ok" /\ \A t \in Tables : t < job.at => output.part[t] = "whole"
      /\ input.transaction \in BOOLEAN
      /\ job.mysql_thread_id # 0 => "leftover" \in gaps
  BY DumpBefore DEF DumpServerVersion, DumpSteps, IInv, TypeOK, InputType, ThreadInv
<1>2. CASE /\ Passing /\ UNCHANGED faults
           /\ job' = [job EXCEPT !.pc = "create"]
           /\ output' = [output EXCEPT !.header = TRUE, !.transaction = input.transaction]
           /\ UNCHANGED <<input, user, saved, gaps>>
  <2>1. /\ job' \in JobType /\ SameFields /\ job'.kind = "dump" /\ job'.pc = "create"
        /\ job'.at = job.at /\ job'.conn = 0
    BY <1>1, <1>2 DEF JobType, SameFields, Steps, DumpSteps
  <2>2. /\ output' \in OutputType /\ ~output'.lock /\ output'.part = output.part
    BY <1>1, <1>2 DEF OutputType
  <2>3. DumpFrame
    BY <1>1, <1>2, <2>1, <2>2 DEF DumpFrame, Moves, DumpSteps
  <2>4. ThreadInv' /\ FileInv' /\ FinalInv' /\ PartInv'
    BY <1>1, <1>2, <2>1, <2>2
       DEF ThreadInv, FileInv, FinalInv, PartInv, DumpSteps, CopySteps, SameFields
  <2> QED BY <2>3, <2>4, DumpPreserves
<1>3. CASE /\ Fault /\ job' = [job EXCEPT !.pc = "status", !.result = "err"]
           /\ UNCHANGED <<pool, output>> /\ UNCHANGED <<input, user, saved, gaps>>
  <2>1. /\ job' \in JobType /\ job'.kind = "dump" /\ job'.pc = "status" /\ job'.conn = 0
        /\ job'.at = job.at /\ job'.status = "Running" /\ job'.result = "err"
        /\ job'.mysql_thread_id = job.mysql_thread_id
    BY <1>1, <1>3 DEF JobType, Steps
  <2>2. DumpFrame
    BY <1>1, <1>3, <2>1 DEF DumpFrame, Moves, DumpSteps
  <2>3. ThreadInv' /\ FileInv' /\ FinalInv' /\ PartInv'
    BY <1>1, <1>3, <2>1 DEF ThreadInv, FileInv, FinalInv, PartInv, DumpSteps, CopySteps
  <2> QED BY <2>2, <2>3, DumpPreserves
<1> QED BY <1>2, <1>3 DEF DumpServerVersion

LEMMA DumpStructurePreserves ==
  ASSUME IInv, DumpStructure
  PROVE  IInv'
<1>1. /\ job.pc = "create" /\ UNCHANGED <<input, user, saved, gaps>>
  BY DEF DumpStructure
<1>2. /\ job \in JobType /\ output \in OutputType /\ job.kind = "dump" /\ job.conn = 0
      /\ job.at \in Tables /\ LastTable \in Nat /\ job.status = "Running" /\ ~output.lock
      /\ job.result = "ok" /\ \A t \in Tables : t < job.at => output.part[t] = "whole"
      /\ job.mysql_thread_id # 0 => "leftover" \in gaps
  BY <1>1, DumpBefore DEF DumpSteps, IInv, ThreadInv
<1> DEFINE part == IF input.data THEN "structure" ELSE "whole"
<1>3. CASE /\ Passing /\ UNCHANGED faults
           /\ output' = [output EXCEPT !.part[job.at] = part]
           /\ job' = IF job.cancel_requested \/ ~input.data THEN NextTable(job)
                     ELSE [job EXCEPT !.pc = "acquire"]
  <2>1. /\ output' \in OutputType /\ ~output'.lock /\ output'.header = output.header
        /\ \A t \in Tables : t # job.at => output'.part[t] = output.part[t]
        /\ ~input.data => output'.part[job.at] = "whole"
    BY <1>2, <1>3 DEF OutputType
  <2>2. /\ job' \in JobType /\ job'.kind = "dump" /\ job'.conn = 0 /\ job'.status = "Running"
        /\ job'.mysql_thread_id = job.mysql_thread_id
        /\ \/ job'.pc = "acquire" /\ job'.at = job.at /\ job'.result = "ok"
           \/ job'.pc = "finish" /\ job'.at = job.at /\ job'.result = "cancelled"
           \/ job'.pc = "finish" /\ job.at = LastTable /\ job'.at = job.at /\ job'.result = "ok"
              /\ ~input.data
           \/ job'.pc = "create" /\ job'.at = job.at + 1 /\ job'.at \in Tables
              /\ job'.result = "ok" /\ ~input.data
    <3>1. CASE job' = [job EXCEPT !.pc = "acquire"]
      BY <1>2, <3>1 DEF JobType, Steps, DumpSteps
    <3>2. CASE job' = NextTable(job) /\ ~input.data
      BY <1>2, <3>2, NextTableFacts
    <3>3. CASE job' = NextTable(job) /\ job.cancel_requested
      <4>1. job' = [job EXCEPT !.pc = "finish", !.result = "cancelled", !.conn = 0]
        BY <3>3 DEF NextTable
      <4>2. job'.result = "cancelled"
        BY <1>2, <4>1 DEF JobType
      <4> QED BY <1>2, <3>3, <4>2, NextTableFacts
    <3> QED BY <1>3, <3>1, <3>2, <3>3
  <2>3. DumpFrame
    BY <1>1, <1>2, <1>3, <2>1, <2>2 DEF DumpFrame, Moves, DumpSteps
  <2>4. ThreadInv' /\ FileInv' /\ FinalInv'
    BY <1>1, <1>2, <2>1, <2>2 DEF ThreadInv, FileInv, FinalInv
  <2>5. PartInv'
    <3>1. job'.pc \in {"acquire", "create"} =>
            \A t \in Tables : t < job'.at => output'.part[t] = "whole"
      BY <1>2, <2>1, <2>2 DEF Tables
    <3>2. job'.result = "ok" /\ job'.pc = "finish" => Whole'
      BY <1>2, <2>1, <2>2 DEF Tables, Whole
    <3> QED BY <1>2, <2>2, <3>1, <3>2 DEF PartInv
  <2> QED BY <2>3, <2>4, <2>5, DumpPreserves
<1>4. CASE Fault /\ job' = DumpFails /\ UNCHANGED <<pool, output>>
  BY <1>1, <1>2, <1>4, DumpFailing
<1> QED BY <1>3, <1>4 DEF DumpStructure

LEMMA OutputWritten ==
  ASSUME NEW o \in OutputType, NEW t \in Tables, NEW l \in BOOLEAN,
         NEW p \in {"absent", "structure", "part", "whole"}
  PROVE  /\ [o EXCEPT !.lock = l, !.part[t] = p] \in OutputType
         /\ [o EXCEPT !.lock = l, !.part[t] = p].part = [o.part EXCEPT ![t] = p]
<1> DEFINE r == [o EXCEPT !.lock = l, !.part = [o.part EXCEPT ![t] = p]]
<1>1. [o EXCEPT !.lock = l, !.part[t] = p] = r
  BY DEF OutputType
<1>2. r \in OutputType /\ r.part = [o.part EXCEPT ![t] = p]
  BY DEF OutputType
<1> QED BY <1>1, <1>2

LEMMA DumpAcquirePreserves ==
  ASSUME IInv, DumpAcquire
  PROVE  IInv'
<1>1. /\ job.pc = "acquire" /\ UNCHANGED <<input, output, user, saved, gaps>>
  BY DEF DumpAcquire
<1>2. /\ job \in JobType /\ output \in OutputType /\ job.kind = "dump" /\ job.conn = 0
      /\ job.at \in Tables /\ job.status = "Running" /\ ~output.lock
      /\ job.result = "ok" /\ \A t \in Tables : t < job.at => output.part[t] = "whole"
      /\ job.mysql_thread_id # 0 => "leftover" \in gaps
  BY <1>1, DumpBefore DEF DumpSteps, IInv, ThreadInv
<1>3. ASSUME NEW c \in Conns, Acquire(c), UNCHANGED faults,
             job' = [job EXCEPT !.pc = "connid", !.conn = c, !.read = 0, !.batch = 0]
      PROVE  IInv'
  <2>1. c \in 0 .. PoolSize /\ c # 0 /\ 0 \in 0 .. MaxRows /\ 0 \in 0 .. BatchSize
    BY BoundsAssumption DEF Conns
  <2>2. /\ job' \in JobType /\ SameFields /\ job'.kind = "dump" /\ job'.pc = "connid"
        /\ job'.at = job.at /\ job'.conn = c
    BY <1>2, <1>3, <2>1 DEF JobType, SameFields, Steps, DumpSteps
  <2>3. DumpFrame
    BY <1>1, <1>2, <1>3, <2>1, <2>2 DEF DumpFrame, Moves, DumpSteps
  <2>4. ThreadInv' /\ FileInv' /\ FinalInv' /\ PartInv'
    BY <1>1, <1>2, <2>2
       DEF ThreadInv, FileInv, FinalInv, PartInv, DumpSteps, CopySteps, SameFields
  <2> QED BY <2>3, <2>4, DumpPreserves
<1>4. CASE Fault /\ job' = DumpFails /\ UNCHANGED pool
  BY <1>1, <1>2, <1>4, DumpFailing
<1> QED BY <1>3, <1>4 DEF DumpAcquire

LEMMA DumpConnectionIdPreserves ==
  ASSUME IInv, DumpConnectionId
  PROVE  IInv'
<1>1. /\ job.pc = "connid" /\ UNCHANGED <<input, output, user, saved, gaps>>
  BY DEF DumpConnectionId
<1>2. /\ job \in JobType /\ output \in OutputType /\ job.kind = "dump" /\ job.conn \in Conns
      /\ job.at \in Tables /\ job.status = "Running" /\ ~output.lock
      /\ job.result = "ok" /\ \A t \in Tables : t < job.at => output.part[t] = "whole"
      /\ conns[job.conn].thread \in Nat /\ job.conn # 0
  BY <1>1, DumpBefore DEF DumpSteps
<1>3. CASE /\ Succeeds(job.conn) /\ UNCHANGED pool
           /\ job' = [job EXCEPT !.pc = "first", !.mysql_thread_id = conns[job.conn].thread]
  <2>1. /\ job' \in JobType /\ job'.kind = "dump" /\ job'.pc = "first"
        /\ job'.at = job.at /\ job'.conn = job.conn /\ job'.status = "Running"
        /\ job'.result = "ok" /\ job'.mysql_thread_id = conns[job.conn].thread
    BY <1>2, <1>3 DEF JobType, Steps, DumpSteps
  <2>2. DumpFrame
    BY <1>1, <1>2, <1>3, <2>1 DEF DumpFrame, Moves, DumpSteps, Succeeds
  <2>3. ThreadInv' /\ FileInv' /\ FinalInv' /\ PartInv'
    BY <1>1, <1>2, <1>3, <2>1
       DEF ThreadInv, FileInv, FinalInv, PartInv, DumpSteps, CopySteps, pool
  <2> QED BY <2>2, <2>3, DumpPreserves
<1>4. CASE Fails(job.conn) /\ job' = DumpFails
  BY <1>1, <1>2, <1>4, DumpFailing
<1> QED BY <1>3, <1>4 DEF DumpConnectionId

LEMMA DumpFirstRowPreserves ==
  ASSUME IInv, DumpFirstRow
  PROVE  IInv'
<1>1. /\ job.pc = "first" /\ UNCHANGED <<input, user, saved>>
  BY DEF DumpFirstRow
<1>2. /\ job \in JobType /\ output \in OutputType /\ job.kind = "dump" /\ job.conn \in Conns
      /\ job.at \in Tables /\ LastTable \in Nat /\ job.status = "Running" /\ ~output.lock
      /\ job.result = "ok" /\ \A t \in Tables : t < job.at => output.part[t] = "whole"
      /\ job.conn # 0
  BY <1>1, DumpBefore DEF DumpSteps
<1>3. CASE /\ Succeeds(job.conn) /\ UNCHANGED <<pool, output, gaps>>
           /\ job' = [job EXCEPT !.pc = "stream", !.read = 1, !.batch = 1]
  <2>1. 1 \in 0 .. MaxRows /\ 1 \in 0 .. BatchSize
    BY BoundsAssumption
  <2>2. /\ job' \in JobType /\ SameFields /\ job'.kind = "dump" /\ job'.pc = "stream"
        /\ job'.at = job.at /\ job'.conn = job.conn
    BY <1>2, <1>3, <2>1 DEF JobType, SameFields, Steps, DumpSteps
  <2>3. DumpFrame
    BY <1>1, <1>2, <1>3, <2>2 DEF DumpFrame, Moves, DumpSteps, Succeeds
  <2>4. ThreadInv' /\ FileInv' /\ FinalInv' /\ PartInv'
    BY <1>1, <1>2, <1>3, <2>2
       DEF IInv, ThreadInv, FileInv, FinalInv, PartInv, DumpSteps, CopySteps, SameFields, pool
  <2> QED BY <2>3, <2>4, DumpPreserves
<1>4. CASE /\ Succeeds(job.conn) /\ GiveBack(job.conn)
           /\ output' = [output EXCEPT !.part[job.at] = "whole"]
           /\ job' = NextTable([job EXCEPT !.mysql_thread_id = 0]) /\ UNCHANGED gaps
  <2> DEFINE j == [job EXCEPT !.mysql_thread_id = 0]
  <2>1. /\ j \in JobType /\ j.at = job.at /\ j.kind = "dump" /\ j.result = "ok"
        /\ j.status = job.status /\ j.mysql_thread_id = 0
    BY <1>2 DEF JobType
  <2>2. /\ job' \in JobType /\ job'.conn = 0 /\ job'.kind = "dump"
        /\ job'.pc \in {"finish", "create"}
    <3> HIDE DEF j
    <3>1. job' = NextTable(j) /\ j.at \in Tables /\ j.result = "ok" /\ LastTable \in Nat
      BY <1>2, <1>4, <2>1 DEF j
    <3> QED BY <2>1, <3>1, NextTableFacts
  <2>3. output' \in OutputType
    BY <1>2, <1>4 DEF OutputType
  <2>4. DumpFrame
    BY <1>1, <1>2, <1>4, <2>2, <2>3 DEF DumpFrame, Moves, DumpSteps, Succeeds
  <2>5. ThreadInv' /\ FileInv' /\ FinalInv' /\ PartInv'
    BY <1>1, <1>4, <2>1, <2>4, TableEnds
  <2> QED BY <2>4, <2>5, DumpPreserves
<1>5. CASE /\ Fails(job.conn) /\ job' = DumpFails /\ gaps' = gaps \cup {"leftover"}
           /\ UNCHANGED output
  BY <1>1, <1>2, <1>5, DumpFailing DEF Gaps, OtherGaps
<1> QED BY <1>3, <1>4, <1>5 DEF DumpFirstRow

\* What streaming starts from.
LEMMA StreamBefore ==
  ASSUME IInv, job.pc = "stream"
  PROVE  /\ job \in JobType /\ output \in OutputType /\ job.kind = "dump"
         /\ job.conn \in Conns /\ job.conn # 0
         /\ job.at \in Tables /\ LastTable \in Nat /\ job.status = "Running"
         /\ job.result = "ok" /\ \A t \in Tables : t < job.at => output.part[t] = "whole"
BY DumpBefore DEF DumpSteps

LEMMA DumpBatchPreserves ==
  ASSUME IInv, DumpFlush \/ DumpRow
  PROVE  IInv'
<1>1. /\ job.pc = "stream" /\ UNCHANGED <<input, pool, user, saved, faults, gaps>>
      /\ \/ UNCHANGED output
         \/ output' = [output EXCEPT !.lock = TRUE, !.part[job.at] = "part"]
  BY DEF DumpFlush, DumpRow, Succeeds
<1>2. /\ job' \in JobType /\ SameFields /\ job'.kind = "dump" /\ job'.pc = "stream"
      /\ job'.at = job.at /\ job'.conn = job.conn
  <2>1. /\ 0 \in 0 .. BatchSize
        /\ job.read < MaxRows /\ job.read \in 0 .. MaxRows => job.read + 1 \in 0 .. MaxRows
        /\ job.batch < BatchSize /\ job.batch \in 0 .. BatchSize
             => job.batch + 1 \in 0 .. BatchSize
    BY BoundsAssumption
  <2>2. CASE DumpFlush
    BY <1>1, <2>1, <2>2, StreamBefore DEF DumpFlush, JobType, SameFields
  <2>3. CASE DumpRow
    BY ZenonT(40), <1>1, <2>1, <2>3, StreamBefore DEF DumpRow, JobType, SameFields
  <2> QED BY <2>2, <2>3
<1>3. /\ output' \in OutputType
      /\ \A t \in Tables : t < job.at => output'.part[t] = "whole"
  <2>1. output \in OutputType /\ job.at \in Tables /\ job.at \in Nat
        /\ \A t \in Tables : t < job.at => output.part[t] = "whole"
    BY <1>1, StreamBefore DEF JobType
  <2>2. CASE UNCHANGED output
    BY <2>1, <2>2
  <2>3. CASE output' = [output EXCEPT !.lock = TRUE, !.part[job.at] = "part"]
    <3>1. output'.part = [output.part EXCEPT ![job.at] = "part"]
      BY <2>1, <2>3, OutputWritten
    <3>2. \A t \in Tables : t < job.at => output'.part[t] = output.part[t]
      BY <2>1, <3>1
    <3> QED BY <2>1, <2>3, <3>2, OutputWritten
  <2> QED BY <1>1, <2>2, <2>3
<1>4. DumpFrame
  BY <1>1, <1>2, <1>3, StreamBefore DEF DumpFrame, Moves, DumpSteps
<1>5. ThreadInv' /\ FileInv' /\ FinalInv' /\ PartInv'
  BY <1>1, <1>2, <1>3, StreamBefore
     DEF IInv, ThreadInv, FileInv, FinalInv, PartInv, DumpSteps, CopySteps, SameFields, pool
<1> QED BY <1>4, <1>5, DumpPreserves

LEMMA DumpStreamEndPreserves ==
  ASSUME IInv, DumpStreamEnds \/ DumpStreamBreaks
  PROVE  IInv'
<1> DEFINE j == [job EXCEPT !.mysql_thread_id = 0]
<1>1. /\ job.pc = "stream" /\ job' = NextTable(j)
      /\ UNCHANGED <<input, user, saved, faults, gaps>>
      /\ GiveBack(job.conn) \/ Discard(job.conn)
      /\ \/ output' = [output EXCEPT !.lock = FALSE, !.part[job.at] = "whole"]
         \/ /\ output' = [output EXCEPT !.lock = FALSE, !.part[job.at] = "part"]
            /\ job.cancel_requested
  BY DEF DumpStreamEnds, DumpStreamBreaks, Succeeds
<1>2. /\ j \in JobType /\ j.at = job.at /\ j.kind = "dump" /\ j.result = "ok"
      /\ j.status = job.status /\ j.mysql_thread_id = 0
      /\ j.cancel_requested = job.cancel_requested
  BY <1>1, StreamBefore DEF JobType
<1>3. /\ job' \in JobType /\ job'.conn = 0 /\ job'.kind = "dump"
      /\ job'.pc \in {"finish", "create"}
  <2> HIDE DEF j
  <2>1. j.at \in Tables /\ j.result = "ok" /\ LastTable \in Nat
    BY <1>1, <1>2, StreamBefore
  <2> QED BY <1>1, <1>2, <2>1, NextTableFacts
<1>4. job.cancel_requested => job'.pc = "finish" /\ job'.result = "cancelled"
  BY SMTT(25), <1>1, <1>2 DEF NextTable, JobType
<1>5. output' \in OutputType
  <2>1. output \in OutputType /\ job.at \in Tables
    BY <1>1, StreamBefore
  <2>2. \E p \in {"whole", "part"} : output' = [output EXCEPT !.lock = FALSE, !.part[job.at] = p]
    BY <1>1
  <2>3. PICK p \in {"whole", "part"} :
               output' = [output EXCEPT !.lock = FALSE, !.part[job.at] = p]
    BY <2>2
  <2> QED BY <2>1, <2>3, OutputWritten
<1>6. DumpFrame
  BY <1>1, <1>3, <1>5, StreamBefore DEF DumpFrame, Moves, DumpSteps
<1>7. ThreadInv' /\ FileInv' /\ FinalInv' /\ PartInv'
  BY <1>1, <1>2, <1>4, <1>6, TableEnds
<1> QED BY <1>6, <1>7, DumpPreserves

LEMMA DumpStreamFailsPreserves ==
  ASSUME IInv, DumpStreamFails
  PROVE  IInv'
<1>1. [DumpFails EXCEPT !.mysql_thread_id = 0].mysql_thread_id = 0
  BY StreamBefore DEF DumpStreamFails, DumpFails, JobType
<1> QED BY <1>1, StreamBefore, DumpFailing DEF DumpStreamFails

LEMMA DumpEndPreserves ==
  ASSUME IInv, DumpFinish \/ DumpStatus
  PROVE  IInv'
<1>1. /\ UNCHANGED <<input, pool, user, saved, faults, gaps>>
      /\ job.pc \in {"finish", "status"} /\ job.kind = "dump"
  BY DumpBefore DEF DumpFinish, DumpStatus, DumpSteps
<1>2. /\ job \in JobType /\ output \in OutputType /\ job.conn = 0
      /\ job.at \in Tables /\ job.status = "Running" /\ ~output.lock
      /\ job.mysql_thread_id # 0 => "leftover" \in gaps
      /\ job.result = "ok" => Whole
  BY <1>1, DumpBefore DEF DumpSteps, IInv, ThreadInv, PartInv
<1>3. CASE DumpFinish
  <2>1. /\ job.pc = "finish" /\ output' = [output EXCEPT !.transaction = FALSE, !.footer = TRUE]
        /\ job' = [job EXCEPT !.pc = "status",
                     !.cancel_requested = job.cancel_requested \/ job.result = "cancelled"]
    BY <1>3 DEF DumpFinish
  <2>2. /\ output' \in OutputType /\ ~output'.lock /\ ~output'.transaction /\ output'.footer
        /\ output'.part = output.part
    BY <1>2, <2>1 DEF OutputType
  <2>3. /\ job' \in JobType /\ SameFields /\ job'.kind = "dump" /\ job'.pc = "status"
        /\ job'.conn = 0 /\ job'.at = job.at
        /\ job'.result = "cancelled" => job'.cancel_requested
    BY <1>1, <1>2, <2>1 DEF JobType, SameFields, Steps
  <2>4. DumpFrame
    BY <1>1, <1>2, <2>2, <2>3 DEF DumpFrame, Moves, DumpSteps
  <2>5. ThreadInv' /\ FileInv' /\ FinalInv' /\ PartInv'
    BY <1>1, <1>2, <2>2, <2>3
       DEF ThreadInv, FileInv, FinalInv, PartInv, DumpSteps, CopySteps, SameFields, Whole
  <2> QED BY <2>4, <2>5, DumpPreserves
<1>4. CASE DumpStatus
  <2>1. /\ job.pc = "status" /\ UNCHANGED output
        /\ \E s \in Terminal : /\ job' = [job EXCEPT !.status = s, !.pc = "ended"]
                               /\ s = "Completed" => ~job.cancel_requested /\ job.result # "err"
    <3>1. /\ job.pc = "status" /\ UNCHANGED output
          /\ \/ job' = UpdateStatus("Cancelled")
             \/ job' = UpdateStatus("Failed")
             \/ job' = UpdateStatus("Completed") /\ ~job.cancel_requested /\ job.result # "err"
      BY <1>4 DEF DumpStatus
    <3> QED BY <3>1, Zenon DEF UpdateStatus, Terminal
  <2>2. /\ job' \in JobType /\ job'.kind = "dump" /\ job'.pc = "ended"
        /\ job'.conn = 0 /\ job'.at = job.at /\ job'.mysql_thread_id = job.mysql_thread_id
        /\ job'.status = "Completed" => ~job.cancel_requested /\ job.result # "err"
    BY <1>1, <1>2, <2>1 DEF JobType, Steps, Statuses
  <2>3. DumpFrame
    BY <1>1, <1>2, <2>1, <2>2 DEF DumpFrame, Moves, DumpSteps
  <2>4. ThreadInv' /\ FileInv' /\ FinalInv'
    BY <1>1, <1>2, <2>1, <2>2 DEF IInv, ThreadInv, FileInv, FinalInv
  <2>5. job'.status = "Completed" => Whole
    BY <1>1, <1>2, <2>1, <2>2 DEF IInv, PartInv, JobType
  <2>6. PartInv'
    BY <1>2, <2>1, <2>2, <2>5 DEF PartInv, DumpSteps, CopySteps, Whole
  <2> QED BY <2>3, <2>4, <2>6, DumpPreserves
<1> QED BY <1>3, <1>4

----------
(* The copy. *)

\* What every step of a copy keeps.
CopyFrame ==
  /\ job.kind = "copy" /\ job'.kind = "copy"
  /\ UNCHANGED <<input, user, saved>> /\ (Fault \/ UNCHANGED faults)
  /\ \/ UNCHANGED gaps /\ job.pc \in CopySteps
     \/ gaps \subseteq gaps' /\ gaps' \subseteq Gaps /\ RefusedInv'
  /\ job' \in JobType /\ output' \in OutputType /\ output'.lock = output.lock
  /\ job'.mysql_thread_id = job.mysql_thread_id
  /\ job'.pc \in CopySteps \cup {"status", "ended"}
  /\ job'.pc \in ConnSteps => job'.conn # 0
  /\ job'.conn # 0 => job'.pc \in ConnSteps \cup {"restore"}

LEMMA CopyPreserves ==
  ASSUME IInv, CopyFrame, PoolKept, ChecksInv', PartInv', FinalInv'
  PROVE  IInv'
<1>1. TypeOK' /\ RefusedInv'
  <2>1. RefusedInv'
    BY DEF CopyFrame, IInv, RefusedInv, CopySteps
  <2>2. gaps \subseteq gaps' /\ gaps' \subseteq Gaps
    BY DEF CopyFrame, IInv, TypeOK
  <2> QED BY <2>1, <2>2, JobTypes DEF CopyFrame
<1>2. StepInv'
  BY DEF CopyFrame, IInv, StepInv, user, DumpSteps, CopySteps, ImportSteps
<1>3. ThreadInv'
  BY DEF CopyFrame, IInv, StepInv, ThreadInv, DumpSteps
<1>4. FileInv'
  BY DEF CopyFrame, IInv, StepInv, FileInv, DumpSteps, CopySteps
<1>5. ImportInv'
  BY DEF CopyFrame, ImportInv
<1> QED BY <1>1, <1>2, <1>3, <1>4, <1>5 DEF IInv, PoolKept

LEMMA CopyBefore ==
  ASSUME IInv, job.pc \in CopySteps \cup {"status"}, job.pc = "status" => job.kind = "copy"
  PROVE  /\ job \in JobType /\ output \in OutputType /\ job.kind = "copy"
         /\ job.at \in Tables /\ LastTable \in Nat /\ 0 \in 0 .. PoolSize
         /\ job.status \in {"Running", "Cancelled"}
         /\ job.pc \notin {"restore", "status"} => job.status = "Running"
         /\ job.pc \in ConnSteps => job.conn # 0
         /\ job.conn # 0 => job.pc \in ConnSteps \cup {"restore"}
         /\ job.pc \notin {"restore", "status"} =>
              job.result = "ok" /\ \A t \in Tables : t < job.at => output.part[t] = "whole"
         /\ job.pc \in {"restore", "status"} /\ job.result = "ok" => Whole
<1>1. job \in JobType /\ output \in OutputType
  BY DEF IInv, TypeOK
<1>2. job.kind = "copy"
  BY DEF IInv, StepInv
<1>3. /\ job.at \in Tables /\ LastTable \in Nat /\ 0 \in 0 .. PoolSize
      /\ job.pc \notin {"restore", "status"} =>
           job.result = "ok" /\ \A t \in Tables : t < job.at => output.part[t] = "whole"
      /\ job.pc \in {"restore", "status"} /\ job.result = "ok" => Whole
  BY <1>2, BoundsAssumption DEF IInv, PartInv, CopySteps
<1>4. /\ job.status \in {"Running", "Cancelled"}
      /\ job.pc \notin {"restore", "status"} => job.status = "Running"
  BY <1>2 DEF IInv, FinalInv, CopySteps
<1>5. /\ job.pc \in ConnSteps => job.conn # 0
      /\ job.conn # 0 => job.pc \in ConnSteps \cup {"restore"}
  BY DEF IInv, StepInv
<1> QED BY <1>1, <1>2, <1>3, <1>4, <1>5

\* The pool and the checks, for a step that leaves the connection alone, ...
LEMMA CopyLeaves ==
  ASSUME IInv, UNCHANGED <<pool, user, gaps>>, job'.conn = job.conn,
         job.pc \in OffSteps => job'.pc \in OffSteps \/ job.conn = 0
  PROVE  PoolKept /\ ChecksInv'
<1>1. PoolKept
  BY MovesFacts DEF Moves
<1>2. \A c \in Conns : conns'[c] = conns[c] /\ c # 0
  BY HeldFacts DEF pool
<1> QED BY <1>1, <1>2 DEF IInv, ChecksInv

\* ... for one that loses it, ...
LEMMA CopyLoses ==
  ASSUME IInv, Discard(job.conn), UNCHANGED <<user, gaps>>, job.conn # 0, job'.conn = 0
  PROVE  PoolKept /\ ChecksInv'
<1>1. PoolKept /\ (\A c \in Conns : conns[c].checks => conns'[c].checks)
  BY MovesFacts DEF Moves
<1>2. job.conn \in Conns /\ conns'[job.conn].checks
  BY HeldFacts, FreshFields DEF Discard, PoolTypeOK
<1> QED BY <1>1, <1>2 DEF IInv, ChecksInv

\* ... and for one before the checks are off.
LEMMA CopyUnchecked ==
  ASSUME IInv, Moves, UNCHANGED <<user, gaps>>, job.pc \notin OffSteps
  PROVE  PoolKept /\ ChecksInv'
BY MovesFacts DEF IInv, ChecksInv

\* The tables, for a step before the checks are restored: it fails or is cancelled,
\* stays with its table, or goes on to the next.
LEMMA CopyPart ==
  ASSUME IInv, job.pc \in CopySteps \ {"restore"}, job'.kind = "copy",
         job'.status \in {"Running", "Cancelled"},
         \/ job'.pc \in {"restore", "status"} /\ job'.result # "ok" /\ job'.at = job.at
         \/ /\ job'.pc \in CopySteps \ {"restore"} /\ job'.result = "ok" /\ job'.at = job.at
            /\ \A t \in Tables : t < job.at => output'.part[t] = output.part[t]
         \/ /\ job' = NextObject /\ output'.part[job.at] = "whole"
            /\ \A t \in Tables : t # job.at => output'.part[t] = output.part[t]
  PROVE  PartInv'
<1>1. /\ job \in JobType /\ job.at \in Tables /\ LastTable \in Nat /\ job.result = "ok"
      /\ \A t \in Tables : t < job.at => output.part[t] = "whole"
  BY CopyBefore DEF CopySteps
<1>2. CASE job'.pc \in {"restore", "status"} /\ job'.result # "ok" /\ job'.at = job.at
  BY <1>1, <1>2 DEF PartInv, DumpSteps, CopySteps
<1>3. CASE /\ job'.pc \in CopySteps \ {"restore"} /\ job'.result = "ok" /\ job'.at = job.at
           /\ \A t \in Tables : t < job.at => output'.part[t] = output.part[t]
  BY <1>1, <1>3 DEF PartInv, CopySteps
<1>4. CASE /\ job' = NextObject /\ output'.part[job.at] = "whole"
           /\ \A t \in Tables : t # job.at => output'.part[t] = output.part[t]
  <2>1. \/ job'.pc = "restore" /\ job'.at = job.at /\ job.at = LastTable
        \/ job'.pc = "count" /\ job'.at = job.at + 1 /\ job'.at \in Tables /\ job'.result = "ok"
    <3>1. CASE job.at = LastTable
      BY <1>1, <1>4, <3>1 DEF NextObject, JobType
    <3>2. CASE job.at # LastTable
      <4>1. job.at + 1 \in Tables
        BY <1>1, <3>2 DEF Tables
      <4> QED BY <1>1, <1>4, <3>2, <4>1 DEF NextObject, JobType
    <3> QED BY <3>1, <3>2
  <2>2. job'.pc = "restore" => Whole'
    BY <1>1, <1>4, <2>1 DEF Whole, Tables
  <2>3. job'.pc = "count" => \A t \in Tables : t < job'.at => output'.part[t] = "whole"
    BY <1>1, <1>4, <2>1 DEF Tables
  <2> QED BY <1>1, <2>1, <2>2, <2>3 DEF PartInv, DumpSteps, CopySteps
<1> QED BY <1>2, <1>3, <1>4

\* A step with the checks off that leaves the connection alone.
LEMMA CopyOn ==
  ASSUME IInv, job.pc \in OffSteps \ {"restore"}, UNCHANGED pool, CopyStays,
         Fault \/ UNCHANGED faults,
         output' \in OutputType, output'.lock = output.lock,
         job' \in JobType, job'.kind = job.kind, job'.conn = job.conn,
         job'.mysql_thread_id = job.mysql_thread_id, job'.pc \in OffSteps,
         job'.status = "Running" \/ (job'.status = "Cancelled" /\ job'.pc = "restore"),
         \/ job'.pc = "restore" /\ job'.result # "ok" /\ job'.at = job.at
         \/ /\ job'.pc # "restore" /\ job'.result = "ok" /\ job'.at = job.at
            /\ \A t \in Tables : t < job.at => output'.part[t] = output.part[t]
         \/ /\ job' = NextObject /\ output'.part[job.at] = "whole"
            /\ \A t \in Tables : t # job.at => output'.part[t] = output.part[t]
  PROVE  IInv'
<1>1. job.kind = "copy" /\ job.conn # 0
  BY CopyBefore DEF OffSteps, CopySteps, ConnSteps
<1>2. CopyFrame
  BY <1>1 DEF CopyFrame, CopyStays, OffSteps, CopySteps, ConnSteps
<1>3. PoolKept /\ ChecksInv'
  BY CopyLeaves DEF CopyStays
<1>4. PartInv'
  BY <1>1, CopyPart DEF OffSteps, CopySteps
<1>5. FinalInv'
  BY <1>1 DEF FinalInv
<1> QED BY <1>2, <1>3, <1>4, <1>5, CopyPreserves

\* What such a step starts from.
LEMMA OffBefore ==
  ASSUME IInv, job.pc \in OffSteps \ {"restore"}
  PROVE  /\ job \in JobType /\ output \in OutputType /\ job.kind = "copy"
         /\ job.at \in Tables /\ LastTable \in Nat /\ job.conn # 0 /\ 0 \in 0 .. PoolSize
         /\ job.status = "Running" /\ job.result = "ok"
BY CopyBefore DEF OffSteps, CopySteps, ConnSteps

\* The pinned connection is lost, and the error ends the body.
LEMMA CopyLostPreserves ==
  ASSUME IInv, job.pc \in {"checks"} \cup (OffSteps \ {"restore"}),
         NEW step \in {"restore", "status"},
         Fault, Discard(job.conn), UNCHANGED output, CopyStays,
         job' = [job EXCEPT !.pc = step, !.result = "err", !.conn = 0]
  PROVE  IInv'
<1>1. /\ job \in JobType /\ output \in OutputType /\ job.kind = "copy" /\ job.conn # 0
      /\ job.status = "Running" /\ 0 \in 0 .. PoolSize
      /\ job.pc \in CopySteps \ {"restore"}
  BY CopyBefore DEF OffSteps, CopySteps, ConnSteps
<1>2. /\ job' \in JobType /\ job'.kind = "copy" /\ job'.pc = step /\ job'.conn = 0
      /\ job'.at = job.at /\ job'.status = "Running" /\ job'.result = "err"
      /\ job'.mysql_thread_id = job.mysql_thread_id
  BY <1>1 DEF JobType, Steps, CopySteps
<1>3. CopyFrame
  BY <1>1, <1>2 DEF CopyFrame, CopyStays, CopySteps, ConnSteps
<1>4. PoolKept /\ ChecksInv'
  BY <1>1, <1>2, CopyLoses DEF CopyStays
<1>5. PartInv' /\ FinalInv'
  BY <1>1, <1>2, CopyPart DEF FinalInv
<1> QED BY <1>3, <1>4, <1>5, CopyPreserves

LEMMA CopyFailing ==
  ASSUME IInv, job.pc \in {"structure", "flush", "last"}, CopyFails("restore"),
         UNCHANGED output, CopyStays
  PROVE  IInv'
<1>1. job.pc \in OffSteps \ {"restore"}
  BY DEF OffSteps
<1>2. CASE UNCHANGED pool /\ Fault /\ job' = [job EXCEPT !.pc = "restore", !.result = "err"]
  <2>1. /\ job' \in JobType /\ job'.kind = job.kind /\ job'.pc = "restore"
        /\ job'.conn = job.conn /\ job'.at = job.at /\ job'.status = "Running"
        /\ job'.result = "err" /\ job'.mysql_thread_id = job.mysql_thread_id
    BY <1>1, <1>2, OffBefore DEF JobType, Steps, CopySteps
  <2> QED BY <1>1, <1>2, <2>1, OffBefore, CopyOn DEF OffSteps
<1>3. CASE Discard(job.conn) /\ Fault
           /\ job' = [job EXCEPT !.pc = "restore", !.result = "err", !.conn = 0]
  BY <1>1, <1>3, CopyLostPreserves
<1> QED BY <1>2, <1>3 DEF CopyFails

LEMMA CopyGivesUpPreserves ==
  ASSUME IInv, job.pc \in {"pin", "prepare"}, CopyGivesUp, UNCHANGED output, CopyStays
  PROVE  IInv'
<1>1. /\ job \in JobType /\ output \in OutputType /\ job.kind = "copy"
      /\ job.status = "Running" /\ 0 \in 0 .. PoolSize
  BY CopyBefore DEF CopySteps
<1>2. /\ job' \in JobType /\ job'.kind = "copy" /\ job'.pc = "status" /\ job'.conn = 0
      /\ job'.at = job.at /\ job'.status = "Running" /\ job'.result = "err"
      /\ job'.mysql_thread_id = job.mysql_thread_id
  BY <1>1 DEF CopyGivesUp, JobType, Steps
<1>3. CopyFrame
  BY <1>1, <1>2 DEF CopyGivesUp, CopyFrame, CopyStays, CopySteps, ConnSteps
<1>4. Moves
  BY <1>2 DEF CopyGivesUp, Moves
<1>5. PoolKept /\ ChecksInv'
  BY <1>4, CopyUnchecked DEF CopyStays, OffSteps
<1>6. PartInv' /\ FinalInv'
  BY <1>2, CopyPart DEF FinalInv, CopySteps
<1> QED BY <1>3, <1>5, <1>6, CopyPreserves

LEMMA CopyPinsPreserves ==
  ASSUME IInv, CopyPins \/ CopyEnsuresDatabase
  PROVE  IInv'
<1>1. job.pc \in {"pin", "prepare"} /\ UNCHANGED output /\ CopyStays
  BY DEF CopyPins, CopyEnsuresDatabase
<1>2. /\ job \in JobType /\ output \in OutputType /\ job.kind = "copy"
      /\ job.status = "Running" /\ 0 \in 0 .. PoolSize /\ job.result = "ok"
      /\ job.pc = "pin" => job.conn = 0
      /\ job.pc = "prepare" => job.conn # 0
  BY <1>1, CopyBefore DEF CopySteps, ConnSteps
<1>3. ASSUME NEW c \in Conns, job.pc = "pin", Acquire(c), UNCHANGED faults,
             job' = [job EXCEPT !.pc = "prepare", !.conn = c]
      PROVE  IInv'
  <2>1. c \in 0 .. PoolSize /\ c # 0
    BY BoundsAssumption DEF Conns
  <2>2. /\ job' \in JobType /\ job'.kind = "copy" /\ job'.pc = "prepare" /\ job'.conn = c
        /\ job'.at = job.at /\ job'.status = "Running" /\ job'.result = "ok"
        /\ job'.mysql_thread_id = job.mysql_thread_id
    BY <1>2, <1>3, <2>1 DEF JobType, Steps, CopySteps
  <2>3. CopyFrame
    BY <1>1, <1>2, <1>3, <2>1, <2>2 DEF CopyFrame, CopyStays, CopySteps, ConnSteps
  <2>4. Moves
    BY <1>2, <1>3, <2>2 DEF Moves
  <2>5. PoolKept /\ ChecksInv'
    BY <1>1, <2>4, CopyUnchecked DEF CopyStays, OffSteps
  <2>6. PartInv' /\ FinalInv'
    BY <1>1, <2>2, CopyPart DEF FinalInv, CopySteps
  <2> QED BY <2>3, <2>5, <2>6, CopyPreserves
<1>4. CASE job.pc = "prepare" /\ job' = [job EXCEPT !.pc = "checks"] /\ UNCHANGED <<pool, faults>>
  <2>1. /\ job' \in JobType /\ job'.kind = "copy" /\ job'.pc = "checks" /\ job'.conn = job.conn
        /\ job'.at = job.at /\ job'.status = "Running" /\ job'.result = "ok"
        /\ job'.mysql_thread_id = job.mysql_thread_id
    BY <1>2, <1>4 DEF JobType, Steps, CopySteps
  <2>2. CopyFrame
    BY <1>1, <1>2, <1>4, <2>1 DEF CopyFrame, CopyStays, CopySteps, ConnSteps
  <2>3. Moves
    BY <1>4, <2>1 DEF Moves
  <2>4. PoolKept /\ ChecksInv'
    BY <1>1, <2>3, CopyUnchecked DEF CopyStays, OffSteps
  <2>5. PartInv' /\ FinalInv'
    BY <1>1, <2>1, CopyPart DEF FinalInv, CopySteps
  <2> QED BY <2>2, <2>4, <2>5, CopyPreserves
<1>5. CASE CopyGivesUp
  BY <1>1, <1>5, CopyGivesUpPreserves
<1> QED BY <1>3, <1>4, <1>5 DEF CopyPins, CopyEnsuresDatabase

LEMMA CopyDisablesChecksPreserves ==
  ASSUME IInv, CopyDisablesChecks
  PROVE  IInv'
<1>1. job.pc = "checks" /\ UNCHANGED output /\ CopyStays
  BY DEF CopyDisablesChecks
<1>2. /\ job \in JobType /\ output \in OutputType /\ job.kind = "copy"
      /\ job.status = "Running" /\ job.result = "ok" /\ job.conn # 0 /\ job.conn \in Conns
  BY <1>1, CopyBefore, HeldFacts DEF CopySteps, ConnSteps
<1>3. CASE /\ conns' = [conns EXCEPT ![job.conn].checks = FALSE]
           /\ job' = [job EXCEPT !.pc = "count"] /\ UNCHANGED <<idle, free, opened, faults>>
  <2>1. /\ job' \in JobType /\ job'.kind = "copy" /\ job'.pc = "count" /\ job'.conn = job.conn
        /\ job'.at = job.at /\ job'.status = "Running" /\ job'.result = "ok"
        /\ job'.mysql_thread_id = job.mysql_thread_id
    BY <1>2, <1>3 DEF JobType, Steps, CopySteps
  <2>2. /\ conns' \in [Conns -> SessionType]
        /\ \A d \in Conns : /\ conns'[d].thread = conns[d].thread
                            /\ d # job.conn => conns'[d] = conns[d]
    BY ZenonT(40), <1>2, <1>3, HeldFacts DEF PoolTypeOK, SessionType
  <2>3. PoolKept
    BY <1>1, <1>2, <1>3, <2>1, <2>2, OwnSessionFacts DEF CopyStays
  <2>4. ChecksInv'
    BY <1>1, <2>1, <2>2 DEF IInv, ChecksInv, OffSteps, CopyStays
  <2>5. CopyFrame
    BY <1>1, <1>2, <1>3, <2>1 DEF CopyFrame, CopyStays, CopySteps, ConnSteps
  <2>6. PartInv' /\ FinalInv'
    BY <1>1, <2>1, CopyPart DEF FinalInv, CopySteps
  <2> QED BY <2>3, <2>4, <2>5, <2>6, CopyPreserves
<1>4. CASE /\ Fault /\ Discard(job.conn)
           /\ job' = [job EXCEPT !.pc = "status", !.result = "err", !.conn = 0]
  BY <1>1, <1>4, CopyLostPreserves
<1> QED BY <1>3, <1>4 DEF CopyDisablesChecks

\* A step that fails, is cancelled or stays with its table, with no table written.
LEMMA CopyWalkPreserves ==
  ASSUME IInv, CopyObject \/ CopyRow \/ CopyRowsCancelled \/ CopyReadFails
  PROVE  IInv'
<1>1. /\ job.pc \in {"count", "rows"} /\ UNCHANGED <<output, pool>> /\ CopyStays
      /\ Fault \/ UNCHANGED faults
  BY DEF CopyObject, CopyRow, CopyRowsCancelled, CopyReadFails
<1>2. job.pc \in OffSteps \ {"restore"}
  BY <1>1 DEF OffSteps
<1>3. /\ job' \in JobType /\ job'.kind = job.kind /\ job'.conn = job.conn /\ job'.at = job.at
      /\ job'.mysql_thread_id = job.mysql_thread_id
      /\ \/ job'.pc = "restore" /\ job'.status = "Cancelled" /\ job'.result = "cancelled"
         \/ job'.pc = "restore" /\ job'.status = "Running" /\ job'.result = "err"
         \/ job'.pc \in {"structure", "rows", "flush"} /\ job'.status = "Running"
            /\ job'.result = "ok"
  <2>1. CASE job' = mark_cancelled
    BY <1>2, <2>1, OffBefore DEF mark_cancelled, JobType, Steps, CopySteps, Statuses, Terminal
  <2>2. CASE job' = [job EXCEPT !.pc = "restore", !.result = "err"]
    BY <1>2, <2>2, OffBefore DEF JobType, Steps, CopySteps
  <2>3. CASE job' = [job EXCEPT !.pc = "structure"]
    BY <1>2, <2>3, OffBefore DEF JobType, Steps, CopySteps
  <2>4. CASE CopyRow
    <3>1. /\ job.read < MaxRows /\ job.read \in 0 .. MaxRows => job.read + 1 \in 0 .. MaxRows
          /\ job.batch # BatchSize /\ job.batch \in 0 .. BatchSize
               => job.batch + 1 \in 0 .. BatchSize
      BY BoundsAssumption
    <3>2. CASE job' = [job EXCEPT !.read = job.read + 1, !.pc = "flush"]
      BY <1>2, <2>4, <3>1, <3>2, OffBefore DEF CopyRow, JobType, Steps, CopySteps
    <3>3. CASE /\ job' = [job EXCEPT !.read = job.read + 1, !.batch = job.batch + 1]
               /\ job.batch # BatchSize
      BY <1>2, <2>4, <3>1, <3>3, OffBefore DEF CopyRow, JobType
    <3> QED BY <2>4, <3>2, <3>3 DEF CopyRow
  <2> QED BY <2>1, <2>2, <2>3, <2>4 DEF CopyObject, CopyRowsCancelled, CopyReadFails
<1> QED BY <1>1, <1>2, <1>3, OffBefore, CopyOn DEF OffSteps

LEMMA NextObjectFacts ==
  ASSUME IInv, job.pc \in OffSteps \ {"restore"}, NEW n, n = NextObject
  PROVE  /\ n \in JobType /\ n.kind = job.kind /\ n.conn = job.conn /\ n.status = "Running"
         /\ n.mysql_thread_id = job.mysql_thread_id /\ n.pc \in OffSteps
<1>1. CASE n = [job EXCEPT !.pc = "restore"]
  BY <1>1, OffBefore DEF JobType, Steps, CopySteps, OffSteps
<1>2. CASE n = [job EXCEPT !.pc = "count", !.at = job.at + 1]
  <2>1. job \in JobType /\ job.at + 1 \in Nat /\ job.status = "Running"
    BY OffBefore DEF JobType
  <2> QED BY <1>2, <2>1 DEF JobType, Steps, CopySteps, OffSteps
<1> QED BY <1>1, <1>2 DEF NextObject

\* A write of the current table.
LEMMA PartWritten ==
  ASSUME NEW o \in OutputType, NEW t \in Tables,
         NEW p \in {"absent", "structure", "part", "whole"},
         NEW r, r = [o EXCEPT !.part[t] = p]
  PROVE  /\ r \in OutputType /\ r.lock = o.lock /\ r.part[t] = p
         /\ \A u \in Tables : u # t => r.part[u] = o.part[u]
BY DEF OutputType

\* The last write of a table.
LEMMA CopyTableEnds ==
  ASSUME IInv, job.pc \in OffSteps \ {"restore"}, job' = NextObject,
         output' = [output EXCEPT !.part[job.at] = "whole"],
         UNCHANGED <<pool, faults>>, CopyStays
  PROVE  IInv'
<1>1. /\ output' \in OutputType /\ output'.lock = output.lock
      /\ output'.part[job.at] = "whole"
      /\ \A t \in Tables : t # job.at => output'.part[t] = output.part[t]
  <2>1. output \in OutputType /\ job.at \in Tables
    BY OffBefore
  <2> QED BY <2>1, PartWritten
<1> QED BY <1>1, OffBefore, NextObjectFacts, CopyOn

\* A write that is not the last of its table.
LEMMA CopyTableGoesOn ==
  ASSUME IInv, job.pc \in OffSteps \ {"restore"},
         UNCHANGED output \/ \E p \in {"structure", "part"} :
                               output' = [output EXCEPT !.part[job.at] = p],
         job' \in JobType, job'.kind = job.kind, job'.conn = job.conn, job'.at = job.at,
         job'.status = "Running", job'.result = "ok",
         job'.mysql_thread_id = job.mysql_thread_id, job'.pc \in OffSteps \ {"restore"},
         UNCHANGED <<pool, faults>>, CopyStays
  PROVE  IInv'
<1>1. /\ output' \in OutputType /\ output'.lock = output.lock
      /\ \A t \in Tables : t # job.at => output'.part[t] = output.part[t]
  <2>1. output \in OutputType /\ job.at \in Tables
    BY OffBefore
  <2>2. CASE UNCHANGED output
    BY <2>1, <2>2
  <2>3. ASSUME NEW p \in {"structure", "part"}, output' = [output EXCEPT !.part[job.at] = p]
        PROVE  /\ output' \in OutputType /\ output'.lock = output.lock
               /\ \A t \in Tables : t # job.at => output'.part[t] = output.part[t]
    BY <2>1, <2>3, PartWritten
  <2> QED BY <2>2, <2>3
<1>2. \A t \in Tables : t < job.at => t # job.at
  BY OffBefore DEF JobType, Tables
<1> QED BY <1>1, <1>2, OffBefore, CopyOn

LEMMA CopyStructurePreserves ==
  ASSUME IInv, CopyStructure
  PROVE  IInv'
<1>1. job.pc = "structure" /\ CopyStays /\ job.pc \in OffSteps \ {"restore"}
  BY DEF CopyStructure, OffSteps
<1>2. CASE /\ input.data /\ output' = [output EXCEPT !.part[job.at] = "structure"]
           /\ job' = [job EXCEPT !.pc = "rows", !.read = 0, !.batch = 0]
           /\ UNCHANGED <<pool, faults>>
  <2>1. 0 \in 0 .. MaxRows /\ 0 \in 0 .. BatchSize
    BY BoundsAssumption
  <2>2. /\ job' \in JobType /\ job'.kind = job.kind /\ job'.conn = job.conn
        /\ job'.at = job.at /\ job'.status = "Running" /\ job'.result = "ok"
        /\ job'.mysql_thread_id = job.mysql_thread_id /\ job'.pc = "rows"
    BY <1>1, <1>2, <2>1, OffBefore DEF JobType, Steps, CopySteps
  <2> QED BY <1>1, <1>2, <2>2, CopyTableGoesOn DEF OffSteps
<1>3. CASE /\ output' = [output EXCEPT !.part[job.at] = "whole"] /\ job' = NextObject
           /\ UNCHANGED <<pool, faults>>
  BY <1>1, <1>3, CopyTableEnds
<1>4. CASE CopyFails("restore") /\ UNCHANGED output
  BY <1>1, <1>4, CopyFailing
<1> QED BY <1>2, <1>3, <1>4 DEF CopyStructure

LEMMA CopyRowsEndPreserves ==
  ASSUME IInv, CopyRowsEnd
  PROVE  IInv'
<1>1. job.pc = "rows" /\ CopyStays /\ job.pc \in OffSteps \ {"restore"} /\ UNCHANGED <<pool, faults>>
  BY DEF CopyRowsEnd, OffSteps
<1>2. CASE job' = [job EXCEPT !.pc = "last"] /\ UNCHANGED output
  <2>1. /\ job' \in JobType /\ job'.kind = job.kind /\ job'.conn = job.conn
        /\ job'.at = job.at /\ job'.status = "Running" /\ job'.result = "ok"
        /\ job'.mysql_thread_id = job.mysql_thread_id /\ job'.pc = "last"
    BY <1>1, <1>2, OffBefore DEF JobType, Steps, CopySteps
  <2> QED BY <1>1, <1>2, <2>1, CopyTableGoesOn DEF OffSteps
<1>3. CASE job' = NextObject /\ output' = [output EXCEPT !.part[job.at] = "whole"]
  BY <1>1, <1>3, CopyTableEnds
<1> QED BY <1>2, <1>3 DEF CopyRowsEnd

LEMMA CopyFlushPreserves ==
  ASSUME IInv, CopyFlush \/ CopyFlushLast
  PROVE  IInv'
<1>1. job.pc \in {"flush", "last"} /\ CopyStays /\ job.pc \in OffSteps \ {"restore"}
  BY DEF CopyFlush, CopyFlushLast, OffSteps
<1>2. CASE /\ output' = [output EXCEPT !.part[job.at] = "part"]
           /\ job' = [job EXCEPT !.pc = "rows", !.batch = 1] /\ UNCHANGED <<pool, faults>>
  <2>1. 1 \in 0 .. BatchSize
    BY BoundsAssumption
  <2>2. /\ job' \in JobType /\ job'.kind = job.kind /\ job'.conn = job.conn
        /\ job'.at = job.at /\ job'.status = "Running" /\ job'.result = "ok"
        /\ job'.mysql_thread_id = job.mysql_thread_id /\ job'.pc = "rows"
    BY <1>1, <1>2, <2>1, OffBefore DEF JobType, Steps, CopySteps
  <2> QED BY <1>1, <1>2, <2>2, CopyTableGoesOn DEF OffSteps
<1>3. CASE /\ output' = [output EXCEPT !.part[job.at] = "whole"] /\ job' = NextObject
           /\ UNCHANGED <<pool, faults>>
  BY <1>1, <1>3, CopyTableEnds
<1>4. CASE CopyFails("restore") /\ UNCHANGED output
  BY <1>1, <1>4, CopyFailing
<1> QED BY <1>2, <1>3, <1>4 DEF CopyFlush, CopyFlushLast

LEMMA CopyRestoresChecksPreserves ==
  ASSUME IInv, CopyRestoresChecks
  PROVE  IInv'
<1>1. job.pc = "restore" /\ UNCHANGED <<input, output, user, saved>>
  BY DEF CopyRestoresChecks
<1>2. /\ job \in JobType /\ output \in OutputType /\ job.kind = "copy" /\ job.at \in Tables
      /\ job.status \in {"Running", "Cancelled"} /\ 0 \in 0 .. PoolSize
      /\ job.result = "ok" => Whole
      /\ job.conn # 0 => job.conn \in Conns
      /\ gaps \subseteq Gaps /\ "unrestored" \notin gaps
  BY <1>1, CopyBefore, HeldFacts DEF CopySteps, IInv, TypeOK, RefusedInv
<1>3. /\ job' \in JobType /\ job'.kind = "copy" /\ job'.pc = "status" /\ job'.conn = 0
      /\ job'.at = job.at /\ job'.status = job.status
      /\ job'.result = job.result \/ job'.result = "err"
      /\ job'.mysql_thread_id = job.mysql_thread_id
  BY <1>2 DEF CopyRestoresChecks, JobType, Steps
<1>4. (Fault \/ UNCHANGED faults) /\ gaps \subseteq gaps' /\ gaps' \subseteq Gaps
  BY <1>2 DEF CopyRestoresChecks, Gaps
<1>5. PoolKept /\ ChecksInv' /\ RefusedInv'
  <2>1. CASE /\ job.conn # 0 /\ free' = free \cup {job.conn}
             /\ conns' = [conns EXCEPT ![job.conn].checks = TRUE]
             /\ UNCHANGED <<idle, opened, gaps>>
    <3>1. /\ conns' \in [Conns -> SessionType] /\ conns'[job.conn].checks
          /\ \A d \in Conns : /\ conns'[d].thread = conns[d].thread
                              /\ d # job.conn => conns'[d] = conns[d]
      BY ZenonT(40), <1>2, <2>1, HeldFacts DEF PoolTypeOK, SessionType
    <3>2. PoolKept
      BY <1>1, <1>3, <2>1, <3>1, OwnSessionFacts
    <3> QED BY <1>2, <2>1, <3>1, <3>2 DEF IInv, ChecksInv, RefusedInv
  <2>2. CASE job.conn = 0 /\ UNCHANGED <<pool, gaps>>
    BY <1>1, <1>2, <1>3, <2>2, CopyLeaves DEF RefusedInv
  <2>3. CASE job.conn # 0 /\ Discard(job.conn) /\ UNCHANGED gaps
    BY <1>1, <1>2, <1>3, <2>3, CopyLoses DEF RefusedInv
  <2>4. CASE /\ job.conn # 0 /\ GiveBack(job.conn) /\ gaps' = gaps \cup {"unrestored"}
             /\ job'.result = "err"
    <3>1. PoolKept
      BY <1>1, <1>3, <2>4, MovesFacts DEF Moves
    <3> QED BY <1>2, <1>3, <2>4, <3>1 DEF ChecksInv, RefusedInv
  <2>5. job' = [job EXCEPT !.pc = "status", !.conn = 0, !.result = "err"] => job'.result = "err"
    BY <1>2 DEF JobType
  <2> QED BY <2>1, <2>2, <2>3, <2>4, <2>5 DEF CopyRestoresChecks
<1>6. CopyFrame
  BY <1>1, <1>2, <1>3, <1>4, <1>5 DEF CopyFrame, ConnSteps
<1>7. PartInv'
  BY <1>1, <1>2, <1>3 DEF PartInv, DumpSteps, CopySteps, Whole
<1>8. FinalInv'
  BY <1>2, <1>3 DEF FinalInv
<1> QED BY <1>5, <1>6, <1>7, <1>8, CopyPreserves

LEMMA CopyStatusPreserves ==
  ASSUME IInv, CopyStatus
  PROVE  IInv'
<1>1. /\ job.pc = "status" /\ job.kind = "copy"
      /\ UNCHANGED <<output, pool, faults>> /\ CopyStays
  BY DEF CopyStatus
<1>2. /\ job \in JobType /\ output \in OutputType /\ job.at \in Tables /\ job.conn = 0
      /\ job.result = "ok" => Whole
      /\ job.status # "Completed"
  BY <1>1, CopyBefore DEF ConnSteps
<1>3. /\ job' \in JobType /\ job'.kind = "copy" /\ job'.pc = "ended" /\ job'.conn = 0
      /\ job'.at = job.at /\ job'.mysql_thread_id = job.mysql_thread_id
      /\ job'.status = "Completed" => job.result = "ok"
  <2>1. CASE job' = [job EXCEPT !.pc = "ended"]
    BY <1>1, <1>2, <2>1 DEF JobType, Steps
  <2>2. ASSUME NEW s \in Terminal, job' = [job EXCEPT !.status = s, !.pc = "ended"],
               s = "Completed" => job.result = "ok"
        PROVE  <1>3!:
    BY <1>1, <1>2, <2>2 DEF JobType, Steps, Statuses
  <2>3. \/ job' = [job EXCEPT !.pc = "ended"]
        \/ job' = UpdateStatus("Completed") /\ job.result = "ok"
        \/ job' = UpdateStatus("Cancelled")
        \/ job' = UpdateStatus("Failed")
    BY DEF CopyStatus
  <2> QED BY <2>1, <2>2, <2>3 DEF UpdateStatus, Terminal
<1>4. CopyFrame
  <2>1. gaps' = gaps /\ gaps \subseteq Gaps
    BY <1>1 DEF CopyStays, IInv, TypeOK
  <2>2. RefusedInv'
    BY <1>1, <1>3, <2>1 DEF IInv, RefusedInv
  <2> QED BY <1>1, <1>2, <1>3, <2>1, <2>2 DEF CopyFrame, CopyStays, ConnSteps
<1>5. PoolKept /\ ChecksInv'
  BY <1>1, <1>2, <1>3, CopyLeaves DEF CopyStays
<1>6. PartInv' /\ FinalInv'
  BY <1>1, <1>2, <1>3 DEF PartInv, FinalInv, DumpSteps, CopySteps, Whole
<1> QED BY <1>4, <1>5, <1>6, CopyPreserves

----------
(* The import. *)

LEMMA ScriptFacts ==
  ASSUME NEW s \in Scripts
  PROVE  /\ Len(s) \in Nat
         /\ \A i \in 1 .. Len(s) : s[i] \in {"autocommit0", "lock", "insert", "unlock", "commit"}
         /\ \A i \in 1 .. Len(s) :
              s[i] = "commit" => \E k \in 1 .. Len(s) : k < i /\ s[k] = "insert"
         /\ s = Locked => \A i \in 1 .. Len(s) : s[i] \in {"lock", "insert", "unlock"}
         /\ s = Locked => \E i \in 1 .. Len(s) : s[i] = "insert"
         /\ s # Locked => \E i \in 1 .. Len(s) : s[i] = "commit"
<1>1. CASE s = Locked
  <2>1. /\ Len(s) = 3 /\ s[1] = "lock" /\ s[2] = "insert" /\ s[3] = "unlock"
    BY <1>1 DEF Locked
  <2> QED BY <1>1, <2>1
<1>2. CASE s = <<"autocommit0", "lock", "insert", "unlock", "commit">>
  <2>1. /\ Len(s) = 5 /\ s[1] = "autocommit0" /\ s[2] = "lock" /\ s[3] = "insert"
        /\ s[4] = "unlock" /\ s[5] = "commit"
    BY <1>2
  <2>2. s # Locked
    BY <2>1 DEF Locked
  <2> QED BY <2>1, <2>2
<1>3. CASE s = <<"autocommit0", "insert", "commit">>
  <2>1. /\ Len(s) = 3 /\ s[1] = "autocommit0" /\ s[2] = "insert" /\ s[3] = "commit"
    BY <1>3
  <2>2. s # Locked
    BY <2>1 DEF Locked
  <2> QED BY <2>1, <2>2
<1> QED BY <1>1, <1>2, <1>3 DEF Scripts

\* What every step of an import keeps.
ImportFrame ==
  /\ job.kind = "import" /\ job'.kind = "import"
  /\ UNCHANGED <<input, output, user>> /\ (Fault \/ UNCHANGED faults)
  /\ gaps \subseteq gaps' /\ gaps' \subseteq gaps \cup OtherGaps
  /\ saved' \subseteq saved \cup {"row", "edit"}
  /\ job' \in JobType /\ job'.mysql_thread_id = job.mysql_thread_id
  /\ job'.pc \in ImportSteps \cup {"ended"}
  /\ job'.pc = "wait" <=> job'.conn # 0
  /\ job'.status # "Running" => job'.pc = "ended"

LEMMA ImportPreserves ==
  ASSUME IInv, ImportFrame, PoolKept, \A c \in Conns : conns[c].checks => conns'[c].checks,
         ImportInv'
  PROVE  IInv'
<1>1. TypeOK'
  BY JobTypes DEF OtherGaps, ImportFrame, IInv, TypeOK
<1>2. StepInv'
  BY DEF ImportFrame, IInv, StepInv, user, ConnSteps, DumpSteps, CopySteps, ImportSteps
<1>3. ThreadInv'
  BY DEF ImportFrame, IInv, StepInv, ThreadInv, DumpSteps
<1>4. ChecksInv' /\ RefusedInv'
  BY DEF ImportFrame, IInv, StepInv, ChecksInv, RefusedInv, OtherGaps, OffSteps, CopySteps
<1>5. FileInv'
  BY DEF ImportFrame, IInv, StepInv, FileInv, DumpSteps, ImportSteps
<1>6. PartInv' /\ FinalInv'
  BY DEF ImportFrame, PartInv, FinalInv
<1> QED BY <1>1, <1>2, <1>3, <1>4, <1>5, <1>6 DEF IInv, PoolKept

LEMMA ImportBefore ==
  ASSUME IInv, job.pc \in ImportSteps
  PROVE  /\ job \in JobType /\ job.kind = "import" /\ job.status = "Running"
         /\ input.script \in Scripts /\ input.torn \in Nat
         /\ job.at \in 1 .. Len(input.script) + 1
         /\ job.pc \in {"send", "wait"} => job.at <= Len(input.script)
         /\ input.stop => job.errors = 0
         /\ job.last <= opened /\ opened \in Nat /\ job.last \in Nat
         /\ job.pc = "wait" <=> job.conn # 0
         /\ job.pc = "wait" => conns[job.conn].thread = job.last
         /\ 0 \in 0 .. PoolSize
<1>1. /\ job \in JobType /\ input.script \in Scripts /\ input.torn \in Nat /\ opened \in Nat
      /\ job.last \in Nat /\ 0 \in 0 .. PoolSize
  BY BoundsAssumption DEF IInv, TypeOK, InputType, JobType
<1>2. job.kind = "import" /\ (job.pc = "wait" <=> job.conn # 0)
  BY DEF IInv, StepInv, ConnSteps, ImportSteps
<1>3. job.status = "Running"
  BY <1>2 DEF IInv, FinalInv, ImportSteps
<1> QED BY <1>1, <1>2, <1>3 DEF IInv, ImportInv

\* A statement that was refused, or whose connection broke.
LEMMA ImportRefused ==
  ASSUME IInv, job.pc \in {"send", "wait"}, job' = ImportStatementFails,
         Moves, Fault \/ UNCHANGED faults, UNCHANGED <<input, output, user, saved, gaps>>
  PROVE  IInv'
<1>1. /\ job \in JobType /\ job.kind = "import" /\ job.status = "Running"
      /\ job.at \in 1 .. Len(input.script) /\ Len(input.script) \in Nat
      /\ 0 \in 0 .. PoolSize /\ job.last <= opened /\ opened \in Nat /\ job.last \in Nat
  BY ImportBefore, ScriptFacts DEF ImportSteps
<1>2. /\ job.at + 1 \in Nat /\ job.errors + 1 \in Nat /\ job.errors + 1 # 0
  BY <1>1 DEF JobType
<1>3. /\ job' \in JobType /\ job'.kind = "import" /\ job'.conn = 0
      /\ job'.mysql_thread_id = job.mysql_thread_id /\ job'.last = job.last
      /\ job'.errors = job.errors + 1
      /\ \/ input.stop /\ job'.pc = "ended" /\ job'.status = "Failed" /\ job'.at = job.at
         \/ ~input.stop /\ job'.pc = "check" /\ job'.status = "Running" /\ job'.at = job.at + 1
  <2>1. CASE /\ input.stop
             /\ job' = [UpdateStatus("Failed") EXCEPT !.errors = job.errors + 1, !.conn = 0]
    BY <1>1, <1>2, <2>1 DEF UpdateStatus, JobType, Steps, Statuses, Terminal
  <2>2. CASE /\ ~input.stop
             /\ job' = [job EXCEPT !.pc = "check", !.at = job.at + 1,
                                   !.errors = job.errors + 1, !.conn = 0]
    BY <1>1, <1>2, <2>2 DEF JobType, Steps, ImportSteps
  <2> QED BY <2>1, <2>2 DEF ImportStatementFails
<1>4. ImportFrame
  BY <1>1, <1>3 DEF ImportFrame, ImportSteps
<1>5. PoolKept /\ \A c \in Conns : conns[c].checks => conns'[c].checks
  BY MovesFacts
<1>6. ImportInv'
  <2>1. input.script = Locked => \A c \in Conns : conns'[c].autocommit
    <3>1. CASE GiveBack(job.conn) /\ job.conn # 0
      BY <1>1, <3>1, HeldFacts, GiveBackFacts DEF Kept, IInv, ImportInv
    <3>2. CASE Discard(job.conn) /\ job.conn # 0
      BY <1>1, <3>2, HeldFacts, DiscardFacts, FreshFields DEF Discard, IInv, ImportInv
    <3>3. CASE UNCHANGED pool
      BY <1>1, <3>3 DEF pool, IInv, ImportInv
    <3>4. ASSUME NEW c \in Conns, Take(c)
          PROVE  input.script = Locked => \A d \in Conns : conns'[d].autocommit
      <4>1. /\ conns'[c] = conns[c] \/ Opened(c)
            /\ \A d \in Conns : d # c => conns'[d] = conns[d]
        BY <3>4, HeldFacts, TakeFacts
      <4>2. input.script = Locked => \A d \in Conns : conns[d].autocommit
        BY <1>1 DEF IInv, ImportInv
      <4> QED BY <4>1, <4>2, FreshFields DEF Opened
    <3>5. CASE \E c \in Conns : Take(c)
      BY <3>4, <3>5
    <3>6. \/ UNCHANGED pool \/ \E c \in Conns : Take(c)
          \/ job.conn # 0 /\ GiveBack(job.conn)
          \/ job.conn # 0 /\ Discard(job.conn)
      BY Zenon DEF Moves, Passing, Acquire
    <3> QED BY <3>1, <3>2, <3>3, <3>5, <3>6
  <2>2. job'.at \in 1 .. Len(input.script) + 1
    BY <1>1, <1>3
  <2>3. job'.last <= opened'
    BY <1>1, <1>3, <1>5 DEF PoolKept
  <2> QED BY <1>2, <1>3, <2>1, <2>2, <2>3 DEF ImportFrame, ImportInv
<1> QED BY <1>4, <1>5, <1>6, ImportPreserves

LEMMA ImportReadsPreserves ==
  ASSUME IInv, ImportReads \/ ImportChecks
  PROVE  IInv'
<1>1. /\ job.pc \in {"read", "check"} /\ UNCHANGED <<input, output, pool, user, saved>>
      /\ Fault \/ UNCHANGED faults
      /\ gaps \subseteq gaps' /\ gaps' \subseteq gaps \cup OtherGaps
  BY DEF ImportReads, ImportChecks, Gaps, OtherGaps
<1>2. /\ job \in JobType /\ job.kind = "import" /\ job.status = "Running" /\ job.conn = 0
      /\ Len(input.script) \in Nat /\ job.at \in 1 .. Len(input.script) + 1
      /\ input.stop => job.errors = 0
  BY <1>1, ImportBefore, ScriptFacts DEF ImportSteps
<1>3. /\ job' \in JobType /\ job'.kind = "import" /\ job'.conn = 0
      /\ job'.mysql_thread_id = job.mysql_thread_id
      /\ job'.at = job.at /\ job'.errors = job.errors /\ job'.last = job.last
      /\ \/ job'.pc \in {"check", "dead"} /\ job'.status = "Running"
         \/ job'.pc = "send" /\ job'.status = "Running" /\ job.at <= Len(input.script)
         \/ job'.pc = "ended" /\ job'.status \in {"Failed", "Cancelled"}
         \/ job'.pc = "ended" /\ job'.status = "Completed" /\ job.at > Len(input.script)
  <2>1. ASSUME NEW p \in {"check", "dead", "send"}, job' = [job EXCEPT !.pc = p],
               p = "send" => job.at <= Len(input.script)
        PROVE  <1>3!:
    BY <1>2, <2>1 DEF JobType, Steps, ImportSteps
  <2>2. ASSUME NEW s \in Terminal, job' = [job EXCEPT !.status = s, !.pc = "ended"],
               s = "Completed" => job.at > Len(input.script)
        PROVE  <1>3!:
    BY <1>2, <2>2 DEF JobType, Steps, Statuses, Terminal
  <2>3. \/ job' = [job EXCEPT !.pc = "check"]
        \/ job' = [job EXCEPT !.pc = "dead"]
        \/ job' = [job EXCEPT !.pc = "send"] /\ job.at <= Len(input.script)
        \/ job' = UpdateStatus("Completed") /\ job.at > Len(input.script)
        \/ job' = UpdateStatus("Cancelled")
        \/ job' = UpdateStatus("Failed")
    <3>1. CASE ImportReads
      BY <3>1 DEF ImportReads
    <3>2. CASE ImportChecks /\ job.at > Len(input.script)
      BY <3>2 DEF ImportChecks
    <3>3. CASE ImportChecks /\ job.at <= Len(input.script)
      <4>1. ~(job.at > Len(input.script))
        BY <1>2, <3>3
      <4> QED BY <3>3, <4>1 DEF ImportChecks
    <3> QED BY <1>2, <3>1, <3>2, <3>3
  <2> QED BY <2>1, <2>2, <2>3 DEF UpdateStatus, Terminal
<1>4. ImportFrame
  BY <1>1, <1>2, <1>3 DEF ImportFrame, ImportSteps
<1>5. PoolKept /\ \A c \in Conns : conns[c].checks => conns'[c].checks
  BY <1>1, <1>2, <1>3, MovesFacts DEF Moves
<1>6. ImportInv'
  <2>1. \A s : Done(s)' <=> Done(s)
    BY <1>1, <1>3 DEF Done
  <2>2. conns' = conns /\ opened' = opened
    BY <1>1 DEF pool
  <2> QED BY <1>1, <1>2, <1>3, <2>1, <2>2 DEF IInv, ImportInv
<1> QED BY <1>4, <1>5, <1>6, ImportPreserves

LEMMA ImportAcquiresPreserves ==
  ASSUME IInv, ImportAcquires
  PROVE  IInv'
<1>1. job.pc = "send" /\ UNCHANGED <<input, output, user, saved>>
  BY DEF ImportAcquires
<1>2. /\ job \in JobType /\ job.kind = "import" /\ job.status = "Running" /\ job.conn = 0
      /\ Len(input.script) \in Nat /\ job.at \in 1 .. Len(input.script)
      /\ input.stop => job.errors = 0
      /\ job.last <= opened /\ opened \in Nat /\ job.last \in Nat
  BY <1>1, ImportBefore, ScriptFacts DEF ImportSteps
<1>3. ASSUME NEW c \in Conns, Acquire(c), UNCHANGED faults,
             job' = [job EXCEPT !.pc = "wait", !.conn = c, !.last = conns'[c].thread],
             gaps' = IF job.last \in {0, conns'[c].thread} THEN gaps
                     ELSE gaps \cup {"scattered"}
      PROVE  IInv'
  <2>1. /\ conns' \in [Conns -> SessionType] /\ opened' \in Nat
        /\ conns'[c].thread # 0
        /\ conns'[c] = conns[c] \/ Opened(c)
        /\ \A d \in Conns : d # c => conns'[d] = conns[d]
        /\ PoolOK(Held \cup {c}, idle', free, conns', opened')
    BY <1>3, HeldFacts, TakeFacts DEF Acquire
  <2>2. /\ conns'[c].thread \in Nat /\ conns'[c].thread <= opened'
        /\ \A d \in Conns : conns'[d].thread = conns'[c].thread => d = c
    BY <2>1 DEF PoolOK, SessionType
  <2>3. c \in 0 .. PoolSize /\ c # 0
    BY BoundsAssumption DEF Conns
  <2>4. /\ job' \in JobType /\ job'.kind = "import" /\ job'.pc = "wait" /\ job'.conn = c
        /\ job'.mysql_thread_id = job.mysql_thread_id /\ job'.last = conns'[c].thread
        /\ job'.at = job.at /\ job'.errors = job.errors /\ job'.status = "Running"
    BY <1>2, <1>3, <2>2, <2>3 DEF JobType, Steps, ImportSteps
  <2>5. ImportFrame
    BY <1>1, <1>2, <1>3, <2>3, <2>4 DEF ImportFrame, ImportSteps, Gaps, OtherGaps
  <2>6. PoolKept /\ \A d \in Conns : conns[d].checks => conns'[d].checks
    BY <1>1, <1>2, <1>3, <2>4, MovesFacts DEF Moves
  <2>7. ImportInv'
    <3>1. \A s : Done(s)' <=> Done(s)
      BY <1>1, <2>4 DEF Done
    <3>2. input.script = Locked => \A d \in Conns : conns'[d].autocommit
      BY <1>2, <2>1, FreshFields DEF Opened, IInv, ImportInv
    <3>3. ASSUME job.errors = 0, "scattered" \notin gaps'
          PROVE  /\ Done("insert") => \/ "row" \in saved
                                      \/ "row" \in conns'[c].pending
                 /\ Done("insert") /\ input.script = Locked => "row" \in saved
                 /\ Done("commit") => "row" \in saved
      <4>1. "scattered" \notin gaps /\ job.last \in {0, conns'[c].thread}
        BY <1>3, <3>3
      <4>2. job.last = 0 => \A s : ~Done(s)
        BY <1>2, <3>3, <4>1 DEF IInv, ImportInv, Done
      <4>3. job.last # 0 => conns'[c] = conns[c]
        BY <1>2, <2>1, <4>1, FreshFields DEF Opened
      <4>4. /\ Done("insert") =>
                 \/ "row" \in saved
                 \/ \A d \in Conns : conns[d].thread = job.last => "row" \in conns[d].pending
            /\ Done("insert") /\ input.script = Locked => "row" \in saved
            /\ Done("commit") => "row" \in saved
        BY <1>2, <3>3, <4>1 DEF IInv, ImportInv
      <4> QED BY <4>1, <4>2, <4>3, <4>4
    <3> QED BY <1>1, <1>2, <2>1, <2>2, <2>4, <3>1, <3>2, <3>3 DEF ImportInv
  <2> QED BY <2>5, <2>6, <2>7, ImportPreserves
<1>4. CASE Fault /\ job' = ImportStatementFails /\ UNCHANGED <<pool, gaps>>
  <2>1. job'.conn = 0
    BY <1>2, <1>4 DEF ImportStatementFails, UpdateStatus, JobType
  <2> QED BY <1>1, <1>2, <1>4, <2>1, ImportRefused DEF Moves
<1> QED BY <1>3, <1>4 DEF ImportAcquires

LEMMA StatementFacts ==
  ASSUME NEW r \in SessionType,
         NEW s \in {"autocommit0", "lock", "insert", "unlock", "commit"}
  PROVE  /\ Session(r, s) \in SessionType
         /\ Session(r, s).thread = r.thread /\ Session(r, s).checks = r.checks
         /\ s # "autocommit0" => Session(r, s).autocommit = r.autocommit
         /\ Commits(r, s) \subseteq {"row", "edit"}
         /\ s = "insert" => "row" \in Commits(r, s) \/ "row" \in Session(r, s).pending
         /\ s = "insert" /\ r.autocommit => "row" \in Commits(r, s)
         /\ "row" \in r.pending =>
              "row" \in Commits(r, s) \/ "row" \in Session(r, s).pending
         /\ "row" \in r.pending /\ s = "commit" => "row" \in Commits(r, s)
<1>1. CASE s = "autocommit0"
  BY <1>1 DEF Session, Commits, SessionType
<1>2. CASE s = "lock"
  BY <1>2 DEF Session, Commits, SessionType
<1>3. CASE s = "unlock"
  BY <1>3 DEF Session, Commits, SessionType
<1>4. CASE s = "commit"
  BY <1>4 DEF Session, Commits, SessionType
<1>5. CASE s = "insert"
  BY <1>5 DEF Session, Commits, SessionType
<1> QED BY <1>1, <1>2, <1>3, <1>4, <1>5

LEMMA ImportExecutesPreserves ==
  ASSUME IInv, ImportExecutes
  PROVE  IInv'
<1> DEFINE c == job.conn
           s == input.script[job.at]
<1>1. job.pc = "wait" /\ UNCHANGED <<input, output, user, gaps>>
  BY DEF ImportExecutes
<1>2. /\ job \in JobType /\ job.kind = "import" /\ job.status = "Running"
      /\ c # 0 /\ c \in Conns /\ conns[c].thread = job.last
      /\ Len(input.script) \in Nat /\ job.at \in 1 .. Len(input.script)
      /\ input.script \in Scripts
      /\ input.stop => job.errors = 0
      /\ job.last <= opened /\ opened \in Nat /\ job.last \in Nat /\ 0 \in 0 .. PoolSize
  BY <1>1, ImportBefore, ScriptFacts, HeldFacts DEF ImportSteps
<1>3. CASE /\ ~Waits(c, s) /\ Succeeds(c)
           /\ conns' = [conns EXCEPT ![c] = Session(conns[c], s)]
           /\ saved' = saved \cup Commits(conns[c], s)
           /\ free' = free \cup {c} /\ UNCHANGED <<idle, opened>>
           /\ job' = [job EXCEPT !.pc = "check", !.at = job.at + 1, !.conn = 0]
  <2> HIDE DEF c, s
  <2>1. s \in {"autocommit0", "lock", "insert", "unlock", "commit"} /\ conns[c] \in SessionType
    BY <1>2, ScriptFacts, HeldFacts DEF s, PoolTypeOK
  <2>2. /\ conns' \in [Conns -> SessionType] /\ conns'[c] = Session(conns[c], s)
        /\ \A d \in Conns : d # c => conns'[d] = conns[d]
        /\ \A d \in Conns : conns'[d].thread = conns[d].thread /\ conns'[d].checks = conns[d].checks
    BY <1>2, <1>3, <2>1, HeldFacts, StatementFacts DEF PoolTypeOK
  <2>3. /\ job' \in JobType /\ job'.kind = "import" /\ job'.pc = "check" /\ job'.conn = 0
        /\ job'.mysql_thread_id = job.mysql_thread_id /\ job'.last = job.last
        /\ job'.at = job.at + 1 /\ job'.errors = job.errors /\ job'.status = "Running"
    <3>1. job.at + 1 \in Nat
      BY <1>2 DEF JobType
    <3>2. job' = [job EXCEPT !.pc = "check", !.at = job.at + 1, !.conn = 0]
      BY <1>3
    <3> QED BY <1>2, <3>1, <3>2 DEF JobType, Steps, ImportSteps
  <2>4. ImportFrame
    BY <1>1, <1>2, <1>3, <2>1, <2>3, StatementFacts DEF ImportFrame, ImportSteps, Succeeds
  <2>5. PoolKept
    BY <1>1, <1>2, <1>3, <2>2, <2>3, OwnSessionFacts DEF c
  <2>6. \A d \in Conns : d # c => conns[d].thread # job.last
    BY <1>2, HeldFacts DEF PoolOK, c
  <2>7. input.script = Locked => \A d \in Conns : conns'[d].autocommit
    <3> SUFFICES ASSUME input.script = Locked
                 PROVE  \A d \in Conns : conns'[d].autocommit
      OBVIOUS
    <3>1. s \in {"lock", "insert", "unlock"}
      BY <1>2, ScriptFacts DEF s
    <3>2. \A d \in Conns : conns[d].autocommit
      BY <1>2 DEF IInv, ImportInv
    <3> QED BY <1>2, <2>1, <2>2, <3>1, <3>2, StatementFacts
  <2>8. ASSUME NEW x, Done(x)'
        PROVE  Done(x) \/ s = x
    <3>1. PICK i \in 1 .. Len(input.script) : i < job.at + 1 /\ input.script[i] = x
      BY <1>1, <2>3, <2>8 DEF Done
    <3>2. i < job.at \/ i = job.at
      BY <1>2, <3>1
    <3> QED BY <3>1, <3>2 DEF Done, s
  <2>9. ASSUME job.errors = 0, "scattered" \notin gaps
        PROVE  /\ job.last # 0
               /\ Done("insert")' => "row" \in saved' \/ "row" \in conns'[c].pending
               /\ Done("insert")' /\ input.script = Locked => "row" \in saved'
               /\ Done("commit")' => "row" \in saved'
    <3>1. /\ Done("insert") => "row" \in saved \/ "row" \in conns[c].pending
          /\ Done("insert") /\ input.script = Locked => "row" \in saved
          /\ Done("commit") => "row" \in saved
      BY <1>2, <2>9 DEF IInv, ImportInv
    <3>2. job.last # 0
      BY <1>2, HeldFacts DEF PoolOK, c
    <3>3. Done("insert")' => "row" \in saved' \/ "row" \in conns'[c].pending
      BY <1>3, <2>1, <2>2, <2>8, <3>1, StatementFacts
    <3>4. Done("insert")' /\ input.script = Locked => "row" \in saved'
      <4>1. input.script = Locked => conns[c].autocommit
        BY <1>2 DEF IInv, ImportInv
      <4> QED BY <1>3, <2>1, <2>8, <3>1, <4>1, StatementFacts
    <3>5. Done("commit")' => "row" \in saved'
      <4>1. s = "commit" => Done("insert")
        BY <1>2, ScriptFacts DEF Done, s
      <4> QED BY <1>3, <2>1, <2>8, <3>1, <4>1, StatementFacts
    <3> QED BY <3>2, <3>3, <3>4, <3>5
  <2>10. ImportInv'
    <3>1. job'.at \in 1 .. Len(input.script) + 1 /\ opened' = opened
      BY <1>2, <1>3, <2>3
    <3>2. \A d \in Conns : conns'[d].thread = job.last => d = c
      BY <2>2, <2>6
    <3> QED BY <1>1, <1>2, <2>3, <2>7, <2>9, <3>1, <3>2 DEF ImportInv
  <2> QED BY <2>2, <2>4, <2>5, <2>10, ImportPreserves
<1>4. CASE Fails(c) /\ job' = ImportStatementFails /\ UNCHANGED saved
  <2>1. job'.conn = 0
    BY <1>2, <1>4 DEF ImportStatementFails, UpdateStatus, JobType
  <2>2. Moves /\ (Fault \/ UNCHANGED faults)
    BY <1>2, <1>4, <2>1 DEF Fails, Moves, Fault
  <2> QED BY <1>1, <1>4, <2>2, ImportRefused
<1> QED BY <1>3, <1>4 DEF ImportExecutes

----------
(* The theorems. *)

LEMMA IInvInit == Init => IInv
<1> SUFFICES ASSUME Init PROVE IInv
  OBVIOUS
<1> USE FreshFields
<1>1. /\ job \in JobType /\ job.pc = "none" /\ job.conn = 0 /\ job.status = "Running"
      /\ job.mysql_thread_id = 0 /\ job.at = 1 /\ job.last = 0 /\ job.errors = 0
      /\ job.result = "ok"
  BY KindsAssumption, BoundsAssumption
     DEF Init, JobType, Steps, Statuses
<1>2. input \in InputType /\ input.script \in Scripts
  BY DEF Init, InputType
<1>3. /\ output \in OutputType /\ ~output.lock /\ ~output.header
  BY DEF Init, OutputType
<1>4. /\ 1 \in Conns /\ Fresh(0) \in SessionType /\ Fresh(1) \in SessionType
      /\ conns \in [Conns -> SessionType]
      /\ \A c \in Conns : conns[c] = IF c = 1 THEN Fresh(1) ELSE Fresh(0)
  BY BoundsAssumption, FreshType DEF Init, Conns
<1>5. /\ idle \in Seq(Conns) /\ Standing(idle) = {1} /\ NoDup(idle)
      /\ free = {} /\ opened = 1
  BY <1>4 DEF Init, Standing, NoDup
<1>6. /\ edit \in EditType /\ edit.pc = "idle" /\ edit.conn = 0
  BY BoundsAssumption DEF Init, EditType
<1>7. TypeOK
  BY <1>1, <1>2, <1>3, <1>4, <1>5, <1>6, BoundsAssumption DEF Init, TypeOK, DialogType
<1>8. StepInv
  BY <1>1, <1>6 DEF StepInv, ConnSteps, DumpSteps, CopySteps, ImportSteps
<1>9. PoolInv
  BY <1>1, <1>4, <1>5, <1>6 DEF PoolInv, PoolOK, Held
<1>10. ThreadInv /\ ChecksInv /\ RefusedInv /\ FileInv /\ FinalInv
  BY <1>1, <1>3, <1>4 DEF Init, ThreadInv, ChecksInv, RefusedInv, FileInv, FinalInv
<1>11. PartInv
  <2>1. 1 \in Tables /\ \A t \in Tables : ~(t < 1)
    BY BoundsAssumption DEF Tables
  <2> QED BY <1>1, <2>1 DEF PartInv
<1>12. ImportInv
  <2>1. \A s : ~Done(s)
    BY <1>1 DEF Done
  <2> QED BY <1>1, <1>2, <1>4, <1>5, <2>1, ScriptFacts DEF ImportInv
<1> QED BY <1>7, <1>8, <1>9, <1>10, <1>11, <1>12 DEF IInv

LEMMA NextPreserves ==
  ASSUME IInv, [Next]_vars
  PROVE  IInv'
<1>1. CASE Dump
  BY <1>1, DumpServerVersionPreserves, DumpStructurePreserves, DumpAcquirePreserves,
     DumpConnectionIdPreserves, DumpFirstRowPreserves, DumpBatchPreserves,
     DumpStreamEndPreserves, DumpStreamFailsPreserves, DumpEndPreserves DEF Dump
<1>2. CASE Copy
  BY <1>2, CopyPinsPreserves, CopyDisablesChecksPreserves, CopyWalkPreserves,
     CopyStructurePreserves, CopyRowsEndPreserves, CopyFlushPreserves,
     CopyRestoresChecksPreserves, CopyStatusPreserves DEF Copy
<1>3. CASE Import
  BY <1>3, ImportReadsPreserves, ImportAcquiresPreserves, ImportExecutesPreserves DEF Import
<1>4. CASE Edit \/ Dialog
  BY <1>4, EditStartsPreserves, EditEndPreserves, StartPreserves, DialogPreserves DEF Edit, Dialog
<1>5. CASE \E c \in Conns : Returned(c)
  BY <1>5, ReturnedPreserves
<1>6. CASE UNCHANGED vars
  <2>1. /\ UNCHANGED <<job, input, output, conns, idle, free, opened>>
        /\ UNCHANGED <<edit, cancel, dialog, poll, saved, faults, gaps>>
    BY <1>6 DEF vars, pool, user
  <2>2. TypeOK'
    BY <2>1 DEF IInv, TypeOK
  <2>3. StepInv' /\ PoolInv'
    BY <2>1 DEF IInv, StepInv, PoolInv, Held
  <2>4. ThreadInv' /\ ChecksInv' /\ RefusedInv' /\ FileInv' /\ PartInv' /\ FinalInv' /\ ImportInv'
    BY <2>1, OthersPreserve DEF SameJob, Passive, Kept, IInv, TypeOK
  <2> QED BY <2>2, <2>3, <2>4 DEF IInv
<1> QED BY <1>1, <1>2, <1>3, <1>4, <1>5, <1>6 DEF Next

LEMMA IInvImplies == IInv => TransferInv
<1> SUFFICES ASSUME IInv PROVE TransferInv
  OBVIOUS
<1>1. ASSUME job.status = "Completed", job.kind = "import"
      PROVE  /\ input.stop => job.errors = 0
             /\ job.errors = 0 /\ "scattered" \notin gaps => "row" \in saved
  <2>1. /\ input.script \in Scripts /\ job.at = Len(input.script) + 1
        /\ input.stop => job.errors = 0
    BY <1>1 DEF IInv, TypeOK, InputType, ImportInv
  <2>2. \A i \in 1 .. Len(input.script) : i < job.at
    BY <2>1, ScriptFacts
  <2>3. input.script = Locked => Done("insert")
    BY <2>1, <2>2, ScriptFacts DEF Done
  <2>4. input.script # Locked => Done("commit")
    BY <2>1, <2>2, ScriptFacts DEF Done
  <2> QED BY <1>1, <2>1, <2>3, <2>4 DEF IInv, ImportInv
<1>2. job.status = "Completed" /\ job.kind # "import" => Whole
  BY KindsAssumption DEF IInv, TypeOK, JobType, PartInv
<1>3. DumpIsWellFormed
  BY DEF DumpIsWellFormed, IInv, FileInv
<1>4. ThreadIsOwn
  <2>1. job.pc \in {"first", "stream"} => job.conn # 0
    BY DEF IInv, StepInv, ConnSteps
  <2> QED BY <2>1 DEF ThreadIsOwn, IInv, ThreadInv
<1>5. ChecksRestored
  BY DEF ChecksRestored, IInv, ChecksInv, RefusedInv, StepInv, OffSteps
<1> QED BY <1>1, <1>2, <1>3, <1>4, <1>5 DEF TransferInv, CompletedIsWhole, IInv

\* For every size of tables, batches and pool: what is reported as completed is whole, a
\* dump file that got its header is well-formed when the dump ends, a cancel's thread is
\* the dump's own, and a copy gives the foreign-key checks back, or fails because the server
\* refused that.
THEOREM TransferSafe == Spec => []TransferInv
<1>1. Init => IInv
  BY IInvInit
<1>2. IInv /\ [Next]_vars => IInv'
  BY NextPreserves
<1>3. IInv => TransferInv
  BY IInvImplies
<1> QED BY <1>1, <1>2, <1>3, PTL DEF Spec

\* The outcome that is reported for a job that has ended does not change.
THEOREM EndedIsFinal == Spec => EndedTransferIsFinal
<1>1. IInv /\ [Next]_vars => [job.status # "Running" => job'.status = job.status]_vars
  <2> SUFFICES ASSUME IInv, [Next]_vars, job.status # "Running"
               PROVE  job'.status = job.status
    OBVIOUS
  <2>1. \/ job.pc = "ended"
        \/ job.kind = "copy" /\ job.pc \in {"restore", "status"}
    BY DEF IInv, FinalInv
  <2>2. job \in JobType
    BY DEF IInv, TypeOK
  <2>3. CASE Dump
    BY <2>1, <2>3, DumpBefore DEF Dump, DumpServerVersion, DumpStructure, DumpAcquire,
       DumpConnectionId, DumpFirstRow, DumpFlush, DumpRow, DumpStreamEnds, DumpStreamBreaks,
       DumpStreamFails, DumpFinish, DumpStatus, DumpSteps
  <2>4. CASE Copy
    BY <2>1, <2>2, <2>4 DEF Copy, CopyPins, CopyEnsuresDatabase, CopyDisablesChecks, CopyObject,
       CopyStructure, CopyRow, CopyRowsEnd, CopyRowsCancelled, CopyReadFails, CopyFlush,
       CopyFlushLast, CopyRestoresChecks, CopyStatus, JobType
  <2>5. CASE Import
    BY <2>1, <2>5 DEF Import, ImportReads, ImportChecks, ImportAcquires, ImportExecutes
  <2>6. CASE Edit \/ Dialog
    BY <2>1, <2>2, <2>6 DEF Edit, EditStarts, EditSucceeds, EditFails, Dialog, StartJob,
       CancelPressed, CancelRechecks, KillArrives, Sleep, GetProgress, ProgressReply, JobType
  <2>7. CASE UNCHANGED job
    BY <2>7
  <2> QED BY <2>3, <2>4, <2>5, <2>6, <2>7 DEF Next, Returned, vars
<1> QED BY IInvInit, NextPreserves, <1>1, PTL DEF Spec, EndedTransferIsFinal

----------
(* Index builds. The parts of the inductive invariant. *)

CallKinds == {"initial", "build", "force", "quiet", "invalidate", "after", "close"}

BuildType ==
  [on : BOOLEAN, live : BOOLEAN, model : Models \cup {NoModel},
   step : {"none", "begin", "work", "ready", "error", "over"}, partial : BOOLEAN]

(* The steps of a call that registers its session and asks for a build.    *)
RunSteps == {"look", "map", "count", "check", "cancel", "insert", "pool"}

(* The steps of a close that has found its session, and the later ones.    *)
UnmapSteps == {"uncount", "unmap", "unmapLast"}

StopSteps == {"stop", "forget", "remove"}

USE DEF RunSteps, UnmapSteps, StopSteps

(* The steps a call of each kind goes through.                             *)
StepsOf(kind) ==
  CASE kind \in {"initial", "after"} -> {"read"} \cup IndexStatuses
    [] kind \in Asking               -> {"start", "done", "failed"} \cup RunSteps
    [] kind = "invalidate"           -> {"start", "done"}
    [] OTHER                         -> {"start", "uncount", "unmap", "unmapLast", "stop", "forget",
                                         "remove", "done"}

Typed(c) ==
  /\ c = [kind |-> c.kind, s |-> c.s, step |-> c.step, model |-> c.model, b |-> c.b, n |-> c.n]
  /\ c.kind \in CallKinds /\ c.s \in Sessions /\ c.step \in StepsOf(c.kind)
  /\ c.model \in Models \cup {NoModel} /\ c.b \in BuildIds \cup {NoBuild}

CallsTyped ==
  IsFiniteSet(calls) /\ Cardinality(calls) <= MaxCalls /\ \A c \in calls : Typed(c)

TypesInv ==
  /\ life \in [Sessions -> {"new", "open", "closed"}] /\ mapped \subseteq Sessions
  /\ count \in Nat \cup {NoCount} /\ token \in BuildIds \cup {NoBuild}
  /\ meta \in [status : {"none", "building", "ready", "error"}, model : Models \cup {NoModel}]
  /\ model \in Models \cup {NoModel} /\ saving \in BOOLEAN /\ asked \in 0 .. MaxAsked
  /\ builds \in [BuildIds -> BuildType] /\ \A b \in BuildIds : builds[b].on => builds[b].step # "none"
  /\ CallsTyped
  /\ connections \in [Sessions -> IndexStatuses \cup {"absent"}]
  /\ sessions \in Seq(Sessions) /\ IsInjective(sessions)
  /\ events \in Seq({"building", "ready", "error"})
  /\ stray \subseteq Sessions /\ races \subseteq Races

(* A session is closed by one call; it is known to the store until then.   *)
CloseInv ==
  /\ \A s \in Sessions : s \in ToSet(sessions) => connections[s] # "absent" /\ life[s] # "new"
  /\ "revived" \notin races => \A s \in Sessions : connections[s] # "absent" => s \in ToSet(sessions)
  /\ \A c \in calls : c.kind = "close" =>
        c.s \in ToSet(sessions) /\ life[c.s] = (IF c.step = "done" THEN "closed" ELSE "open")
  /\ \A c, d \in calls : c.kind = "close" /\ d.kind = "close" /\ c.s = d.s => c = d
  /\ \A s \in ToSet(sessions) :
        life[s] = "open" \/ \E c \in calls : c.kind = "close" /\ c.s = s

(* The closes that have still to unmap their sessions.                     *)
Unmaps == {c \in calls : c.kind = "close" /\ c.step \in UnmapSteps}

(* The calls for which a session is mapped and not counted.                *)
Pending == {c \in calls : c.step \in {"count", "unmap", "unmapLast"}}

(* Unless a call came late, a session is mapped until its close unmaps it, *)
(* and the calls that go on were made for such a session.                  *)
MappedInv ==
  "late" \notin races =>
    /\ \A s \in mapped : life[s] # "new" /\ (ClosePast(s) => \E c \in Unmaps : c.s = s)
    /\ \A c \in calls : c.step \in RunSteps \ {"look", "map"} => c.s \in mapped \/ ClosePast(c.s)
    /\ \A c \in Unmaps : c.s \in mapped
    /\ \A c \in calls : c.step \in {"look", "map"} => life[c.s] # "new"

(* Unless two calls register one session together, one maps it, and then   *)
(* counts it before its close looks it up.                                 *)
RegisterInv ==
  races \cap {"double", "late"} = {} =>
    /\ \A c \in calls : c.step = "map" => c.s \notin mapped
    /\ \A c \in calls : c.step = "count" => c.s \in mapped /\ ~ClosePast(c.s)
    /\ \A c, d \in calls : c.step = d.step /\ c.step \in {"map", "count"} /\ c.s = d.s => c = d

(* A session will still be mapped, or the last close is about to stop the  *)
(* build.                                                                  *)
SessionStays ==
  \/ \E s \in mapped : \A c \in Pending : c.step # "count" => c.s # s
  \/ \E c \in calls : c.step \in {"unmapLast", "stop"}

(* The token is that of the one build that goes on; while there is one, a  *)
(* session stays mapped or the last close is about to take it; it is of a  *)
(* build that runs, or of the call that is about to start it.              *)
TokenInv ==
  /\ "partial" \notin races => \A b \in BuildIds : ~builds[b].partial
  /\ races \cap {"lost", "twice"} = {} =>
        \A b \in BuildIds : builds[b].live /\ ~builds[b].partial => token = b
  /\ races \cap {"double", "late", "reset"} = {} /\ token # NoBuild => SessionStays
  /\ races \cap {"leak", "partial"} = {} /\ token # NoBuild =>
        builds[token].on \/ \E c \in calls : c.step = "pool" /\ c.b = token

(* A call about to start a build has one of its own, that no task has.     *)
SpawnInv ==
  /\ \A c \in calls : c.step = "pool" =>
        c.b \in BuildIds /\ ~builds[c.b].on /\ ~builds[c.b].partial
  /\ \A c, d \in calls : c.step = "pool" /\ d.step = "pool" /\ c.b = d.b => c = d

(* Builds are of the model that is saved.                                  *)
ModelInv ==
  /\ meta.status = "none" => meta = NoMeta
  /\ "model" \notin races =>
       /\ \A c \in calls : c.step \in {"insert", "pool"} => c.model = model /\ model # NoModel
       /\ \A b \in BuildIds : builds[b].on => builds[b].model = model /\ model # NoModel
       /\ events # <<>> => model # NoModel
       /\ \A b \in BuildIds : builds[b].on /\ builds[b].step \in {"work", "ready"} =>
             meta.status # "none" /\ meta.model = model

(* What every session shows at rest: the backend's answer, or the error of *)
(* a build that got no further than stale.                                 *)
Rest == IF model = NoModel THEN "not_configured"
        ELSE IF meta = NoMeta \/ meta.model # model THEN "stale" ELSE meta.status

RightAtRest(status) == status = Rest \/ (Rest = "stale" /\ status = "error")

Working == \E b \in BuildIds : builds[b].on /\ ~builds[b].partial /\ builds[b].step # "over"

(* The last event is an end, unless its build is still to tell of its own. *)
EventsInv ==
  races \cap {"model", "crossed", "partial"} = {} =>
    /\ events # <<>> /\ events[Len(events)] = "building" =>
          \E b \in BuildIds : builds[b].on /\ ~builds[b].partial /\ builds[b].step \in {"work", "ready", "error"}
    /\ events # <<>> /\ ~Working => RightAtRest(events[Len(events)])

OwnCall(s) == \E c \in calls : c.s = s /\ c.kind \in {"initial", "build", "force", "after"}

(* With no end to come, a session shows what is right at rest, or a call   *)
(* of its own will bring it.                                               *)
ShownInv ==
  races \cap {"model", "crossed", "partial"} = {} /\ ~saving /\ ~EndComing =>
    \A s \in ToSet(sessions) \ stray :
      life[s] = "open" =>
        RightAtRest(connections[s]) \/ (connections[s] \in {"building", "stale"} /\ OwnCall(s))

IndexIInv ==
  /\ TypesInv /\ CountIsExact /\ CloseInv /\ MappedInv /\ RegisterInv /\ TokenInv /\ SpawnInv
  /\ ModelInv /\ EventsInv /\ ShownInv
----------
(* Numbers, and the calls in flight. *)

LEMMA LeastNat ==
  ASSUME NEW T, T \subseteq Nat, T # {}
  PROVE  \E x \in T : \A y \in T : x <= y
<1>1. IsWellFoundedOn(OpToRel(<, Nat), Nat)
  BY NatLessThanWellFounded
<1>2. PICK x \in T : \A y \in T : ~ (<<y, x>> \in OpToRel(<, Nat))
  BY <1>1, WFMin
<1>3. ASSUME NEW y \in T PROVE x <= y
  <2>1. ~ (<<y, x>> \in OpToRel(<, Nat))
    BY <1>2
  <2>2. x \in Nat /\ y \in Nat
    OBVIOUS
  <2>3. ~(y < x)
    BY <2>1, <2>2 DEF OpToRel
  <2>. QED BY <2>2, <2>3
<1>. QED BY <1>3

LEMMA MinOf ==
  ASSUME NEW T, T \subseteq Nat, T # {}
  PROVE  Min(T) \in T /\ \A y \in T : Min(T) <= y
<1>1. \E x \in T : \A y \in T : x <= y
  BY LeastNat
<1>. QED BY <1>1 DEF Min

LEMMA Bounds ==
  /\ MaxCalls \in Nat /\ MaxBuilds \in Nat /\ MaxEvents \in Nat /\ MaxAsked \in Nat
  /\ IsFiniteSet(Sessions) /\ Cardinality(Sessions) \in Nat
  /\ NoBuild \notin BuildIds
  BY IndexAssumption, FS_CardinalityType DEF NoBuild, BuildIds

LEMMA StepsAre ==
  ASSUME NEW kind
  PROVE  /\ kind \in {"initial", "after"} => StepsOf(kind) = {"read"} \cup IndexStatuses
         /\ kind \in Asking =>
              StepsOf(kind) = {"start", "done", "failed"} \cup RunSteps
         /\ kind = "invalidate" => StepsOf(kind) = {"start", "done"}
         /\ kind = "close" => StepsOf(kind) = {"start", "done"} \cup UnmapSteps \cup StopSteps
BY DEF StepsOf, Asking

(* A call that begins.                                                     *)
LEMMA CallIs ==
  ASSUME NEW cs, NEW kind \in CallKinds, NEW s \in Sessions, NEW step \in StepsOf(kind),
         NEW d, d = Call(cs, kind, s, step)
  PROVE  /\ Typed(d) /\ d.kind = kind /\ d.s = s /\ d.step = step
         /\ d.b = NoBuild /\ d.model = NoModel
<1>. DEFINE n == Min(0 .. MaxCalls \ {c.n : c \in {e \in cs : e.kind = kind /\ e.s = s}})
<1>1. d = [kind |-> kind, s |-> s, step |-> step, model |-> NoModel, b |-> NoBuild, n |-> n]
  BY DEF Call
<1>. HIDE DEF n
<1>. QED BY <1>1 DEF Typed

(* A call that goes to its next step.                                      *)
LEMMA Goes ==
  ASSUME NEW c, Typed(c), NEW step, NEW d, d = [c EXCEPT !.step = step]
  PROVE  /\ d.kind = c.kind /\ d.s = c.s /\ d.step = step /\ d.b = c.b /\ d.model = c.model
         /\ step \in StepsOf(c.kind) => Typed(d)
<1>1. c = [kind |-> c.kind, s |-> c.s, step |-> c.step, model |-> c.model, b |-> c.b, n |-> c.n]
  BY DEF Typed
<1>2. d = [kind |-> c.kind, s |-> c.s, step |-> step, model |-> c.model, b |-> c.b, n |-> c.n]
  BY <1>1
<1>. QED BY <1>2 DEF Typed

(* The calls after one of them became another, has ended, or one began.    *)
LEMMA CallBecomes ==
  ASSUME CallsTyped, NEW c \in calls, NEW d, Typed(d), calls' = (calls \ {c}) \cup {d}
  PROVE  CallsTyped'
<1>1. IsFiniteSet(calls \ {c}) /\ Cardinality(calls \ {c}) = Cardinality(calls) - 1
  BY FS_RemoveElement DEF CallsTyped
<1>2. /\ IsFiniteSet(calls')
      /\ Cardinality(calls') = IF d \in calls \ {c} THEN Cardinality(calls \ {c})
                               ELSE Cardinality(calls \ {c}) + 1
  BY <1>1, FS_AddElement
<1>3. Cardinality(calls) \in Nat /\ Cardinality(calls) <= MaxCalls
  BY FS_CardinalityType DEF CallsTyped
<1>4. Cardinality(calls') <= MaxCalls
  BY <1>1, <1>2, <1>3, Bounds
<1>5. \A e \in calls' : Typed(e)
  BY DEF CallsTyped
<1>. QED BY <1>2, <1>4, <1>5 DEF CallsTyped, Typed

LEMMA CallEnds ==
  ASSUME CallsTyped, NEW c \in calls, calls' = calls \ {c}
  PROVE  CallsTyped'
<1>1. IsFiniteSet(calls') /\ Cardinality(calls') = Cardinality(calls) - 1
  BY FS_RemoveElement DEF CallsTyped
<1>2. Cardinality(calls) \in Nat /\ Cardinality(calls) <= MaxCalls
  BY FS_CardinalityType DEF CallsTyped
<1>3. Cardinality(calls') <= MaxCalls
  BY <1>1, <1>2, Bounds
<1>4. \A e \in calls' : Typed(e)
  BY DEF CallsTyped
<1>. QED BY <1>1, <1>3, <1>4 DEF CallsTyped, Typed

LEMMA CallBegins ==
  ASSUME CallsTyped, Room(1), NEW d, Typed(d), calls' = calls \cup {d}
  PROVE  CallsTyped'
<1>1. /\ IsFiniteSet(calls')
      /\ Cardinality(calls') = IF d \in calls THEN Cardinality(calls) ELSE Cardinality(calls) + 1
  BY FS_AddElement DEF CallsTyped
<1>2. Cardinality(calls) \in Nat /\ Cardinality(calls) + 1 <= MaxCalls
  BY FS_CardinalityType DEF CallsTyped, Room
<1>3. Cardinality(calls') <= MaxCalls
  BY <1>1, <1>2, Bounds
<1>4. \A e \in calls' : Typed(e)
  BY DEF CallsTyped
<1>. QED BY <1>1, <1>3, <1>4 DEF CallsTyped, Typed

LEMMA CallFacts ==
  ASSUME TypesInv, NEW c \in calls
  PROVE  /\ Typed(c) /\ c.kind \in CallKinds /\ c.s \in Sessions /\ c.step \in StepsOf(c.kind)
         /\ c.model \in Models \cup {NoModel} /\ c.b \in BuildIds \cup {NoBuild}
         /\ c.step \in UnmapSteps \cup StopSteps => c.kind = "close"
         /\ c.step \in RunSteps => c.kind \in Asking
         /\ c.kind = "close" => c.step \in {"start", "done"} \cup UnmapSteps \cup StopSteps
         /\ c.kind \in {"initial", "after"} => c.step \in {"read"} \cup IndexStatuses
<1>1. Typed(c)
  BY DEF TypesInv, CallsTyped
<1>2. /\ c.kind \in CallKinds /\ c.s \in Sessions /\ c.step \in StepsOf(c.kind)
      /\ c.model \in Models \cup {NoModel} /\ c.b \in BuildIds \cup {NoBuild}
  BY <1>1 DEF Typed
<1>3. /\ c.step \in UnmapSteps \cup StopSteps => c.kind = "close"
      /\ c.step \in RunSteps => c.kind \in Asking
      /\ c.kind = "close" => c.step \in {"start", "done"} \cup UnmapSteps \cup StopSteps
      /\ c.kind \in {"initial", "after"} => c.step \in {"read"} \cup IndexStatuses
  BY <1>2 DEF StepsOf, CallKinds, Asking, IndexStatuses
<1>. QED BY <1>1, <1>2, <1>3

----------
(* What a step leaves alone keeps the parts of the invariant about it. *)

(* The calls that close a session.                                         *)
Closes == {c \in calls : c.kind = "close"}

SameCloses == life' = life /\ Closes' = Closes

MoreRaces == races \subseteq races' /\ races' \subseteq Races

LEMMA PastIs ==
  ASSUME NEW s
  PROVE  ClosePast(s) <=> life[s] = "closed" \/ \E c \in Closes : c.s = s /\ c.step # "start"
BY DEF ClosePast, Closes

LEMMA PastFrame ==
  ASSUME SameCloses, NEW s
  PROVE  ClosePast(s)' <=> ClosePast(s)
<1>1. ClosePast(s) <=> life[s] = "closed" \/ \E c \in Closes : c.s = s /\ c.step # "start"
  BY PastIs
<1>2. ClosePast(s)' <=> life'[s] = "closed" \/ \E c \in Closes' : c.s = s /\ c.step # "start"
  BY DEF ClosePast, Closes
<1>. QED BY <1>1, <1>2 DEF SameCloses

LEMMA CountFrame ==
  ASSUME CountIsExact, UNCHANGED <<count, mapped>>, MoreRaces, Pending' = Pending
  PROVE  CountIsExact'
<1>1. CountedSessions = {s \in mapped : ~\E c \in Pending : c.s = s}
  BY DEF CountedSessions, Pending
<1>2. CountedSessions' = {s \in mapped' : ~\E c \in Pending' : c.s = s}
  BY DEF CountedSessions, Pending
<1>3. CountedSessions' = CountedSessions
  BY <1>1, <1>2
<1>. QED BY <1>3 DEF CountIsExact, MoreRaces

LEMMA CloseFrame ==
  ASSUME CloseInv, SameCloses, MoreRaces, sessions' = sessions,
         \A s \in Sessions : connections[s] # "absent" => connections'[s] # "absent",
         \A s \in Sessions : connections[s] = "absent" /\ connections'[s] # "absent" =>
            "revived" \in races'
  PROVE  CloseInv'
<1>1. /\ \A s \in Sessions : s \in ToSet(sessions) => connections[s] # "absent" /\ life[s] # "new"
      /\ "revived" \notin races => \A s \in Sessions : connections[s] # "absent" => s \in ToSet(sessions)
  BY DEF CloseInv
<1>2. /\ \A c \in Closes :
           c.s \in ToSet(sessions) /\ life[c.s] = (IF c.step = "done" THEN "closed" ELSE "open")
      /\ \A c, d \in Closes : c.s = d.s => c = d
      /\ \A s \in ToSet(sessions) : life[s] = "open" \/ \E c \in Closes : c.s = s
  BY DEF CloseInv, Closes
<1>3. ToSet(sessions)' = ToSet(sessions)
  BY DEF ToSet
<1>4. /\ \A s \in Sessions : s \in ToSet(sessions)' => connections'[s] # "absent" /\ life'[s] # "new"
      /\ "revived" \notin races' => \A s \in Sessions : connections'[s] # "absent" => s \in ToSet(sessions)'
  BY <1>1, <1>3 DEF SameCloses, MoreRaces
<1>5. /\ \A c \in Closes' :
           c.s \in ToSet(sessions)' /\ life'[c.s] = (IF c.step = "done" THEN "closed" ELSE "open")
      /\ \A c, d \in Closes' : c.s = d.s => c = d
      /\ \A s \in ToSet(sessions)' : life'[s] = "open" \/ \E c \in Closes' : c.s = s
  BY <1>2, <1>3 DEF SameCloses
<1>6. \A c : c \in Closes' <=> c \in calls' /\ c.kind = "close"
  BY DEF Closes
<1>. QED BY <1>4, <1>5, <1>6 DEF CloseInv

LEMMA MappedFrame ==
  ASSUME MappedInv, RegisterInv, SameCloses, MoreRaces, mapped' = mapped,
         \A c \in calls' : c.step \in RunSteps => c \in calls
  PROVE  MappedInv' /\ RegisterInv'
<1>1. \A s : ClosePast(s)' <=> ClosePast(s)
  BY PastFrame
<1>2. Unmaps' = Unmaps
  BY DEF Unmaps, Closes, SameCloses
<1>3. MappedInv'
  <2>1. \A c \in Unmaps' : c.s \in mapped' <=> c.s \in mapped
    OBVIOUS
  <2>. QED BY <1>1, <1>2, <2>1 DEF MappedInv, SameCloses, MoreRaces
<1>4. RegisterInv'
  BY <1>1 DEF RegisterInv, MoreRaces
<1>. QED BY <1>3, <1>4

LEMMA StaysFrame ==
  ASSUME SessionStays, mapped' = mapped, Pending' = Pending,
         \A c \in calls : c.step = "stop" => c \in calls'
  PROVE  SessionStays'
<1>1. \A c \in calls : c.step = "unmapLast" => c \in calls'
  BY DEF Pending
<1>. QED BY <1>1 DEF SessionStays

LEMMA TokenFrame ==
  ASSUME TokenInv, UNCHANGED <<builds, token, mapped>>, MoreRaces, Pending' = Pending,
         \A c \in calls : c.step \in {"stop", "pool"} => c \in calls'
  PROVE  TokenInv'
<1>1. SessionStays => SessionStays'
  BY StaysFrame
<1>. QED BY <1>1 DEF TokenInv, MoreRaces

LEMMA SpawnFrame ==
  ASSUME SpawnInv, builds' = builds, \A c \in calls' : c.step = "pool" => c \in calls
  PROVE  SpawnInv'
BY DEF SpawnInv

LEMMA ModelFrame ==
  ASSUME ModelInv, UNCHANGED <<builds, meta, model>>, MoreRaces, events # <<>> \/ events' = <<>>,
         \A c \in calls' : c.step \in {"insert", "pool"} => c \in calls
  PROVE  ModelInv'
BY DEF ModelInv, MoreRaces

LEMMA EventsFrame ==
  ASSUME EventsInv, UNCHANGED <<builds, meta, model, events>>, MoreRaces
  PROVE  EventsInv'
BY DEF EventsInv, MoreRaces, Working, RightAtRest, Rest

(* A session shows what it did, or what it is right or fit for it to show.  *)
LEMMA ShownFrame ==
  ASSUME ShownInv, UNCHANGED <<sessions, model, meta, saving>>, MoreRaces,
         EndComing => EndComing',
         \A s \in Sessions : life'[s] = "open" => life[s] = "open",
         \A s \in ToSet(sessions) \ stray' :
            \/ /\ s \notin stray /\ connections'[s] = connections[s]
               /\ \/ OwnCall(s) => OwnCall(s)'
                  \/ connections[s] \notin {"building", "stale"}
            \/ RightAtRest(connections'[s])
            \/ connections'[s] \in {"building", "stale"} /\ OwnCall(s)'
            \/ EndComing'
            \/ life'[s] # "open",
         ToSet(sessions) \subseteq Sessions
  PROVE  ShownInv'
<1>. SUFFICES ASSUME races' \cap {"model", "crossed", "partial"} = {}, ~saving', ~EndComing',
                     NEW s \in ToSet(sessions)' \ stray', life'[s] = "open"
              PROVE  RightAtRest(connections[s])' \/ (connections'[s] \in {"building", "stale"} /\ OwnCall(s)')
  BY DEF ShownInv
<1>1. s \in ToSet(sessions) \ stray'
  BY DEF ToSet
<1>2. \A v : RightAtRest(v)' <=> RightAtRest(v)
  BY DEF RightAtRest, Rest
<1>3. races \cap {"model", "crossed", "partial"} = {} /\ ~saving /\ ~EndComing /\ life[s] = "open"
  BY <1>1 DEF MoreRaces
<1>4. s \notin stray => RightAtRest(connections[s]) \/ (connections[s] \in {"building", "stale"} /\ OwnCall(s))
  BY <1>1, <1>3 DEF ShownInv
<1>5. RightAtRest(connections[s])' <=> RightAtRest(connections'[s])
  BY DEF RightAtRest, Rest
<1>. QED BY <1>1, <1>2, <1>4, <1>5

(* A call that neither closes a session nor is on its way to a build.      *)
Aside(c) == c.kind # "close" /\ c.step \notin RunSteps \cup UnmapSteps

LEMMA AsideCalls ==
  ASSUME TypesInv, NEW gone \in SUBSET calls, NEW come, calls' = (calls \ gone) \cup come,
         \A c \in gone \cup come : Aside(c)
  PROVE  /\ Closes' = Closes /\ Pending' = Pending
         /\ \A c \in calls : c.step \in {"stop", "pool"} => c \in calls'
         /\ \A c \in calls' : c.step \in RunSteps => c \in calls
<1>1. \A c \in gone : c.step # "stop"
  <2>1. \A c \in calls : c.step = "stop" => c.kind = "close"
    BY CallFacts
  <2>. QED BY <2>1 DEF Aside
<1>2. Closes' = Closes
  BY DEF Closes, Aside
<1>3. Pending' = Pending
  BY DEF Pending, Aside
<1>4. \A c \in calls : c.step \in {"stop", "pool"} => c \in calls'
  BY <1>1 DEF Aside
<1>5. \A c \in calls' : c.step \in RunSteps => c \in calls
  BY DEF Aside
<1>. QED BY <1>2, <1>3, <1>4, <1>5

(* A step of the store, or of a call aside: what the backend holds stays.  *)
LEMMA AsideFrame ==
  ASSUME IndexIInv, TypesInv', ShownInv',
         UNCHANGED <<life, mapped, count, token, meta, builds, model, events, sessions>>, MoreRaces,
         NEW gone \in SUBSET calls, NEW come, calls' = (calls \ gone) \cup come,
         \A c \in gone \cup come : Aside(c),
         \A s \in Sessions : connections[s] # "absent" => connections'[s] # "absent",
         \A s \in Sessions : connections[s] = "absent" /\ connections'[s] # "absent" =>
            "revived" \in races'
  PROVE  IndexIInv'
<1>1. /\ Closes' = Closes /\ Pending' = Pending
      /\ \A c \in calls : c.step \in {"stop", "pool"} => c \in calls'
      /\ \A c \in calls' : c.step \in RunSteps => c \in calls
  BY AsideCalls DEF IndexIInv
<1>2. SameCloses
  BY <1>1 DEF SameCloses
<1>3. CountIsExact'
  BY <1>1, CountFrame DEF IndexIInv
<1>4. CloseInv'
  BY <1>2, CloseFrame DEF IndexIInv
<1>5. MappedInv' /\ RegisterInv'
  BY <1>1, <1>2, MappedFrame DEF IndexIInv
<1>6. TokenInv'
  BY <1>1, TokenFrame DEF IndexIInv
<1>7. SpawnInv'
  BY <1>1, SpawnFrame DEF IndexIInv
<1>8. ModelInv'
  BY <1>1, ModelFrame DEF IndexIInv
<1>9. EventsInv'
  BY EventsFrame DEF IndexIInv
<1>. QED BY <1>3, <1>4, <1>5, <1>6, <1>7, <1>8, <1>9 DEF IndexIInv

----------
(* The answers of calls, and the calls of the user. *)

(* A session that is open is told what is right at rest, unless a build is *)
(* under way.                                                              *)
LEMMA AnswerIsRight ==
  ASSUME NEW s, life[s] = "open" \/ get_index_status(s) \in {"stale", "ready", "error"},
         get_index_status(s) # "building"
  PROVE  RightAtRest(get_index_status(s))
BY DEF get_index_status, RightAtRest, Rest, NoMeta

LEMMA StatusIs ==
  ASSUME TypesInv, ModelInv, NEW s
  PROVE  get_index_status(s) \in IndexStatuses
<1>1. meta = NoMeta \/ meta.status \in {"building", "ready", "error"}
  BY DEF TypesInv, ModelInv
<1>. QED BY <1>1 DEF get_index_status, IndexStatuses

LEMMA ReadStatusPreserves ==
  ASSUME IndexIInv, NEW c \in calls, ReadStatus(c)
  PROVE  IndexIInv'
<1>. DEFINE d == [c EXCEPT !.step = get_index_status(c.s)]
<1>1. /\ c.step = "read" /\ calls' = (calls \ {c}) \cup {d}
      /\ UNCHANGED <<life, mapped, count, token, meta, builds, model, events, sessions, connections,
                     saving, asked, stray, races>>
  BY DEF ReadStatus, Goto, Becomes, backend, frontend
<1>2. /\ Typed(c) /\ c.kind \in {"initial", "after"}
  <2>1. Typed(c) /\ c.kind \in CallKinds /\ c.step \in StepsOf(c.kind)
    BY CallFacts DEF IndexIInv
  <2>. QED BY <1>1, <2>1 DEF StepsOf, CallKinds, Asking
<1>3. get_index_status(c.s) \in IndexStatuses /\ get_index_status(c.s) \in StepsOf(c.kind)
  <2>1. get_index_status(c.s) \in IndexStatuses
    BY StatusIs DEF IndexIInv
  <2>2. StepsOf(c.kind) = {"read"} \cup IndexStatuses
    BY <1>2, StepsAre
  <2>. QED BY <2>1, <2>2
<1>4. Typed(d) /\ d.kind = c.kind /\ d.s = c.s /\ d.step \in IndexStatuses
  <2>. DEFINE v == get_index_status(c.s)
  <2>. HIDE DEF v
  <2>1. \A e : e = [c EXCEPT !.step = v] =>
           e.kind = c.kind /\ e.s = c.s /\ e.step = v /\ (v \in StepsOf(c.kind) => Typed(e))
    BY <1>2, Goes
  <2>2. Typed(d) /\ d.kind = c.kind /\ d.s = c.s /\ d.step = v
    BY <1>3, <2>1 DEF v
  <2>. QED BY <1>3, <2>2 DEF v
<1>. HIDE DEF d
<1>5. Aside(c) /\ Aside(d)
  BY <1>1, <1>2, <1>4 DEF Aside, IndexStatuses
<1>6. TypesInv'
  <2>1. CallsTyped'
    BY <1>1, <1>4, CallBecomes DEF IndexIInv, TypesInv
  <2>. QED BY <1>1, <2>1 DEF IndexIInv, TypesInv
<1>7. ShownInv'
  <2>1. \A s : OwnCall(s) => OwnCall(s)'
    BY <1>1, <1>4 DEF OwnCall
  <2>2. EndComing => EndComing'
    BY <1>1 DEF EndComing
  <2>3. MoreRaces /\ ToSet(sessions) \subseteq Sessions
    BY <1>1 DEF MoreRaces, IndexIInv, TypesInv, ToSet
  <2>. QED BY <1>1, <2>1, <2>2, <2>3, ShownFrame DEF IndexIInv
<1>8. MoreRaces /\ {c} \subseteq calls /\ calls' = (calls \ {c}) \cup {d}
  BY <1>1 DEF MoreRaces, IndexIInv, TypesInv
<1>. QED BY <1>1, <1>5, <1>6, <1>7, <1>8, AsideFrame

LEMMA StatusReplyPreserves ==
  ASSUME IndexIInv, NEW c \in calls, StatusReply(c)
  PROVE  IndexIInv'
<1>1. /\ c.step \in IndexStatuses /\ calls' = calls \ {c}
      /\ UNCHANGED <<life, mapped, count, token, meta, builds, model, events, sessions,
                     saving, asked, races>>
      /\ IF Applies(c) THEN Show(c.s, c.step) ELSE UNCHANGED <<connections, stray>>
  BY DEF StatusReply, Finish, backend
<1>2. /\ TypesInv /\ c.s \in Sessions /\ c.kind \in CallKinds /\ c.step \in StepsOf(c.kind)
  BY CallFacts DEF IndexIInv
<1>3. c.kind \in {"initial", "after"}
  <2>1. c.kind \in {"initial", "after"} \/ c.kind \in Asking \/ c.kind \in {"invalidate", "close"}
    BY <1>2 DEF CallKinds, Asking
  <2>. QED BY <1>1, <1>2, <2>1, StepsAre DEF IndexStatuses
<1>4. Aside(c)
  BY <1>1, <1>3 DEF Aside, IndexStatuses
<1>5. connections \in [Sessions -> IndexStatuses \cup {"absent"}] /\ stray \subseteq Sessions
  BY <1>2 DEF TypesInv
<1>6. /\ connections' \in [Sessions -> IndexStatuses \cup {"absent"}]
      /\ stray' \subseteq Sessions
      /\ \A s \in Sessions : s # c.s => connections'[s] = connections[s] /\ (s \in stray' <=> s \in stray)
      /\ \A s \in Sessions : connections[s] # "absent" <=> connections'[s] # "absent"
  <2>1. CASE Applies(c)
    <3>1. connections' = [connections EXCEPT ![c.s] = c.step]
      BY <1>1, <2>1 DEF Show
    <3>2. stray' = stray \ {c.s} \/ stray' = stray \cup {c.s}
      BY <1>1, <2>1 DEF Show
    <3>3. connections[c.s] # "absent" /\ c.step # "absent"
      BY <1>1, <2>1 DEF Applies, IndexStatuses
    <3>. QED BY <1>1, <1>2, <1>5, <3>1, <3>2, <3>3
  <2>2. CASE ~Applies(c)
    BY <1>1, <1>5, <2>2
  <2>. QED BY <2>1, <2>2
<1>7. TypesInv'
  <2>1. CallsTyped'
    BY <1>1, CallEnds DEF IndexIInv, TypesInv
  <2>. QED BY <1>1, <1>2, <1>6, <2>1 DEF TypesInv
<1>8. MoreRaces /\ ToSet(sessions) \subseteq Sessions
  BY <1>1, <1>2 DEF MoreRaces, TypesInv, ToSet
<1>9. ShownInv'
  <2>1. \A s : s # c.s /\ OwnCall(s) => OwnCall(s)'
    BY <1>1 DEF OwnCall
  <2>2. EndComing <=> EndComing'
    BY <1>1 DEF EndComing
  <2>3. ASSUME NEW s \in ToSet(sessions) \ stray', s = c.s, life'[s] = "open", ~EndComing'
        PROVE  \/ s \notin stray /\ connections'[s] = connections[s] /\ connections[s] \notin {"building", "stale"}
               \/ RightAtRest(connections'[s])
    <3>1. CASE Applies(c)
      <4>1. connections'[s] = c.step /\ Holds(s, c.step)
        BY <1>1, <1>5, <1>2, <2>3, <3>1 DEF Show
      <4>2. c.step = get_index_status(s) /\ c.step # "building"
        BY <2>2, <2>3, <4>1 DEF Holds
      <4>3. RightAtRest(get_index_status(s))
        BY <1>1, <2>3, <4>2, AnswerIsRight
      <4>. QED BY <4>1, <4>2, <4>3
    <3>2. CASE ~Applies(c)
      <4>1. connections' = connections /\ stray' = stray
        BY <1>1, <3>2
      <4>2. connections[s] # "absent"
        BY <1>8, <2>3 DEF IndexIInv, CloseInv
      <4>3. connections[s] \notin {"building", "stale"}
        BY <1>3, <2>3, <3>2, <4>2 DEF Applies
      <4>. QED BY <2>3, <4>1, <4>3
    <3>. QED BY <3>1, <3>2
  <2>4. ASSUME NEW s \in ToSet(sessions) \ stray', s # c.s
        PROVE  s \notin stray /\ connections'[s] = connections[s] /\ (OwnCall(s) => OwnCall(s)')
    BY <1>6, <1>8, <2>1, <2>4
  <2>5. \A s \in Sessions : life'[s] = "open" => life[s] = "open"
    BY <1>1
  <2>. QED BY <1>1, <1>8, <2>2, <2>3, <2>4, <2>5, ShownFrame DEF IndexIInv
<1>. DEFINE come == {}
<1>10. /\ {c} \in SUBSET calls /\ calls' = (calls \ {c}) \cup come
       /\ \A e \in {c} \cup come : Aside(e)
  BY <1>1, <1>4
<1>. HIDE DEF come
<1>. QED BY <1>1, <1>6, <1>7, <1>8, <1>9, <1>10, AsideFrame

LEMMA CallFailsPreserves ==
  ASSUME IndexIInv, NEW c \in calls, CallFails(c)
  PROVE  IndexIInv'
<1>1. /\ c.step = "failed" /\ calls' = calls \ {c}
      /\ UNCHANGED <<life, mapped, count, token, meta, builds, model, events, sessions, saving, asked>>
      /\ IF c.kind \in {"build", "force"}
         THEN /\ connections' = [connections EXCEPT ![c.s] = "error"]
              /\ stray' = stray \cup {c.s}
              /\ races' = IF connections[c.s] = "absent" THEN races \cup {"revived"} ELSE races
         ELSE UNCHANGED <<connections, stray, races>>
  BY DEF CallFails, Finish, backend
<1>2. /\ TypesInv /\ c.s \in Sessions /\ c.kind \in CallKinds
      /\ c.kind # "close" /\ c.kind \notin {"initial", "after"}
  BY <1>1, CallFacts DEF IndexIInv, IndexStatuses
<1>3. Aside(c)
  BY <1>1, <1>2 DEF Aside
<1>4. /\ connections \in [Sessions -> IndexStatuses \cup {"absent"}] /\ stray \subseteq Sessions
      /\ races \subseteq Races
  BY <1>2 DEF TypesInv
<1>5. /\ connections' \in [Sessions -> IndexStatuses \cup {"absent"}]
      /\ stray' \subseteq Sessions /\ stray \subseteq stray' /\ MoreRaces
      /\ \A s \in Sessions : s # c.s => connections'[s] = connections[s]
      /\ \A s \in Sessions : connections[s] # "absent" => connections'[s] # "absent"
      /\ \A s \in Sessions : connections[s] = "absent" /\ connections'[s] # "absent" =>
            "revived" \in races'
      /\ c.kind \in {"build", "force"} => c.s \in stray'
      /\ c.kind \notin {"build", "force"} => connections' = connections
  <2>1. CASE c.kind \in {"build", "force"}
    <3>1. races \subseteq races' /\ races' \subseteq Races
      BY <1>1, <1>4, <2>1 DEF Races
    <3>. QED BY <1>1, <1>2, <1>4, <2>1, <3>1 DEF MoreRaces, IndexStatuses
  <2>2. CASE c.kind \notin {"build", "force"}
    BY <1>1, <1>4, <2>2 DEF MoreRaces
  <2>. QED BY <2>1, <2>2
<1>6. TypesInv'
  <2>1. CallsTyped'
    BY <1>1, CallEnds DEF IndexIInv, TypesInv
  <2>. QED BY <1>1, <1>2, <1>5, <2>1 DEF TypesInv, MoreRaces
<1>7. ToSet(sessions) \subseteq Sessions
  BY <1>2 DEF TypesInv, ToSet
<1>8. ShownInv'
  <2>1. \A s : s # c.s /\ OwnCall(s) => OwnCall(s)'
    BY <1>1 DEF OwnCall
  <2>2. EndComing <=> EndComing'
    BY <1>1 DEF EndComing
  <2>3. c.kind \notin {"build", "force"} => \A s : OwnCall(s) => OwnCall(s)'
    BY <1>1, <1>2 DEF OwnCall
  <2>4. ASSUME NEW s \in ToSet(sessions) \ stray'
        PROVE  s \notin stray /\ connections'[s] = connections[s] /\ (OwnCall(s) => OwnCall(s)')
    BY <1>5, <1>7, <2>1, <2>3, <2>4
  <2>5. \A s \in Sessions : life'[s] = "open" => life[s] = "open"
    BY <1>1
  <2>. QED BY <1>1, <1>5, <1>7, <2>2, <2>4, <2>5, ShownFrame DEF IndexIInv
<1>. DEFINE come == {}
<1>9. /\ {c} \in SUBSET calls /\ calls' = (calls \ {c}) \cup come
      /\ \A e \in {c} \cup come : Aside(e)
  BY <1>1, <1>3
<1>. HIDE DEF come
<1>. QED BY <1>1, <1>5, <1>6, <1>8, <1>9, AsideFrame

(* A call that is answered, and has another to follow it.                  *)
LEMMA FollowedPreserves ==
  ASSUME IndexIInv, NEW c \in calls, Aside(c),
         NEW kind \in {"after", "quiet"}, kind = "quiet" => c.kind = "invalidate",
         NEW step \in {"read", "start"}, step \in StepsOf(kind),
         calls' = Begin(calls \ {c}, kind, c.s, step),
         UNCHANGED <<backend, frontend, model, events, stray, races>>
  PROVE  IndexIInv'
<1>. DEFINE d == Call(calls \ {c}, kind, c.s, step)
<1>1. /\ calls' = (calls \ {c}) \cup {d}
      /\ UNCHANGED <<life, mapped, count, token, meta, builds, model, events, sessions, connections,
                     saving, asked, stray, races>>
  BY DEF Begin, backend, frontend
<1>2. TypesInv /\ c.s \in Sessions /\ kind \in CallKinds
  BY CallFacts DEF IndexIInv, CallKinds
<1>3. Typed(d) /\ d.kind = kind /\ d.s = c.s /\ d.step = step
  <2>. DEFINE cs == calls \ {c}
  <2>. HIDE DEF cs
  <2>1. \A e : e = Call(cs, kind, c.s, step) => Typed(e) /\ e.kind = kind /\ e.s = c.s /\ e.step = step
    BY <1>2, CallIs
  <2>. QED BY <2>1 DEF cs
<1>. HIDE DEF d
<1>4. Aside(d)
  BY <1>3 DEF Aside
<1>5. TypesInv'
  <2>1. CallsTyped'
    BY <1>1, <1>3, CallBecomes DEF IndexIInv, TypesInv
  <2>. QED BY <1>1, <1>2, <2>1 DEF TypesInv
<1>6. MoreRaces /\ ToSet(sessions) \subseteq Sessions
  BY <1>1, <1>2 DEF MoreRaces, TypesInv, ToSet
<1>7. ShownInv'
  <2>1. \A s : OwnCall(s) => OwnCall(s)'
    BY <1>1, <1>3 DEF OwnCall
  <2>2. EndComing => EndComing'
    BY <1>1 DEF EndComing
  <2>. QED BY <1>1, <1>6, <2>1, <2>2, ShownFrame DEF IndexIInv
<1>8. {c} \subseteq calls /\ calls' = (calls \ {c}) \cup {d}
  BY <1>1
<1>. QED BY <1>1, <1>4, <1>5, <1>6, <1>7, <1>8, AsideFrame

LEMMA QuietBuildPreserves ==
  ASSUME IndexIInv, NEW c \in calls, QuietBuild(c)
  PROVE  IndexIInv'
<1>1. /\ c.kind = "invalidate" /\ c.step = "done"
      /\ calls' = Begin(calls \ {c}, "quiet", c.s, "start")
      /\ UNCHANGED <<backend, frontend, model, events, stray, races>>
  BY DEF QuietBuild
<1>2. Aside(c) /\ "start" \in StepsOf("quiet")
  BY <1>1, StepsAre DEF Aside, Asking
<1>. QED BY <1>1, <1>2, FollowedPreserves

LEMMA ChangeSchemaPreserves ==
  ASSUME IndexIInv, NEW s \in Sessions, NEW kind \in {"invalidate", "quiet"}, ChangeSchema(s, kind)
  PROVE  IndexIInv'
<1>. DEFINE d    == Call(calls, kind, s, "start")
            gone == {}
<1>1. /\ calls' = calls \cup {d} /\ Room(1) /\ asked' \in 0 .. MaxAsked
      /\ UNCHANGED <<life, mapped, count, token, meta, builds, model, events, sessions, connections,
                     saving, stray, races>>
  <2>1. asked \in 0 .. MaxAsked /\ asked < MaxAsked /\ asked' = asked + 1
    BY DEF ChangeSchema, Asks, IndexIInv, TypesInv
  <2>2. asked' \in 0 .. MaxAsked
    BY <2>1, Bounds
  <2>. QED BY <2>2 DEF ChangeSchema, Begin, backend
<1>2. TypesInv /\ kind \in CallKinds /\ "start" \in StepsOf(kind)
  BY StepsAre DEF IndexIInv, CallKinds, Asking
<1>3. Typed(d) /\ d.kind = kind /\ d.s = s /\ d.step = "start"
  <2>1. \A e : e = Call(calls, kind, s, "start") => Typed(e) /\ e.kind = kind /\ e.s = s /\ e.step = "start"
    BY <1>2, CallIs
  <2>. QED BY <2>1
<1>. HIDE DEF d
<1>4. Aside(d)
  BY <1>3 DEF Aside
<1>5. TypesInv'
  <2>1. CallsTyped'
    BY <1>1, <1>3, CallBegins DEF IndexIInv, TypesInv
  <2>. QED BY <1>1, <1>2, <2>1 DEF TypesInv
<1>6. MoreRaces /\ ToSet(sessions) \subseteq Sessions
  BY <1>1, <1>2 DEF MoreRaces, TypesInv, ToSet
<1>7. ShownInv'
  <2>1. \A t : OwnCall(t) => OwnCall(t)'
    BY <1>1, <1>3 DEF OwnCall
  <2>2. EndComing => EndComing'
    BY <1>1 DEF EndComing
  <2>. QED BY <1>1, <1>6, <2>1, <2>2, ShownFrame DEF IndexIInv
<1>8. /\ gone \in SUBSET calls /\ calls' = (calls \ gone) \cup {d}
      /\ \A e \in gone \cup {d} : Aside(e)
  BY <1>1, <1>4
<1>. HIDE DEF gone
<1>. QED BY <1>1, <1>5, <1>6, <1>7, <1>8, AsideFrame

(* The user closes a session: its one call to that end begins.             *)
LEMMA CloseConnectionPreserves ==
  ASSUME IndexIInv, NEW s \in Sessions, CloseConnection(s)
  PROVE  IndexIInv'
<1>. DEFINE d == Call(calls, "close", s, "start")
<1>1. /\ calls' = calls \cup {d} /\ Room(1) /\ s \in ToSet(sessions)
      /\ \A c \in calls : c.kind = "close" => c.s # s
      /\ UNCHANGED <<life, mapped, count, token, meta, builds, model, events, sessions, connections,
                     saving, asked, stray, races>>
  BY DEF CloseConnection, Begin, backend, frontend
<1>2. TypesInv /\ "close" \in CallKinds /\ "start" \in StepsOf("close")
  BY StepsAre DEF IndexIInv, CallKinds, Asking
<1>3. Typed(d) /\ d.kind = "close" /\ d.s = s /\ d.step = "start"
  <2>1. \A e : e = Call(calls, "close", s, "start") =>
               Typed(e) /\ e.kind = "close" /\ e.s = s /\ e.step = "start"
    BY <1>2, CallIs
  <2>. QED BY <2>1
<1>. HIDE DEF d
<1>4. TypesInv'
  <2>1. CallsTyped'
    BY <1>1, <1>3, CallBegins DEF IndexIInv, TypesInv
  <2>. QED BY <1>1, <1>2, <2>1 DEF TypesInv
<1>5. MoreRaces /\ ToSet(sessions) \subseteq Sessions /\ ToSet(sessions)' = ToSet(sessions)
  BY <1>1, <1>2 DEF MoreRaces, TypesInv, ToSet
<1>6. life[s] = "open"
  BY <1>1 DEF IndexIInv, CloseInv
<1>7. Pending' = Pending
  BY <1>1, <1>3 DEF Pending
<1>8. CloseInv'
  <2>1. CloseInv
    BY DEF IndexIInv
  <2>2. \A c \in calls' : c.kind = "close" => c = d \/ (c \in calls /\ c.s # s)
    BY <1>1
  <2>3. \A c \in calls' : c.kind = "close" =>
           c.s \in ToSet(sessions)' /\ life'[c.s] = (IF c.step = "done" THEN "closed" ELSE "open")
    BY <1>1, <1>3, <1>5, <1>6, <2>1, <2>2 DEF CloseInv
  <2>4. \A c, e \in calls' : c.kind = "close" /\ e.kind = "close" /\ c.s = e.s => c = e
    BY <1>3, <2>1, <2>2 DEF CloseInv
  <2>5. \A t \in ToSet(sessions)' : life'[t] = "open" \/ \E c \in calls' : c.kind = "close" /\ c.s = t
    BY <1>1, <1>5, <2>1 DEF CloseInv
  <2>. QED BY <1>1, <1>5, <2>1, <2>3, <2>4, <2>5 DEF CloseInv
<1>9. \A t : ClosePast(t)' <=> ClosePast(t)
  BY <1>1, <1>3 DEF ClosePast
<1>10. MappedInv' /\ RegisterInv'
  <2>1. Unmaps' = Unmaps
    BY <1>1, <1>3 DEF Unmaps
  <2>2. MappedInv'
    BY <1>1, <1>3, <1>9, <2>1 DEF IndexIInv, MappedInv
  <2>3. RegisterInv'
    BY <1>1, <1>3, <1>9 DEF IndexIInv, RegisterInv
  <2>. QED BY <2>2, <2>3
<1>11. CountIsExact' /\ TokenInv' /\ SpawnInv' /\ ModelInv' /\ EventsInv'
  BY <1>1, <1>3, <1>5, <1>7, CountFrame, TokenFrame, SpawnFrame, ModelFrame, EventsFrame DEF IndexIInv
<1>12. ShownInv'
  <2>1. \A t : OwnCall(t) => OwnCall(t)'
    BY <1>1 DEF OwnCall
  <2>2. EndComing => EndComing'
    BY <1>1 DEF EndComing
  <2>. QED BY <1>1, <1>5, <2>1, <2>2, ShownFrame DEF IndexIInv
<1>. QED BY <1>4, <1>8, <1>10, <1>11, <1>12 DEF IndexIInv

(* The settings are saved.                                                 *)
LEMMA SaveModelPreserves ==
  ASSUME IndexIInv, NEW m \in Models \cup {NoModel}, SaveModel(m)
  PROVE  IndexIInv'
<1>1. /\ model' = m /\ saving' = TRUE /\ asked' \in 0 .. MaxAsked
      /\ races' = IF \/ token # NoBuild \/ events # <<>> \/ \E b \in BuildIds : builds[b].on
                     \/ \E c \in calls : c.kind \in {"build", "quiet", "force"}
                  THEN races \cup {"model"} ELSE races
      /\ UNCHANGED <<life, mapped, count, token, meta, builds, events, sessions, connections,
                     calls, stray>>
  <2>1. asked \in 0 .. MaxAsked /\ asked < MaxAsked /\ asked' = asked + 1
    BY DEF SaveModel, Asks, IndexIInv, TypesInv
  <2>2. asked' \in 0 .. MaxAsked
    BY <2>1, Bounds
  <2>. QED BY <2>2 DEF SaveModel, backend
<1>2. TypesInv
  BY DEF IndexIInv
<1>3. MoreRaces
  BY <1>1, <1>2 DEF MoreRaces, TypesInv, Races
<1>4. TypesInv'
  <2>1. CallsTyped'
    BY <1>1, <1>2 DEF TypesInv, CallsTyped, Typed
  <2>. QED BY <1>1, <1>2, <1>3, <2>1 DEF TypesInv, MoreRaces
<1>5. SameCloses /\ Pending' = Pending
  BY <1>1 DEF SameCloses, Closes, Pending
<1>6. CountIsExact' /\ CloseInv' /\ TokenInv' /\ SpawnInv'
  BY <1>1, <1>3, <1>5, CountFrame, CloseFrame, TokenFrame, SpawnFrame DEF IndexIInv
<1>7. MappedInv' /\ RegisterInv'
  BY <1>1, <1>3, <1>5, MappedFrame DEF IndexIInv
<1>8. ModelInv'
  <2>1. meta'.status = "none" => meta' = NoMeta
    BY <1>1 DEF IndexIInv, ModelInv
  <2>2. SUFFICES ASSUME "model" \notin races' PROVE ModelInv'
    BY <2>1 DEF ModelInv
  <2>3. /\ events' = <<>> /\ \A b \in BuildIds : ~builds'[b].on
        /\ \A c \in calls' : c.kind \notin {"build", "quiet", "force"}
    BY <1>1, <2>2
  <2>4. \A c \in calls' : c.step \notin {"insert", "pool"}
    BY <1>1, <1>2, <2>3, CallFacts DEF Asking
  <2>. QED BY <2>1, <2>3, <2>4 DEF ModelInv
<1>9. EventsInv'
  BY <1>1 DEF EventsInv
<1>10. ShownInv'
  BY <1>1 DEF ShownInv
<1>. QED BY <1>4, <1>6, <1>7, <1>8, <1>9, <1>10 DEF IndexIInv

LEMMA FinishPreserves ==
  ASSUME IndexIInv, NEW c \in calls, Aside(c), c.kind \in {"quiet", "invalidate"}, calls' = calls \ {c},
         UNCHANGED <<backend, frontend, model, events, stray, races>>
  PROVE  IndexIInv'
<1>. DEFINE come == {}
<1>1. UNCHANGED <<life, mapped, count, token, meta, builds, model, events, sessions, connections,
                  saving, asked, stray, races>>
  BY DEF backend, frontend
<1>2. TypesInv
  BY DEF IndexIInv
<1>3. TypesInv'
  <2>1. CallsTyped'
    BY <1>2, CallEnds DEF TypesInv
  <2>. QED BY <1>1, <1>2, <2>1 DEF TypesInv
<1>4. MoreRaces /\ ToSet(sessions) \subseteq Sessions
  BY <1>1, <1>2 DEF MoreRaces, TypesInv, ToSet
<1>5. ShownInv'
  <2>1. \A s : OwnCall(s) => OwnCall(s)'
    BY DEF OwnCall
  <2>2. EndComing => EndComing'
    BY <1>1 DEF EndComing
  <2>. QED BY <1>1, <1>4, <2>1, <2>2, ShownFrame DEF IndexIInv
<1>6. /\ {c} \in SUBSET calls /\ calls' = (calls \ {c}) \cup come
      /\ \A e \in {c} \cup come : Aside(e)
  OBVIOUS
<1>. HIDE DEF come
<1>. QED BY <1>1, <1>3, <1>4, <1>5, <1>6, AsideFrame

LEMMA RemovedAt ==
  ASSUME NEW S, NEW q \in Seq(S), IsInjective(q), NEW i \in DOMAIN q
  PROVE  /\ RemoveAt(q, i) \in Seq(S) /\ IsInjective(RemoveAt(q, i))
         /\ ToSet(RemoveAt(q, i)) = ToSet(q) \ {q[i]}
<1>. DEFINE r == RemoveAt(q, i)
            n == Len(q)
<1>1. n \in Nat /\ i \in 1 .. n /\ DOMAIN q = 1 .. n
  OBVIOUS
<1>2. r = SubSeq(q, 1, i - 1) \o SubSeq(q, i + 1, n)
  BY DEF RemoveAt
<1>3. /\ SubSeq(q, 1, i - 1) \in Seq(S) /\ Len(SubSeq(q, 1, i - 1)) = i - 1
      /\ \A j \in 1 .. (i - 1) : SubSeq(q, 1, i - 1)[j] = q[j]
  BY <1>1
<1>4. /\ SubSeq(q, i + 1, n) \in Seq(S) /\ Len(SubSeq(q, i + 1, n)) = n - i
      /\ \A j \in 1 .. (n - i) : SubSeq(q, i + 1, n)[j] = q[i + j]
  BY <1>1
<1>5. /\ r \in Seq(S) /\ Len(r) = n - 1
      /\ \A j \in 1 .. (n - 1) : r[j] = IF j < i THEN q[j] ELSE q[j + 1]
  <2>1. r \in Seq(S) /\ Len(r) = (i - 1) + (n - i)
    BY <1>2, <1>3, <1>4
  <2>2. ASSUME NEW j \in 1 .. (n - 1) PROVE r[j] = IF j < i THEN q[j] ELSE q[j + 1]
    <3>1. r[j] = IF j <= i - 1 THEN SubSeq(q, 1, i - 1)[j] ELSE SubSeq(q, i + 1, n)[j - (i - 1)]
      <4>. DEFINE u == SubSeq(q, 1, i - 1)
                  v == SubSeq(q, i + 1, n)
      <4>1. u \in Seq(S) /\ v \in Seq(S) /\ Len(u) = i - 1 /\ Len(v) = n - i /\ r = u \o v
        BY <1>2, <1>3, <1>4
      <4>. HIDE DEF u, v, r
      <4>2. \A k \in 1 .. (Len(u) + Len(v)) : (u \o v)[k] = IF k <= Len(u) THEN u[k] ELSE v[k - Len(u)]
        BY <4>1, ConcatProperties
      <4>3. j \in 1 .. (Len(u) + Len(v))
        BY <1>1, <4>1
      <4>4. (u \o v)[j] = IF j <= Len(u) THEN u[j] ELSE v[j - Len(u)]
        BY <4>2, <4>3
      <4>5. r[j] = IF j <= i - 1 THEN u[j] ELSE v[j - (i - 1)]
        BY <4>1, <4>4
      <4>. QED BY <4>5 DEF u, v
    <3>2. CASE j < i
      BY <1>1, <1>3, <3>1, <3>2
    <3>3. CASE ~(j < i)
      <4>1. j - (i - 1) \in 1 .. (n - i) /\ i + (j - (i - 1)) = j + 1
        BY <1>1, <3>3
      <4>. QED BY <1>1, <1>4, <3>1, <3>3, <4>1
    <3>. QED BY <3>2, <3>3
  <2>. QED BY <1>1, <2>1, <2>2
<1>6. DOMAIN r = 1 .. (n - 1)
  BY <1>5
<1>. HIDE DEF r
<1>7. IsInjective(r)
  <2>. SUFFICES ASSUME NEW j \in 1 .. (n - 1), NEW k \in 1 .. (n - 1), r[j] = r[k] PROVE j = k
    BY <1>6 DEF IsInjective
  <2>1. \A a, b \in 1 .. n : q[a] = q[b] => a = b
    BY <1>1 DEF IsInjective
  <2>. QED BY <1>1, <1>5, <2>1
<1>8. ToSet(r) = ToSet(q) \ {q[i]}
  <2>1. ASSUME NEW x \in ToSet(r) PROVE x \in ToSet(q) \ {q[i]}
    <3>1. PICK j \in 1 .. (n - 1) : x = r[j]
      BY <1>6 DEF ToSet
    <3>2. \E k \in 1 .. n : k # i /\ x = q[k]
      BY <1>1, <1>5, <3>1
    <3>. QED BY <1>1, <3>2 DEF ToSet, IsInjective
  <2>2. ASSUME NEW x \in ToSet(q) \ {q[i]} PROVE x \in ToSet(r)
    <3>1. PICK k \in 1 .. n : x = q[k] /\ k # i
      BY <1>1 DEF ToSet
    <3>2. CASE k < i
      <4>1. k \in 1 .. (n - 1) /\ r[k] = x
        BY <1>1, <1>5, <3>1, <3>2
      <4>. QED BY <1>6, <4>1 DEF ToSet
    <3>3. CASE ~(k < i)
      <4>1. k - 1 \in 1 .. (n - 1) /\ r[k - 1] = x
        BY <1>1, <1>5, <3>1, <3>3
      <4>. QED BY <1>6, <4>1 DEF ToSet
    <3>. QED BY <3>2, <3>3
  <2>. QED BY <2>1, <2>2
<1>. QED BY <1>5, <1>7, <1>8 DEF r

(* A session is closed: the store forgets it.                              *)
LEMMA CloseReplyPreserves ==
  ASSUME IndexIInv, NEW c \in calls, CallReply(c), c.kind = "close"
  PROVE  IndexIInv'
<1>1. /\ c.step = "done" /\ calls' = calls \ {c}
      /\ connections' = [connections EXCEPT ![c.s] = "absent"]
      /\ \E i \in DOMAIN sessions : sessions[i] = c.s /\ sessions' = RemoveAt(sessions, i)
      /\ stray' = stray \ {c.s}
      /\ UNCHANGED <<life, mapped, count, token, meta, builds, model, events, saving, asked, races>>
  BY DEF CallReply, Finish, backend
<1>2. TypesInv /\ c.s \in Sessions
  BY CallFacts DEF IndexIInv
<1>3. /\ sessions \in Seq(Sessions) /\ IsInjective(sessions)
      /\ connections \in [Sessions -> IndexStatuses \cup {"absent"}] /\ stray \subseteq Sessions
  BY <1>2 DEF TypesInv
<1>4. PICK i \in DOMAIN sessions : sessions[i] = c.s /\ sessions' = RemoveAt(sessions, i)
  BY <1>1
<1>5. /\ sessions' \in Seq(Sessions) /\ IsInjective(sessions')
      /\ ToSet(sessions') = ToSet(sessions) \ {c.s}
  BY <1>3, <1>4, RemovedAt
<1>6. ToSet(sessions)' = ToSet(sessions) \ {c.s} /\ IsInjective(sessions)'
  BY <1>5 DEF ToSet, IsInjective
<1>7. TypesInv'
  <2>1. CallsTyped'
    BY <1>1, <1>2, CallEnds DEF TypesInv
  <2>. QED BY <1>1, <1>2, <1>5, <1>6, <2>1 DEF TypesInv
<1>8. MoreRaces /\ ToSet(sessions) \subseteq Sessions
  BY <1>1, <1>2 DEF MoreRaces, TypesInv, ToSet
<1>9. CloseInv /\ life[c.s] = "closed"
  BY <1>1 DEF IndexIInv, CloseInv
<1>10. CloseInv'
  <2>1. \A e \in calls' : e.kind = "close" => e \in calls /\ e.s # c.s
    BY <1>1, <1>9 DEF CloseInv
  <2>2. \A s \in Sessions : s \in ToSet(sessions)' => connections'[s] # "absent" /\ life'[s] # "new"
    BY <1>1, <1>3, <1>6, <1>9 DEF CloseInv
  <2>3. "revived" \notin races' => \A s \in Sessions : connections'[s] # "absent" => s \in ToSet(sessions)'
    BY <1>1, <1>2, <1>3, <1>6, <1>9 DEF CloseInv
  <2>4. \A e \in calls' : e.kind = "close" =>
           e.s \in ToSet(sessions)' /\ life'[e.s] = (IF e.step = "done" THEN "closed" ELSE "open")
    BY <1>1, <1>6, <1>9, <2>1 DEF CloseInv
  <2>5. \A e, g \in calls' : e.kind = "close" /\ g.kind = "close" /\ e.s = g.s => e = g
    BY <1>9, <2>1 DEF CloseInv
  <2>6. \A s \in ToSet(sessions)' : life'[s] = "open" \/ \E e \in calls' : e.kind = "close" /\ e.s = s
    BY <1>1, <1>6, <1>9 DEF CloseInv
  <2>. QED BY <2>2, <2>3, <2>4, <2>5, <2>6 DEF CloseInv
<1>11. \A s : ClosePast(s)' <=> ClosePast(s)
  BY <1>1, <1>9 DEF ClosePast
<1>12. MappedInv' /\ RegisterInv' /\ Pending' = Pending
  <2>1. Unmaps' = Unmaps /\ Pending' = Pending
    BY <1>1 DEF Unmaps, Pending
  <2>2. MappedInv'
    BY <1>1, <1>11, <2>1 DEF IndexIInv, MappedInv
  <2>3. RegisterInv'
    BY <1>1, <1>11 DEF IndexIInv, RegisterInv
  <2>. QED BY <2>1, <2>2, <2>3
<1>13. CountIsExact' /\ TokenInv' /\ SpawnInv' /\ ModelInv' /\ EventsInv'
  BY <1>1, <1>8, <1>12, CountFrame, TokenFrame, SpawnFrame, ModelFrame, EventsFrame DEF IndexIInv
<1>14. ShownInv'
  <2>1. \A s : s # c.s /\ OwnCall(s) => OwnCall(s)'
    BY <1>1 DEF OwnCall
  <2>2. EndComing' <=> EndComing
    BY <1>1 DEF EndComing
  <2>3. \A v : RightAtRest(v)' <=> RightAtRest(v)
    BY <1>1 DEF RightAtRest, Rest
  <2>. SUFFICES ASSUME races' \cap {"model", "crossed", "partial"} = {}, ~saving', ~EndComing',
                       NEW s \in ToSet(sessions)' \ stray', life'[s] = "open"
                PROVE  RightAtRest(connections[s])' \/ (connections'[s] \in {"building", "stale"} /\ OwnCall(s)')
    BY DEF ShownInv
  <2>4. s # c.s /\ s \in ToSet(sessions) \ stray /\ connections'[s] = connections[s]
    BY <1>1, <1>3, <1>6, <1>8
  <2>5. RightAtRest(connections[s])' <=> RightAtRest(connections'[s])
    BY <1>1 DEF RightAtRest, Rest
  <2>6. RightAtRest(connections[s]) \/ (connections[s] \in {"building", "stale"} /\ OwnCall(s))
    BY <1>1, <2>2, <2>4 DEF IndexIInv, ShownInv
  <2>. QED BY <2>1, <2>3, <2>4, <2>5, <2>6
<1>. QED BY <1>7, <1>10, <1>12, <1>13, <1>14 DEF IndexIInv

LEMMA CallReplyPreserves ==
  ASSUME IndexIInv, NEW c \in calls, CallReply(c)
  PROVE  IndexIInv'
<1>1. /\ c.step = "done" /\ c.kind \in CallKinds /\ c.kind \notin {"initial", "after"}
  BY CallFacts DEF CallReply, IndexIInv, IndexStatuses
<1>2. CASE c.kind = "close"
  BY <1>2, CloseReplyPreserves
<1>3. CASE c.kind # "close"
  <2>1. /\ UNCHANGED <<backend, frontend, model, events, stray, races>>
        /\ c.kind \in {"build", "force"} => calls' = Begin(calls \ {c}, "after", c.s, "read")
        /\ c.kind \in {"quiet", "invalidate"} => calls' = calls \ {c}
    BY <1>3 DEF CallReply, Finish, frontend
  <2>2. Aside(c) /\ "read" \in StepsOf("after")
    BY <1>1, <1>3, StepsAre DEF Aside
  <2>3. CASE c.kind \in {"build", "force"}
    BY <2>1, <2>2, <2>3, FollowedPreserves
  <2>4. CASE c.kind \in {"quiet", "invalidate"}
    BY <2>1, <2>2, <2>4, FinishPreserves
  <2>. QED BY <1>1, <1>3, <2>3, <2>4 DEF CallKinds
<1>. QED BY <1>2, <1>3

----------
(* The builds the store asks for. *)

(* What a round of requests has come to.                                   *)
Round(f) ==
  /\ f = [st |-> f.st, calls |-> f.calls, mirrored |-> f.mirrored]
  /\ f.st \in [Sessions -> IndexStatuses \cup {"absent"}]
  /\ IsFiniteSet(f.calls) /\ \A c \in f.calls : Typed(c)
  /\ f.mirrored \subseteq Sessions

(* f goes on to g as s asks: s mirrors a sibling, or calls.                *)
Mirrors(f, g, s) ==
  /\ \E v \in {"building", "ready"} : g.st = [f.st EXCEPT ![s] = v]
  /\ g.calls = f.calls /\ g.mirrored = f.mirrored \cup {s}

Requests(f, g, s) ==
  /\ g.st = [f.st EXCEPT ![s] = "building"]
  /\ \E d : /\ Typed(d) /\ d.kind = "build" /\ d.s = s /\ d.step = "start"
            /\ g.calls = f.calls \cup {d}
  /\ g.mirrored = f.mirrored

LEMMA TriggerIs ==
  ASSUME NEW f, Round(f), NEW s \in Sessions, NEW g, g = triggerBuild(f, s)
  PROVE  Round(g) /\ (Mirrors(f, g, s) \/ Requests(f, g, s))
<1>. DEFINE I == {i \in 1 .. Len(sessions) : sessions[i] # s /\ f.st[sessions[i]] \in {"building", "ready"}}
            sibling == SelectInSeq(sessions, LAMBDA t : t # s /\ f.st[t] \in {"building", "ready"})
            d == Call(f.calls, "build", s, "start")
<1>1. sibling = IF I # {} THEN Min(I) ELSE 0
  BY DEF SelectInSeq
<1>2. sibling # 0 => sibling \in I
  <2>1. I \subseteq Nat
    OBVIOUS
  <2>. HIDE DEF I, sibling
  <2>. QED BY <1>1, <2>1, MinOf
<1>3. g = IF sibling # 0
          THEN [f EXCEPT !.st[s] = f.st[sessions[sibling]], !.mirrored = @ \cup {s}]
          ELSE [f EXCEPT !.st[s] = "building", !.calls = Begin(@, "build", s, "start")]
  BY DEF triggerBuild
<1>4. f = [st |-> f.st, calls |-> f.calls, mirrored |-> f.mirrored]
  BY DEF Round
<1>5. CASE sibling # 0
  <2>. DEFINE v == f.st[sessions[sibling]]
  <2>1. v \in {"building", "ready"}
    BY <1>2, <1>5
  <2>. HIDE DEF sibling, v
  <2>2. g = [st |-> [f.st EXCEPT ![s] = v], calls |-> f.calls, mirrored |-> f.mirrored \cup {s}]
    BY <1>3, <1>4, <1>5 DEF v
  <2>3. Mirrors(f, g, s)
    BY <2>1, <2>2 DEF Mirrors
  <2>4. Round(g)
    BY <2>1, <2>2 DEF Round, IndexStatuses
  <2>. QED BY <2>3, <2>4
<1>6. CASE sibling = 0
  <2>. DEFINE cs == f.calls
  <2>1. Typed(d) /\ d.kind = "build" /\ d.s = s /\ d.step = "start"
    <3>1. "start" \in StepsOf("build") /\ "build" \in CallKinds
      BY StepsAre DEF Asking, CallKinds
    <3>. HIDE DEF cs
    <3>2. \A e : e = Call(cs, "build", s, "start") =>
                 Typed(e) /\ e.kind = "build" /\ e.s = s /\ e.step = "start"
      BY <3>1, CallIs
    <3>. QED BY <3>2 DEF cs
  <2>2. g = [st |-> [f.st EXCEPT ![s] = "building"], calls |-> f.calls \cup {d},
             mirrored |-> f.mirrored]
    <3>1. Begin(f.calls, "build", s, "start") = f.calls \cup {d}
      BY DEF Begin
    <3>. HIDE DEF sibling, d
    <3>. QED BY <1>3, <1>4, <1>6, <3>1
  <2>. HIDE DEF d, cs
  <2>3. Requests(f, g, s)
    BY <2>1, <2>2 DEF Requests
  <2>4. Round(g)
    <3>1. IsFiniteSet(f.calls \cup {d})
      BY FS_AddElement DEF Round
    <3>. QED BY <2>1, <2>2, <3>1 DEF Round, IndexStatuses
  <2>. QED BY <2>3, <2>4
<1>. QED BY <1>5, <1>6

LEMMA RoundBegins ==
  ASSUME TypesInv
  PROVE  Round(NoTriggers)
BY DEF NoTriggers, Round, TypesInv, CallsTyped

(* The sessions that are told another's status.                            *)
LEMMA MirroredRaces ==
  ASSUME TypesInv, NEW f, f.mirrored \subseteq Sessions, Mirrored(f)
  PROVE  /\ MoreRaces /\ stray' \subseteq Sessions
         /\ \A s \in Sessions : s \notin f.mirrored => (s \in stray' <=> s \in stray)
         /\ \A s \in f.mirrored : s \notin stray' => Holds(s, f.st[s])
<1>1. races \subseteq races' /\ races' \subseteq Races
  BY DEF Mirrored, TypesInv, Races
<1>2. stray' = (stray \ f.mirrored) \cup {s \in f.mirrored : ~Holds(s, f.st[s])}
  BY DEF Mirrored
<1>. HIDE DEF Mirrored
<1>3. stray \subseteq Sessions
  BY DEF TypesInv
<1>. QED BY <1>1, <1>2, <1>3 DEF MoreRaces

(* The session that opens shows a status, and its first status call began. *)
OpensAs(s, v, d, e) ==
  /\ v \in {"stale", "building", "ready"} /\ connections' = [connections EXCEPT ![s] = v]
  /\ Typed(d) /\ d.kind = "initial" /\ d.s = s /\ d.step = "read"
  /\ Typed(e) /\ e.kind \in {"initial", "build"} /\ e.step \in {"read", "start"} /\ e.s = s
  /\ calls' = calls \cup {d, e}
  /\ MoreRaces /\ stray' \subseteq Sessions
  /\ \A t \in Sessions : t # s => (t \in stray' <=> t \in stray)
  /\ v = "ready" => s \in stray' \/ RightAtRest("ready")

LEMMA OpenIs ==
  ASSUME IndexIInv, NEW s \in Sessions, NEW asks \in BOOLEAN, Open(s, asks)
  PROVE  \E v, d, e : OpensAs(s, v, d, e)
<1>. DEFINE d == Call(calls, "initial", s, "read")
            attached == [NoTriggers EXCEPT !.st[s] = "stale", !.calls = Begin(@, "initial", s, "read")]
            f == IF asks THEN triggerBuild(attached, s) ELSE attached
<1>1. connections' = f.st /\ calls' = f.calls /\ Mirrored(f)
  BY DEF Open, NoTriggers
<1>2. TypesInv
  BY DEF IndexIInv
<1>3. Typed(d) /\ d.kind = "initial" /\ d.s = s /\ d.step = "read"
  <2>1. "read" \in StepsOf("initial") /\ "initial" \in CallKinds
    BY StepsAre DEF CallKinds
  <2>2. \A e : e = Call(calls, "initial", s, "read") =>
               Typed(e) /\ e.kind = "initial" /\ e.s = s /\ e.step = "read"
    BY <2>1, CallIs
  <2>. QED BY <2>2
<1>4. attached = [st |-> [connections EXCEPT ![s] = "stale"], calls |-> calls \cup {d}, mirrored |-> {}]
  <2>1. Begin(calls, "initial", s, "read") = calls \cup {d}
    BY DEF Begin
  <2>. DEFINE r == NoTriggers
  <2>2. r = [st |-> connections, calls |-> calls, mirrored |-> {}]
    BY DEF NoTriggers
  <2>3. Begin(r.calls, "initial", s, "read") = calls \cup {d}
    BY <2>1, <2>2
  <2>. HIDE DEF d, r
  <2>4. r = [st |-> r.st, calls |-> r.calls, mirrored |-> r.mirrored]
    BY <2>2
  <2>5. ASSUME NEW g, g = [r EXCEPT !.st[s] = "stale", !.calls = Begin(@, "initial", s, "read")]
        PROVE  g = [st |-> [r.st EXCEPT ![s] = "stale"], calls |-> calls \cup {d}, mirrored |-> r.mirrored]
    BY <2>3, <2>4, <2>5
  <2>6. r.st = connections /\ r.mirrored = {}
    BY <2>2
  <2>. QED BY <2>5, <2>6 DEF r
<1>. HIDE DEF d, attached
<1>5. Round(attached)
  <2>1. IsFiniteSet(calls \cup {d}) /\ \A c \in calls \cup {d} : Typed(c)
    BY <1>2, <1>3, FS_AddElement DEF TypesInv, CallsTyped
  <2>2. connections \in [Sessions -> IndexStatuses \cup {"absent"}]
    BY <1>2 DEF TypesInv
  <2>. QED BY <1>4, <2>1, <2>2 DEF Round, IndexStatuses
<1>6. CASE ~asks
  <2>1. connections' = [connections EXCEPT ![s] = "stale"] /\ calls' = calls \cup {d, d}
    BY <1>1, <1>4, <1>6
  <2>2. f.mirrored = {}
    BY <1>4, <1>6
  <2>. HIDE DEF f
  <2>3. MoreRaces /\ stray' \subseteq Sessions /\ \A t \in Sessions : t \in stray' <=> t \in stray
    BY <1>1, <1>2, <2>2, MirroredRaces
  <2>4. OpensAs(s, "stale", d, d)
    BY <1>3, <2>1, <2>3 DEF OpensAs
  <2>. QED BY <2>4
<1>7. CASE asks
  <2>1. f = triggerBuild(attached, s)
    BY <1>7
  <2>. HIDE DEF f
  <2>2. Round(f) /\ (Mirrors(attached, f, s) \/ Requests(attached, f, s))
    BY <1>5, <2>1, TriggerIs
  <2>3. /\ MoreRaces /\ stray' \subseteq Sessions
        /\ \A t \in Sessions : t \notin f.mirrored => (t \in stray' <=> t \in stray)
        /\ \A t \in f.mirrored : t \notin stray' => Holds(t, f.st[t])
    BY <1>1, <1>2, <2>2, MirroredRaces DEF Round
  <2>4. connections \in [Sessions -> IndexStatuses \cup {"absent"}]
    BY <1>2 DEF TypesInv
  <2>5. CASE Mirrors(attached, f, s)
    <3>1. PICK v \in {"building", "ready"} : f.st = [attached.st EXCEPT ![s] = v]
      BY <2>5 DEF Mirrors
    <3>2. connections' = [connections EXCEPT ![s] = v] /\ f.st[s] = v
      BY <1>1, <1>4, <2>4, <3>1
    <3>3. calls' = calls \cup {d, d} /\ f.mirrored = {s}
      BY <1>1, <1>4, <2>5 DEF Mirrors
    <3>4. v = "ready" => s \in stray' \/ RightAtRest("ready")
      <4>1. v = "ready" /\ s \notin stray' => get_index_status(s) = "ready"
        BY <2>3, <3>2, <3>3 DEF Holds
      <4>2. get_index_status(s) = "ready" => RightAtRest(get_index_status(s))
        BY AnswerIsRight
      <4>. QED BY <4>1, <4>2
    <3>5. OpensAs(s, v, d, d)
      BY <1>3, <2>3, <3>2, <3>3, <3>4 DEF OpensAs
    <3>. QED BY <3>5
  <2>6. CASE Requests(attached, f, s)
    <3>1. PICK e : /\ Typed(e) /\ e.kind = "build" /\ e.s = s /\ e.step = "start"
                   /\ f.calls = attached.calls \cup {e}
      BY <2>6 DEF Requests
    <3>2. connections' = [connections EXCEPT ![s] = "building"] /\ f.mirrored = {}
      BY <1>1, <1>4, <2>4, <2>6 DEF Requests
    <3>3. calls' = calls \cup {d, e}
      BY <1>1, <1>4, <3>1
    <3>4. OpensAs(s, "building", d, e)
      BY <1>3, <2>3, <3>1, <3>2, <3>3 DEF OpensAs
    <3>. QED BY <3>4
  <2>. QED BY <2>2, <2>5, <2>6
<1>. QED BY <1>6, <1>7

LEMMA OpenPreserves ==
  ASSUME IndexIInv, NEW s \in Sessions, NEW asks \in BOOLEAN, Open(s, asks)
  PROVE  IndexIInv'
<1>1. /\ life[s] = "new" /\ Room(2) /\ life' = [life EXCEPT ![s] = "open"]
      /\ sessions' = Append(sessions, s)
      /\ UNCHANGED <<mapped, count, token, meta, model, builds, saving, events, asked>>
  BY DEF Open
<1>. PICK v, d, e : OpensAs(s, v, d, e)
  BY OpenIs
<1>2. /\ v \in {"stale", "building", "ready"} /\ connections' = [connections EXCEPT ![s] = v]
      /\ Typed(d) /\ d.kind = "initial" /\ d.s = s /\ d.step = "read"
      /\ Typed(e) /\ e.kind \in {"initial", "build"} /\ e.step \in {"read", "start"} /\ e.s = s
      /\ calls' = calls \cup {d, e}
      /\ MoreRaces /\ stray' \subseteq Sessions
      /\ \A t \in Sessions : t # s => (t \in stray' <=> t \in stray)
      /\ v = "ready" => s \in stray' \/ RightAtRest("ready")
  BY DEF OpensAs
<1>3. TypesInv /\ CloseInv /\ ToSet(sessions) \subseteq Sessions
  BY DEF IndexIInv, TypesInv, ToSet
<1>4. /\ life \in [Sessions -> {"new", "open", "closed"}]
      /\ connections \in [Sessions -> IndexStatuses \cup {"absent"}]
      /\ sessions \in Seq(Sessions) /\ IsInjective(sessions)
  BY <1>3 DEF TypesInv
<1>5. s \notin ToSet(sessions)
  BY <1>1, <1>3 DEF CloseInv
<1>6. /\ sessions' \in Seq(Sessions) /\ IsInjective(sessions)' /\ ToSet(sessions)' = ToSet(sessions) \cup {s}
  <2>. DEFINE q == Append(sessions, s)
  <2>1. /\ q \in Seq(Sessions) /\ DOMAIN q = 1 .. Len(sessions) + 1 /\ DOMAIN sessions = 1 .. Len(sessions)
        /\ Len(sessions) \in Nat
        /\ \A i \in 1 .. Len(sessions) : q[i] = sessions[i]
        /\ q[Len(sessions) + 1] = s
    BY <1>4
  <2>. HIDE DEF q
  <2>2. IsInjective(q)
    <3>1. \A i \in 1 .. Len(sessions) : sessions[i] # s
      BY <1>5, <2>1 DEF ToSet
    <3>. QED BY <1>4, <2>1, <3>1 DEF IsInjective
  <2>3. ToSet(q) = ToSet(sessions) \cup {s}
    <3>1. \A x \in ToSet(q) : x \in ToSet(sessions) \cup {s}
      BY <2>1 DEF ToSet
    <3>2. \A x \in ToSet(sessions) : x \in ToSet(q)
      BY <2>1 DEF ToSet
    <3>3. s \in ToSet(q)
      BY <2>1 DEF ToSet
    <3>. QED BY <3>1, <3>2, <3>3
  <2>4. sessions' = q
    BY <1>1 DEF q
  <2>. QED BY <2>1, <2>2, <2>3, <2>4 DEF IsInjective, ToSet
<1>7. TypesInv'
  <2>1. CallsTyped'
    <3>1. IsFiniteSet(calls) /\ Cardinality(calls) \in Nat /\ Cardinality(calls) + 2 <= MaxCalls
      BY <1>1, <1>3, FS_CardinalityType DEF TypesInv, CallsTyped, Room
    <3>2. /\ IsFiniteSet(calls \cup {d})
          /\ \/ Cardinality(calls \cup {d}) = Cardinality(calls)
             \/ Cardinality(calls \cup {d}) = Cardinality(calls) + 1
      BY <3>1, FS_AddElement
    <3>3. /\ IsFiniteSet((calls \cup {d}) \cup {e})
          /\ \/ Cardinality((calls \cup {d}) \cup {e}) = Cardinality(calls \cup {d})
             \/ Cardinality((calls \cup {d}) \cup {e}) = Cardinality(calls \cup {d}) + 1
      BY <3>2, FS_AddElement
    <3>4. calls' = (calls \cup {d}) \cup {e}
      BY <1>2
    <3>5. \A c \in calls' : Typed(c)
      BY <1>2, <1>3 DEF TypesInv, CallsTyped
    <3>6. Cardinality(calls') <= MaxCalls
      BY <3>1, <3>2, <3>3, <3>4, Bounds
    <3>. QED BY <3>3, <3>4, <3>5, <3>6 DEF CallsTyped, Typed
  <2>2. life' \in [Sessions -> {"new", "open", "closed"}]
        /\ connections' \in [Sessions -> IndexStatuses \cup {"absent"}]
    BY <1>1, <1>2, <1>4 DEF IndexStatuses
  <2>. QED BY <1>1, <1>2, <1>3, <1>6, <2>1, <2>2 DEF TypesInv, MoreRaces
<1>8. Aside(d) /\ Aside(e)
  BY <1>2 DEF Aside
<1>9. /\ Closes' = Closes /\ Pending' = Pending
      /\ \A c \in calls : c.step \in {"stop", "pool"} => c \in calls'
      /\ \A c \in calls' : c.step \in RunSteps => c \in calls
  <2>. DEFINE gone == {}
  <2>1. gone \in SUBSET calls /\ calls' = (calls \ gone) \cup {d, e} /\ \A c \in gone \cup {d, e} : Aside(c)
    BY <1>2, <1>8
  <2>. HIDE DEF gone
  <2>. QED BY <1>3, <2>1, AsideCalls
<1>10. \A t \in Sessions : life'[t] = "closed" <=> life[t] = "closed"
  BY <1>1, <1>4
<1>11. \A t \in Sessions : ClosePast(t)' <=> ClosePast(t)
  <2>1. ASSUME NEW t \in Sessions PROVE ClosePast(t)' <=> ClosePast(t)
    <3>1. ClosePast(t) <=> life[t] = "closed" \/ \E c \in Closes : c.s = t /\ c.step # "start"
      BY PastIs
    <3>2. ClosePast(t)' <=> life'[t] = "closed" \/ \E c \in Closes' : c.s = t /\ c.step # "start"
      BY DEF ClosePast, Closes
    <3>. QED BY <1>9, <1>10, <3>1, <3>2
  <2>. QED BY <2>1
<1>12. CountIsExact' /\ TokenInv' /\ SpawnInv' /\ ModelInv' /\ EventsInv'
  BY <1>1, <1>2, <1>9, CountFrame, TokenFrame, SpawnFrame, ModelFrame, EventsFrame DEF IndexIInv
<1>13. CloseInv'
  <2>1. \A c \in calls' : c.kind = "close" => c \in calls
    BY <1>9 DEF Closes
  <2>2. \A c \in calls : c.kind = "close" => c \in calls' /\ c.s # s /\ c.s \in Sessions
    BY <1>2, <1>3, <1>5 DEF CloseInv
  <2>3. \A t \in Sessions : t \in ToSet(sessions)' => connections'[t] # "absent" /\ life'[t] # "new"
    BY <1>1, <1>2, <1>3, <1>4, <1>6 DEF CloseInv
  <2>4. "revived" \notin races' => \A t \in Sessions : connections'[t] # "absent" => t \in ToSet(sessions)'
    BY <1>2, <1>3, <1>4, <1>6 DEF CloseInv, MoreRaces
  <2>5. \A c \in calls' : c.kind = "close" =>
           c.s \in ToSet(sessions)' /\ life'[c.s] = (IF c.step = "done" THEN "closed" ELSE "open")
    BY <1>1, <1>3, <1>4, <1>6, <2>1, <2>2 DEF CloseInv
  <2>6. \A c, g \in calls' : c.kind = "close" /\ g.kind = "close" /\ c.s = g.s => c = g
    BY <1>3, <2>1 DEF CloseInv
  <2>7. \A t \in ToSet(sessions)' : life'[t] = "open" \/ \E c \in calls' : c.kind = "close" /\ c.s = t
    <3>1. ASSUME NEW t \in ToSet(sessions) PROVE life'[t] = "open" \/ \E c \in calls' : c.kind = "close" /\ c.s = t
      <4>1. t \in Sessions /\ t # s
        BY <1>3, <1>5
      <4>2. life'[t] = life[t]
        BY <1>1, <1>4, <4>1
      <4>. QED BY <1>3, <2>2, <4>2 DEF CloseInv
    <3>2. life'[s] = "open"
      BY <1>1, <1>4
    <3>. QED BY <1>6, <3>1, <3>2
  <2>. QED BY <2>3, <2>4, <2>5, <2>6, <2>7 DEF CloseInv
<1>14. MappedInv' /\ RegisterInv'
  <2>1. Unmaps' = Unmaps
    BY <1>9 DEF Unmaps, Closes
  <2>2. \A t \in Sessions : life[t] # "new" => life'[t] # "new"
    BY <1>1, <1>4
  <2>3. \A c \in calls : c.s \in Sessions
    BY <1>3, CallFacts
  <2>4. \A t \in mapped : t \in Sessions
    BY <1>3 DEF TypesInv
  <2>5. MappedInv'
    <3>1. MappedInv
      BY DEF IndexIInv
    <3>. SUFFICES ASSUME "late" \notin races', "late" \notin races
                  PROVE  MappedInv'
      BY <1>2 DEF MappedInv, MoreRaces
    <3>2. \A t \in mapped' : life'[t] # "new" /\ (ClosePast(t)' => \E c \in Unmaps' : c.s = t)
      BY <1>1, <1>11, <2>1, <2>2, <2>4, <3>1 DEF MappedInv
    <3>3. \A c \in calls' : c.step \in RunSteps \ {"look", "map"} => c.s \in mapped' \/ ClosePast(c.s)'
      BY <1>1, <1>9, <1>11, <2>3, <3>1 DEF MappedInv
    <3>4. \A c \in calls' : c.step \in {"look", "map"} => life'[c.s] # "new"
      BY <1>9, <2>2, <2>3, <3>1 DEF MappedInv
    <3>5. \A c \in Unmaps' : c.s \in mapped'
      BY <1>1, <2>1, <3>1 DEF MappedInv
    <3>. QED BY <3>2, <3>3, <3>4, <3>5 DEF MappedInv
  <2>6. RegisterInv'
    <3>1. RegisterInv
      BY DEF IndexIInv
    <3>. QED BY <1>1, <1>2, <1>9, <1>11, <2>3, <3>1 DEF RegisterInv, MoreRaces
  <2>. QED BY <2>5, <2>6
<1>15. ShownInv'
  <2>1. \A t : OwnCall(t) => OwnCall(t)'
    BY <1>2 DEF OwnCall
  <2>2. EndComing' <=> EndComing
    BY <1>1 DEF EndComing
  <2>3. \A w : RightAtRest(w)' <=> RightAtRest(w)
    BY <1>1 DEF RightAtRest, Rest
  <2>. SUFFICES ASSUME races' \cap {"model", "crossed", "partial"} = {}, ~saving', ~EndComing',
                       NEW t \in ToSet(sessions)' \ stray', life'[t] = "open"
                PROVE  RightAtRest(connections[t])' \/ (connections'[t] \in {"building", "stale"} /\ OwnCall(t)')
    BY DEF ShownInv
  <2>4. RightAtRest(connections[t])' <=> RightAtRest(connections'[t])
    BY <1>1 DEF RightAtRest, Rest
  <2>5. CASE t = s
    <3>1. OwnCall(s)' /\ connections'[s] = v
      BY <1>2, <1>4 DEF OwnCall
    <3>. QED BY <1>2, <2>4, <2>5, <3>1
  <2>6. CASE t # s
    <3>1. t \in ToSet(sessions) \ stray /\ connections'[t] = connections[t] /\ life[t] = "open"
      BY <1>1, <1>2, <1>3, <1>4, <1>6, <2>6
    <3>2. races \cap {"model", "crossed", "partial"} = {} /\ ~saving
      BY <1>1, <1>2 DEF MoreRaces
    <3>3. RightAtRest(connections[t]) \/ (connections[t] \in {"building", "stale"} /\ OwnCall(t))
      BY <2>2, <3>1, <3>2 DEF IndexIInv, ShownInv
    <3>. QED BY <2>1, <2>4, <3>1, <3>3
  <2>. QED BY <2>5, <2>6
<1>. QED BY <1>7, <1>12, <1>13, <1>14, <1>15 DEF IndexIInv

(* The store asks for each registered session in turn.                     *)
TriggerRun(f, n) ==
  /\ f = [i \in 0 .. n |-> f[i]] /\ f[0] = NoTriggers
  /\ \A i \in 1 .. n : f[i] = triggerBuild(f[i - 1], sessions[i])

LEMMA TriggerRunExists ==
  ASSUME sessions \in Seq(Sessions)
  PROVE  \E f : TriggerRun(f, Len(sessions))
<1>. DEFINE T == {n \in 0 .. Len(sessions) : ~ \E f : TriggerRun(f, n)}
<1>0. Len(sessions) \in Nat
  OBVIOUS
<1>1. SUFFICES ASSUME T # {} PROVE FALSE
  BY <1>0
<1>2. PICK n \in T : \A m \in T : n <= m
  <2>1. T \subseteq Nat
    BY <1>0
  <2>. HIDE DEF T
  <2>. QED BY <1>1, <2>1, LeastNat
<1>3. n # 0
  <2>. DEFINE g == [i \in 0 .. 0 |-> NoTriggers]
  <2>1. g = [i \in 0 .. 0 |-> g[i]] /\ g[0] = NoTriggers
    OBVIOUS
  <2>2. TriggerRun(g, 0)
    BY <2>1 DEF TriggerRun
  <2>. QED BY <2>2
<1>4. n - 1 \in 0 .. Len(sessions) /\ n - 1 \notin T /\ n \in 1 .. Len(sessions)
  BY <1>0, <1>2, <1>3
<1>5. PICK f : TriggerRun(f, n - 1)
  BY <1>4
<1>6. /\ f[0] = NoTriggers
      /\ \A i \in 1 .. (n - 1) : f[i] = triggerBuild(f[i - 1], sessions[i])
  BY <1>5 DEF TriggerRun
<1>. DEFINE last == triggerBuild(f[n - 1], sessions[n])
            g    == [i \in 0 .. n |-> IF i = n THEN last ELSE f[i]]
<1>. HIDE DEF last
<1>7. g = [i \in 0 .. n |-> g[i]]
  OBVIOUS
<1>8. g[0] = NoTriggers
  BY <1>4, <1>6
<1>9. ASSUME NEW i \in 1 .. n PROVE g[i] = triggerBuild(g[i - 1], sessions[i])
  <2>1. g[i - 1] = f[i - 1]
    BY <1>4
  <2>2. CASE i = n
    <3>1. g[n] = last
      BY <1>4
    <3>. HIDE DEF g
    <3>. QED BY <2>1, <2>2, <3>1 DEF last
  <2>3. CASE i # n
    <3>1. i \in 1 .. (n - 1) /\ g[i] = f[i]
      BY <1>4, <2>3
    <3>. HIDE DEF g
    <3>. QED BY <1>6, <2>1, <3>1
  <2>. QED BY <2>2, <2>3
<1>10. TriggerRun(g, n)
  <2>. HIDE DEF g
  <2>. QED BY <1>7, <1>8, <1>9 DEF TriggerRun
<1>. QED BY <1>10

LEMMA TriggeredIsRun ==
  ASSUME sessions \in Seq(Sessions)
  PROVE  \E f : TriggerRun(f, Len(sessions)) /\ Triggered = f[Len(sessions)]
<1>. DEFINE Body(f) == [i \in 0 .. Len(sessions) |->
                          IF i = 0 THEN NoTriggers ELSE triggerBuild(f[i - 1], sessions[i])]
            c == CHOOSE f : f = Body(f)
<1>0. Len(sessions) \in Nat
  OBVIOUS
<1>1. Triggered = c[Len(sessions)]
  BY DEF Triggered
<1>2. PICK f : TriggerRun(f, Len(sessions))
  BY TriggerRunExists
<1>3. f = Body(f)
  <2>1. f = [i \in 0 .. Len(sessions) |-> f[i]]
    BY <1>2 DEF TriggerRun
  <2>2. ASSUME NEW i \in 0 .. Len(sessions)
        PROVE  f[i] = IF i = 0 THEN NoTriggers ELSE triggerBuild(f[i - 1], sessions[i])
    <3>1. CASE i = 0
      BY <1>2, <3>1 DEF TriggerRun
    <3>2. CASE i # 0
      <4>1. i \in 1 .. Len(sessions)
        BY <1>0, <3>2
      <4>. QED BY <1>2, <3>2, <4>1 DEF TriggerRun
    <3>. QED BY <3>1, <3>2
  <2>. QED BY <2>1, <2>2
<1>4. c = Body(c)
  BY <1>3
<1>5. \A i \in 0 .. Len(sessions) : c[i] = f[i]
  <2>. DEFINE T == {i \in 0 .. Len(sessions) : c[i] # f[i]}
  <2>1. SUFFICES ASSUME T # {} PROVE FALSE
    OBVIOUS
  <2>2. PICK n \in T : \A m \in T : n <= m
    <3>1. T \subseteq Nat
      BY <1>0
    <3>. HIDE DEF T
    <3>. QED BY <2>1, <3>1, LeastNat
  <2>3. c[n] = Body(c)[n] /\ f[n] = Body(f)[n]
    BY <1>3, <1>4
  <2>4. n # 0
    BY <2>2, <2>3
  <2>5. n - 1 \in 0 .. Len(sessions) /\ n - 1 \notin T
    BY <1>0, <2>2, <2>4
  <2>6. c[n - 1] = f[n - 1]
    BY <2>5
  <2>7. c[n] = triggerBuild(c[n - 1], sessions[n]) /\ f[n] = triggerBuild(f[n - 1], sessions[n])
    BY <2>2, <2>3, <2>4
  <2>. QED BY <2>2, <2>6, <2>7
<1>6. Triggered = f[Len(sessions)]
  <2>. HIDE DEF c
  <2>. QED BY <1>0, <1>1, <1>5
<1>. QED BY <1>2, <1>6

(* s shows a sibling's status, or building with a call of its own.         *)
Told(g, s) ==
  \/ s \in g.mirrored /\ g.st[s] \in {"building", "ready"}
  \/ s \notin g.mirrored /\ g.st[s] = "building" /\ \E c \in g.calls : c.kind = "build" /\ c.s = s

LEMMA TriggeredIs ==
  ASSUME TypesInv
  PROVE  /\ Round(Triggered)
         /\ \A c \in Triggered.calls \ calls : c.kind = "build" /\ c.step = "start"
         /\ calls \subseteq Triggered.calls
         /\ \A s \in Sessions \ ToSet(sessions) :
               Triggered.st[s] = connections[s] /\ s \notin Triggered.mirrored
         /\ \A s \in ToSet(sessions) : Told(Triggered, s)
<1>1. sessions \in Seq(Sessions) /\ IsInjective(sessions)
  BY DEF TypesInv
<1>. DEFINE n == Len(sessions)
<1>2. n \in Nat /\ DOMAIN sessions = 1 .. n /\ \A i \in 1 .. n : sessions[i] \in Sessions
  BY <1>1
<1>3. PICK f : TriggerRun(f, n) /\ Triggered = f[n]
  BY <1>1, TriggeredIsRun
<1>4. f[0] = NoTriggers /\ \A i \in 1 .. n : f[i] = triggerBuild(f[i - 1], sessions[i])
  BY <1>3 DEF TriggerRun
<1>. DEFINE Good(i) == /\ Round(f[i]) /\ calls \subseteq f[i].calls
                       /\ \A c \in f[i].calls \ calls : c.kind = "build" /\ c.step = "start"
                       /\ \A s \in Sessions : (\A j \in 1 .. i : sessions[j] # s) =>
                             f[i].st[s] = connections[s] /\ s \notin f[i].mirrored
                       /\ \A j \in 1 .. i : Told(f[i], sessions[j])
            T == {i \in 0 .. n : ~Good(i)}
<1>5. T = {}
  <2>1. SUFFICES ASSUME T # {} PROVE FALSE
    OBVIOUS
  <2>2. PICK i \in T : \A m \in T : i <= m
    <3>1. T \subseteq Nat
      BY <1>2
    <3>. HIDE DEF T
    <3>. QED BY <2>1, <3>1, LeastNat
  <2>3. i # 0
    <3>1. Round(NoTriggers)
      BY RoundBegins
    <3>2. /\ NoTriggers.calls = calls /\ NoTriggers.st = connections /\ NoTriggers.mirrored = {}
      BY DEF NoTriggers
    <3>3. Good(0)
      BY <1>4, <3>1, <3>2
    <3>. HIDE DEF Good
    <3>. QED BY <2>2, <3>3
  <2>4. i - 1 \in 0 .. n /\ i - 1 \notin T /\ i \in 1 .. n
    BY <1>2, <2>2, <2>3
  <2>5. Good(i - 1)
    <3>. HIDE DEF Good
    <3>. QED BY <2>4
  <2>. DEFINE e == f[i - 1]
              g == f[i]
              s == sessions[i]
  <2>6. g = triggerBuild(e, s) /\ s \in Sessions
    BY <1>2, <1>4, <2>4
  <2>7. /\ Round(e) /\ calls \subseteq e.calls
        /\ \A c \in e.calls \ calls : c.kind = "build" /\ c.step = "start"
        /\ \A t \in Sessions : (\A j \in 1 .. (i - 1) : sessions[j] # t) =>
              e.st[t] = connections[t] /\ t \notin e.mirrored
        /\ \A j \in 1 .. (i - 1) : Told(e, sessions[j])
    BY <2>5
  <2>8. \A j \in 1 .. (i - 1) : sessions[j] # s /\ sessions[j] \in Sessions
    BY <1>1, <1>2, <2>4 DEF IsInjective
  <2>. HIDE DEF e, g, s, Good
  <2>9. Round(g) /\ (Mirrors(e, g, s) \/ Requests(e, g, s))
    BY <2>6, <2>7, TriggerIs
  <2>10. e.st \in [Sessions -> IndexStatuses \cup {"absent"}]
    BY <2>7 DEF Round
  <2>11. /\ e.calls \subseteq g.calls /\ \A c \in g.calls \ e.calls : c.kind = "build" /\ c.step = "start"
         /\ \A t \in Sessions : t # s => g.st[t] = e.st[t] /\ (t \in g.mirrored <=> t \in e.mirrored)
    BY <2>6, <2>9, <2>10 DEF Mirrors, Requests
  <2>12. s \notin e.mirrored
    BY <2>6, <2>7, <2>8
  <2>13. Told(g, s)
    <3>1. CASE Mirrors(e, g, s)
      BY <2>6, <2>10, <3>1 DEF Mirrors, Told
    <3>2. CASE Requests(e, g, s)
      BY <2>6, <2>10, <2>12, <3>2 DEF Requests, Told
    <3>. QED BY <2>9, <3>1, <3>2
  <2>14. \A j \in 1 .. (i - 1) : Told(g, sessions[j])
    BY <2>7, <2>8, <2>11 DEF Told
  <2>15. \A j \in 1 .. i : Told(g, sessions[j])
    <3>1. \A j \in 1 .. i : j \in 1 .. (i - 1) \/ j = i
      BY <2>4
    <3>2. Told(g, sessions[i])
      BY <2>13 DEF s
    <3>. QED BY <2>14, <3>1, <3>2
  <2>16. \A t \in Sessions : (\A j \in 1 .. i : sessions[j] # t) =>
              g.st[t] = connections[t] /\ t \notin g.mirrored
    <3>1. ASSUME NEW t \in Sessions, \A j \in 1 .. i : sessions[j] # t
          PROVE  g.st[t] = connections[t] /\ t \notin g.mirrored
      <4>1. t # s /\ \A j \in 1 .. (i - 1) : sessions[j] # t
        BY <2>4, <3>1 DEF s
      <4>. QED BY <2>7, <2>11, <4>1
    <3>. QED BY <3>1
  <2>17. calls \subseteq g.calls /\ \A c \in g.calls \ calls : c.kind = "build" /\ c.step = "start"
    BY <2>7, <2>11
  <2>18. Good(i)
    BY <2>9, <2>15, <2>16, <2>17 DEF Good, g
  <2>. QED BY <2>2, <2>18
<1>6. Good(n)
  <2>. HIDE DEF Good
  <2>. QED BY <1>2, <1>5
<1>7. \A s \in Sessions \ ToSet(sessions) : \A j \in 1 .. n : sessions[j] # s
  BY <1>2 DEF ToSet
<1>8. \A s \in ToSet(sessions) : \E j \in 1 .. n : sessions[j] = s
  BY <1>2 DEF ToSet
<1>. DEFINE h == f[n]
<1>9. /\ Round(h) /\ calls \subseteq h.calls
      /\ \A c \in h.calls \ calls : c.kind = "build" /\ c.step = "start"
      /\ \A s \in Sessions : (\A j \in 1 .. n : sessions[j] # s) =>
            h.st[s] = connections[s] /\ s \notin h.mirrored
      /\ \A j \in 1 .. n : Told(h, sessions[j])
  BY <1>6
<1>10. Triggered = h
  BY <1>3
<1>. HIDE DEF Good, h, n
<1>11. \A s \in ToSet(sessions) : Told(h, s)
  BY <1>8, <1>9
<1>12. \A s \in Sessions \ ToSet(sessions) : h.st[s] = connections[s] /\ s \notin h.mirrored
  BY <1>7, <1>9
<1>. QED BY <1>9, <1>10, <1>11, <1>12

LEMMA ModelSavedPreserves ==
  ASSUME IndexIInv, ModelSaved
  PROVE  IndexIInv'
<1>. DEFINE f    == Triggered
            gone == {}
            come == f.calls \ calls
<1>1. /\ saving' = FALSE /\ Cardinality(f.calls) <= MaxCalls
      /\ connections' = f.st /\ calls' = f.calls /\ Mirrored(f)
      /\ UNCHANGED <<life, mapped, count, token, meta, builds, sessions, model, events, asked>>
  BY DEF ModelSaved, backend
<1>2. TypesInv /\ ToSet(sessions) \subseteq Sessions
  BY DEF IndexIInv, TypesInv, ToSet
<1>3. /\ Round(f) /\ calls \subseteq f.calls
      /\ \A c \in f.calls \ calls : c.kind = "build" /\ c.step = "start"
      /\ \A s \in Sessions \ ToSet(sessions) : f.st[s] = connections[s] /\ s \notin f.mirrored
      /\ \A s \in ToSet(sessions) : Told(f, s)
  BY <1>2, TriggeredIs
<1>. HIDE DEF f
<1>4. /\ MoreRaces /\ stray' \subseteq Sessions
      /\ \A s \in Sessions : s \notin f.mirrored => (s \in stray' <=> s \in stray)
      /\ \A s \in f.mirrored : s \notin stray' => Holds(s, f.st[s])
  BY <1>1, <1>2, <1>3, MirroredRaces DEF Round
<1>5. TypesInv'
  <2>1. CallsTyped'
    BY <1>1, <1>3 DEF CallsTyped, Round, Typed
  <2>. QED BY <1>1, <1>2, <1>3, <1>4, <2>1 DEF TypesInv, MoreRaces, Round
<1>6. ASSUME NEW s \in Sessions
      PROVE  /\ connections[s] # "absent" => connections'[s] # "absent"
             /\ connections[s] = "absent" => connections'[s] = "absent"
  <2>1. CASE s \in ToSet(sessions)
    <3>1. connections[s] # "absent"
      BY <2>1 DEF IndexIInv, CloseInv
    <3>2. connections'[s] \in {"building", "ready"}
      BY <1>1, <1>3, <2>1 DEF Told
    <3>. QED BY <3>1, <3>2
  <2>2. CASE s \notin ToSet(sessions)
    BY <1>1, <1>3, <2>2
  <2>. QED BY <2>1, <2>2
<1>7. ShownInv'
  <2>1. EndComing' <=> EndComing
    BY <1>1 DEF EndComing
  <2>2. \A v : RightAtRest(v)' <=> RightAtRest(v)
    BY <1>1 DEF RightAtRest, Rest
  <2>. SUFFICES ASSUME ~EndComing', NEW s \in ToSet(sessions)' \ stray', life'[s] = "open"
                PROVE  RightAtRest(connections[s])' \/ (connections'[s] \in {"building", "stale"} /\ OwnCall(s)')
    BY DEF ShownInv
  <2>3. RightAtRest(connections[s])' <=> RightAtRest(connections'[s])
    BY <1>1 DEF RightAtRest, Rest
  <2>4. s \in ToSet(sessions) /\ s \notin stray' /\ Told(f, s) /\ connections'[s] = f.st[s]
    <3>1. s \in ToSet(sessions)
      BY <1>1 DEF ToSet
    <3>. QED BY <1>1, <1>3, <3>1
  <2>5. CASE s \in f.mirrored
    <3>1. f.st[s] \in {"building", "ready"} /\ Holds(s, f.st[s])
      BY <1>4, <2>4, <2>5 DEF Told
    <3>2. f.st[s] = "ready" /\ get_index_status(s) = "ready"
      BY <2>1, <3>1 DEF Holds
    <3>3. RightAtRest(get_index_status(s))
      BY <3>2, AnswerIsRight
    <3>. QED BY <2>2, <2>3, <2>4, <3>2, <3>3
  <2>6. CASE s \notin f.mirrored
    <3>1. PICK c \in f.calls : c.kind = "build" /\ c.s = s
      BY <2>4, <2>6 DEF Told
    <3>2. f.st[s] = "building"
      BY <2>4, <2>6 DEF Told
    <3>3. OwnCall(s)'
      BY <1>1, <3>1 DEF OwnCall
    <3>. QED BY <2>4, <3>2, <3>3
  <2>. QED BY <2>5, <2>6
<1>8. /\ gone \in SUBSET calls /\ calls' = (calls \ gone) \cup come
      /\ \A e \in gone \cup come : Aside(e)
  BY <1>1, <1>3 DEF Aside
<1>. HIDE DEF gone, come
<1>. QED BY <1>1, <1>4, <1>5, <1>6, <1>7, <1>8, AsideFrame

(* Every registered session has its build made anew.                       *)
LEMMA ForceReindexPreserves ==
  ASSUME IndexIInv, ForceReindex
  PROVE  IndexIInv'
<1>. DEFINE gone == {}
            come == {Call(calls, "force", s, "start") : s \in ToSet(sessions)}
<1>1. /\ Room(Len(sessions)) /\ asked' \in 0 .. MaxAsked
      /\ connections' = [s \in Sessions |-> IF s \in ToSet(sessions) THEN "building" ELSE connections[s]]
      /\ calls' = calls \cup come
      /\ UNCHANGED <<life, mapped, count, token, meta, builds, model, events, sessions, saving, stray, races>>
  <2>1. asked \in 0 .. MaxAsked /\ asked < MaxAsked /\ asked' = asked + 1
    BY DEF ForceReindex, Asks, IndexIInv, TypesInv
  <2>2. asked' \in 0 .. MaxAsked
    BY <2>1, Bounds
  <2>. QED BY <2>2 DEF ForceReindex, backend
<1>2. TypesInv /\ ToSet(sessions) \subseteq Sessions
  BY DEF IndexIInv, TypesInv, ToSet
<1>3. /\ sessions \in Seq(Sessions) /\ connections \in [Sessions -> IndexStatuses \cup {"absent"}]
  BY <1>2 DEF TypesInv
<1>4. ASSUME NEW s \in Sessions, NEW d, d = Call(calls, "force", s, "start")
      PROVE  Typed(d) /\ d.kind = "force" /\ d.s = s /\ d.step = "start"
  <2>1. "start" \in StepsOf("force") /\ "force" \in CallKinds
    BY StepsAre DEF Asking, CallKinds
  <2>. QED BY <1>4, <2>1, CallIs
<1>5. IsFiniteSet(come) /\ Cardinality(come) <= Len(sessions)
  <2>. DEFINE n == Len(sessions)
              g == [i \in 1 .. n |-> Call(calls, "force", sessions[i], "start")]
  <2>1. n \in Nat /\ DOMAIN sessions = 1 .. n
    BY <1>3
  <2>2. IsFiniteSet(1 .. n) /\ Cardinality(1 .. n) = n
    <3>1. 1 \in Int /\ n \in Int
      BY <2>1
    <3>. HIDE DEF n
    <3>2. IsFiniteSet(1 .. n) /\ Cardinality(1 .. n) = IF 1 > n THEN 0 ELSE n - 1 + 1
      BY <3>1, FS_Interval
    <3>. QED BY <2>1, <3>2
  <2>3. g \in Surjection(1 .. n, come)
    <3>1. g \in [1 .. n -> come]
      <4>1. ASSUME NEW i \in 1 .. n PROVE Call(calls, "force", sessions[i], "start") \in come
        <5>1. sessions[i] \in ToSet(sessions)
          BY <2>1 DEF ToSet
        <5>. QED BY <5>1
      <4>. HIDE DEF come
      <4>. QED BY <4>1
    <3>2. ASSUME NEW x \in come PROVE \E i \in 1 .. n : g[i] = x
      <4>1. PICK s \in ToSet(sessions) : x = Call(calls, "force", s, "start")
        OBVIOUS
      <4>2. PICK i \in 1 .. n : sessions[i] = s
        BY <2>1 DEF ToSet
      <4>3. g[i] = x
        BY <4>1, <4>2
      <4>. QED BY <4>3
    <3>. HIDE DEF g, come
    <3>. QED BY <3>1, <3>2 DEF Surjection
  <2>. HIDE DEF g, come, n
  <2>4. IsFiniteSet(come) /\ Cardinality(come) <= Cardinality(1 .. n)
    BY <2>2, <2>3, FS_Surjection
  <2>. QED BY <2>2, <2>4 DEF n
<1>6. \A c \in come : Typed(c) /\ c.kind = "force" /\ c.step = "start"
  BY <1>2, <1>4
<1>7. \A s \in ToSet(sessions) : \E c \in come : c.s = s /\ c.kind = "force"
  BY <1>2, <1>4
<1>. HIDE DEF come
<1>8. TypesInv'
  <2>1. CallsTyped'
    <3>1. IsFiniteSet(calls) /\ Cardinality(calls) + Len(sessions) <= MaxCalls
      BY <1>1, <1>2 DEF TypesInv, CallsTyped, Room
    <3>2. /\ IsFiniteSet(calls \cup come)
          /\ Cardinality(calls \cup come) = Cardinality(calls) + Cardinality(come) - Cardinality(calls \cap come)
      BY <1>5, <3>1, FS_Union
    <3>3. /\ Cardinality(calls) \in Nat /\ Cardinality(come) \in Nat
          /\ Cardinality(calls \cap come) \in Nat /\ Len(sessions) \in Nat
      <4>1. IsFiniteSet(calls \cap come)
        <5>1. calls \cap come \in SUBSET calls
          OBVIOUS
        <5>. QED BY <3>1, <5>1, FS_Subset
      <4>. QED BY <1>3, <1>5, <3>1, <4>1, FS_CardinalityType
    <3>4. Cardinality(calls') <= MaxCalls
      BY <1>1, <1>5, <3>1, <3>2, <3>3, Bounds
    <3>5. \A c \in calls' : Typed(c)
      BY <1>1, <1>2, <1>6 DEF TypesInv, CallsTyped
    <3>. QED BY <1>1, <3>2, <3>4, <3>5 DEF CallsTyped, Typed
  <2>2. connections' \in [Sessions -> IndexStatuses \cup {"absent"}]
    BY <1>1, <1>3 DEF IndexStatuses
  <2>. QED BY <1>1, <1>2, <2>1, <2>2 DEF TypesInv
<1>9. MoreRaces
  BY <1>1, <1>2 DEF MoreRaces, TypesInv
<1>10. ASSUME NEW s \in Sessions
       PROVE  /\ connections[s] # "absent" => connections'[s] # "absent"
              /\ connections[s] = "absent" => connections'[s] = "absent"
  <2>1. s \in ToSet(sessions) => connections[s] # "absent"
    BY DEF IndexIInv, CloseInv
  <2>. QED BY <1>1, <2>1
<1>11. ShownInv'
  <2>1. EndComing => EndComing'
    BY <1>1 DEF EndComing
  <2>2. \A s \in ToSet(sessions) : connections'[s] = "building" /\ OwnCall(s)'
    BY <1>1, <1>2, <1>7 DEF OwnCall
  <2>. QED BY <1>1, <1>2, <1>9, <2>1, <2>2, ShownFrame DEF IndexIInv
<1>12. /\ gone \in SUBSET calls /\ calls' = (calls \ gone) \cup come
       /\ \A e \in gone \cup come : Aside(e)
  BY <1>1, <1>6 DEF Aside
<1>. HIDE DEF gone
<1>. QED BY <1>1, <1>8, <1>9, <1>10, <1>11, <1>12, AsideFrame

----------
(* The calls on their way to a build. *)

LEMMA RunCalls ==
  ASSUME TypesInv, NEW c \in calls, NEW d, Typed(d), calls' = (calls \ {c}) \cup {d},
         c.kind # "close", d.kind = c.kind, d.s = c.s, life' = life
  PROVE  /\ SameCloses /\ Unmaps' = Unmaps
         /\ \A s : ClosePast(s)' <=> ClosePast(s)
         /\ \A s : OwnCall(s) => OwnCall(s)'
         /\ \A e \in calls : e.step = "stop" => e \in calls'
         /\ \A e \in calls' : e = d \/ (e \in calls /\ e # c)
         /\ c.step \notin {"stop", "unmap", "unmapLast"} /\ d.step \notin {"stop", "unmap", "unmapLast"}
         /\ c.step # "count" /\ d.step # "count" => Pending' = Pending
<1>1. SameCloses
  BY DEF SameCloses, Closes
<1>2. \A s : ClosePast(s)' <=> ClosePast(s)
  BY <1>1, PastFrame
<1>3. \A s : OwnCall(s) => OwnCall(s)'
  BY DEF OwnCall
<1>4. c.step \notin {"stop", "unmap", "unmapLast"}
  BY CallFacts
<1>5. d.step \notin {"stop", "unmap", "unmapLast"}
  BY DEF Typed, StepsOf, CallKinds, Asking, IndexStatuses
<1>6. Unmaps' = Unmaps
  BY DEF Unmaps
<1>7. c.step # "count" /\ d.step # "count" => Pending' = Pending
  BY <1>4, <1>5 DEF Pending
<1>. QED BY <1>1, <1>2, <1>3, <1>4, <1>5, <1>6, <1>7

LEMMA RunMapped ==
  ASSUME IndexIInv, NEW c \in calls, NEW d, Typed(d), calls' = (calls \ {c}) \cup {d},
         c.kind \in Asking, c.step \in {"check", "cancel", "insert", "pool"}, d.step \notin {"look", "map", "count"},
         d.kind = c.kind, d.s = c.s, life' = life, mapped' = mapped, MoreRaces
  PROVE  MappedInv' /\ RegisterInv' /\ Pending' = Pending
<1>1. /\ \A s : ClosePast(s)' <=> ClosePast(s)
      /\ Unmaps' = Unmaps /\ Pending' = Pending
  BY RunCalls DEF IndexIInv, Asking
<1>2. MappedInv'
  <2>1. MappedInv
    BY DEF IndexIInv
  <2>2. "late" \notin races' => "late" \notin races
    BY DEF MoreRaces
  <2>. QED BY <1>1, <2>1, <2>2 DEF MappedInv
<1>3. RegisterInv'
  <2>1. RegisterInv
    BY DEF IndexIInv
  <2>. QED BY <1>1, <2>1 DEF RegisterInv, MoreRaces
<1>. QED BY <1>1, <1>2, <1>3

(* Builds that are the same but for their cancellation.                    *)
SameBuilds ==
  \A b \in BuildIds : /\ builds'[b].on = builds[b].on /\ builds'[b].step = builds[b].step
                      /\ builds'[b].model = builds[b].model /\ builds'[b].partial = builds[b].partial

LEMMA BuildsStay ==
  ASSUME SameBuilds, IndexIInv, UNCHANGED <<meta, model, events>>, MoreRaces,
         \A c \in calls' : c.step \in {"insert", "pool"} =>
            c \in calls \/ (c.step = "insert" /\ c.model = model /\ model # NoModel)
  PROVE  /\ SpawnInv' /\ ModelInv' /\ EventsInv'
         /\ EndComing' <=> EndComing
<1>1. SpawnInv'
  BY DEF SpawnInv, SameBuilds, IndexIInv
<1>2. ModelInv'
  <2>1. ModelInv
    BY DEF IndexIInv
  <2>. QED BY <2>1 DEF ModelInv, SameBuilds, MoreRaces
<1>3. EventsInv'
  <2>1. EventsInv
    BY DEF IndexIInv
  <2>2. Working' <=> Working
    BY DEF Working, SameBuilds
  <2>3. \A v : RightAtRest(v)' <=> RightAtRest(v)
    BY DEF RightAtRest, Rest
  <2>4. RightAtRest(events[Len(events)])' <=> RightAtRest(events[Len(events)])
    BY DEF RightAtRest, Rest
  <2>. QED BY <2>1, <2>2, <2>4 DEF EventsInv, SameBuilds, MoreRaces
<1>4. EndComing' <=> EndComing
  BY DEF EndComing, SameBuilds
<1>. QED BY <1>1, <1>2, <1>3, <1>4

LEMMA CancelIs ==
  ASSUME TypesInv, builds' = Cancelled(token)
  PROVE  /\ builds' \in [BuildIds -> BuildType] /\ SameBuilds
         /\ \A b \in BuildIds : builds'[b].live => builds[b].live /\ b # token
<1>1. builds \in [BuildIds -> BuildType] /\ token \in BuildIds \cup {NoBuild}
  BY DEF TypesInv
<1>2. CASE token = NoBuild
  BY <1>1, <1>2, Bounds DEF Cancelled, SameBuilds
<1>3. CASE token # NoBuild
  <2>1. builds' = [builds EXCEPT ![token].live = FALSE] /\ token \in BuildIds
    BY <1>1, <1>3 DEF Cancelled
  <2>2. \A b \in BuildIds : b # token => builds'[b] = builds[b]
    BY <1>1, <2>1
  <2>3. builds'[token] = [builds[token] EXCEPT !.live = FALSE]
    BY <1>1, <2>1
  <2>4. builds[token] \in BuildType
    BY <1>1, <2>1
  <2>5. /\ builds'[token].live = FALSE
        /\ builds'[token].on = builds[token].on /\ builds'[token].step = builds[token].step
        /\ builds'[token].model = builds[token].model /\ builds'[token].partial = builds[token].partial
    BY <2>3, <2>4 DEF BuildType
  <2>6. builds' \in [BuildIds -> BuildType]
    BY <1>1, <2>1 DEF BuildType
  <2>. QED BY <2>2, <2>5, <2>6 DEF SameBuilds
<1>. QED BY <1>2, <1>3

(* With the token goes the one build that went on.                         *)
LEMMA CancelledToken ==
  ASSUME IndexIInv, builds' = Cancelled(token), token' = NoBuild, MoreRaces
  PROVE  TokenInv'
<1>1. SameBuilds /\ \A b \in BuildIds : builds'[b].live => builds[b].live /\ b # token
  BY CancelIs DEF IndexIInv
<1>2. TokenInv
  BY DEF IndexIInv
<1>. QED BY <1>1, <1>2 DEF TokenInv, SameBuilds, MoreRaces

(* A call that registers its session goes to its next step.                *)
LEMMA RunGoes ==
  ASSUME IndexIInv, NEW c \in calls, c.kind \in Asking, c.step \notin {"insert", "pool"},
         NEW step \in {"look", "map", "count", "check", "cancel", "failed"}, Goto(c, step),
         UNCHANGED <<life, sessions, connections, builds, meta, model, events, saving, asked, stray>>,
         MoreRaces
  PROVE  \E d : /\ calls' = (calls \ {c}) \cup {d} /\ Typed(d)
                /\ d.kind = c.kind /\ d.s = c.s /\ d.step = step
                /\ CallsTyped' /\ CloseInv' /\ SpawnInv' /\ ModelInv' /\ EventsInv' /\ ShownInv'
<1>. DEFINE d == [c EXCEPT !.step = step]
<1>1. TypesInv /\ Typed(c) /\ c.kind # "close" /\ calls' = (calls \ {c}) \cup {d}
  BY CallFacts DEF IndexIInv, Goto, Becomes, Asking
<1>2. Typed(d) /\ d.kind = c.kind /\ d.s = c.s /\ d.step = step
  <2>1. step \in StepsOf(c.kind)
    BY StepsAre
  <2>2. \A e : e = [c EXCEPT !.step = step] =>
           e.kind = c.kind /\ e.s = c.s /\ e.step = step /\ Typed(e)
    BY <1>1, <2>1, Goes
  <2>. QED BY <2>2
<1>. HIDE DEF d
<1>3. /\ SameCloses
      /\ \A s : OwnCall(s) => OwnCall(s)'
      /\ \A e \in calls' : e = d \/ (e \in calls /\ e # c)
  BY <1>1, <1>2, RunCalls
<1>4. CallsTyped'
  BY <1>1, <1>2, CallBecomes DEF TypesInv
<1>5. CloseInv'
  BY <1>3, CloseFrame DEF IndexIInv
<1>6. \A e \in calls' : e.step \in {"insert", "pool"} => e \in calls
  BY <1>2, <1>3
<1>7. SpawnInv' /\ ModelInv' /\ EventsInv'
  BY <1>6, SpawnFrame, ModelFrame, EventsFrame DEF IndexIInv
<1>8. ShownInv'
  <2>1. EndComing => EndComing'
    BY DEF EndComing
  <2>2. ToSet(sessions) \subseteq Sessions
    BY <1>1 DEF TypesInv, ToSet
  <2>. QED BY <1>3, <2>1, <2>2, ShownFrame DEF IndexIInv
<1>. QED BY <1>1, <1>2, <1>4, <1>5, <1>7, <1>8

(* The mapped sessions, and the count of those that are counted.           *)
LEMMA CountsAre ==
  ASSUME IndexIInv
  PROVE  /\ CountedSessions = {s \in mapped : ~\E c \in Pending : c.s = s}
         /\ IsFiniteSet(CountedSessions) /\ Cardinality(CountedSessions) \in Nat
         /\ count \in Nat \cup {NoCount} /\ NoCount \notin Nat
         /\ mapped \subseteq Sessions /\ CountIsExact
<1>1. CountedSessions = {s \in mapped : ~\E c \in Pending : c.s = s}
  BY DEF CountedSessions, Pending
<1>2. count \in Nat \cup {NoCount} /\ NoCount \notin Nat /\ mapped \subseteq Sessions /\ CountIsExact
  BY DEF IndexIInv, TypesInv, NoCount
<1>3. IsFiniteSet(CountedSessions)
  <2>1. CountedSessions \in SUBSET Sessions
    BY <1>1, <1>2
  <2>. QED BY <2>1, Bounds, FS_Subset
<1>. QED BY <1>1, <1>2, <1>3, FS_CardinalityType

LEMMA CountedNext ==
  CountedSessions' = {s \in mapped' : ~\E c \in Pending' : c.s = s}
BY DEF CountedSessions, Pending

LEMMA FindProfilePreserves ==
  ASSUME IndexIInv, NEW c \in calls, FindProfile(c)
  PROVE  IndexIInv'
<1>. DEFINE step == IF Resolves(c.s) THEN "look" ELSE "failed"
<1>1. /\ c.step = "start" /\ c.kind \in Asking /\ Goto(c, step)
      /\ UNCHANGED <<life, mapped, count, token, meta, builds, connections, sessions, saving, asked, model,
                     events, stray, races>>
  BY DEF FindProfile, backend, frontend
<1>2. TypesInv /\ c.kind # "close" /\ MoreRaces
  BY <1>1 DEF IndexIInv, TypesInv, Asking, MoreRaces
<1>. HIDE DEF step
<1>3. step \in {"look", "failed"}
  BY DEF step
<1>. PICK d : /\ calls' = (calls \ {c}) \cup {d} /\ Typed(d)
              /\ d.kind = c.kind /\ d.s = c.s /\ d.step = step
              /\ CallsTyped' /\ CloseInv' /\ SpawnInv' /\ ModelInv' /\ EventsInv' /\ ShownInv'
  BY <1>1, <1>2, <1>3, RunGoes
<1>4. /\ \A s : ClosePast(s)' <=> ClosePast(s)
      /\ Unmaps' = Unmaps /\ Pending' = Pending
      /\ \A e \in calls : e.step = "stop" => e \in calls'
      /\ \A e \in calls' : e = d \/ (e \in calls /\ e # c)
  BY <1>1, <1>2, <1>3, RunCalls
<1>5. TypesInv'
  BY <1>1, <1>2 DEF TypesInv
<1>6. MappedInv'
  <2>1. MappedInv
    BY DEF IndexIInv
  <2>2. "late" \notin races /\ step = "look" => life[c.s] # "new"
    BY <2>1 DEF step, Resolves, MappedInv
  <2>. QED BY <1>1, <1>3, <1>4, <2>1, <2>2 DEF MappedInv
<1>7. RegisterInv'
  <2>1. RegisterInv
    BY DEF IndexIInv
  <2>. QED BY <1>1, <1>3, <1>4, <2>1 DEF RegisterInv
<1>8. CountIsExact'
  BY <1>1, <1>2, <1>4, CountFrame DEF IndexIInv
<1>9. TokenInv'
  BY <1>1, <1>2, <1>4, TokenFrame DEF IndexIInv
<1>. QED BY <1>5, <1>6, <1>7, <1>8, <1>9 DEF IndexIInv

LEMMA LookUpPreserves ==
  ASSUME IndexIInv, NEW c \in calls, LookUp(c)
  PROVE  IndexIInv'
<1>. DEFINE step == IF IsRegistered(c.s) THEN AfterRegistering(c) ELSE "map"
<1>1. /\ c.step = "look" /\ Goto(c, step)
      /\ races' = IF ~IsRegistered(c.s) /\ \E d \in calls : d.s = c.s /\ d.step = "map"
                  THEN races \cup {"double"} ELSE races
      /\ UNCHANGED <<life, mapped, count, token, meta, builds, connections, sessions, saving, asked, model,
                     events, stray>>
  BY DEF LookUp, backend, frontend
<1>2. TypesInv /\ c.kind \in Asking /\ c.kind # "close" /\ races \subseteq Races
  BY <1>1, CallFacts DEF IndexIInv, TypesInv, Asking
<1>. HIDE DEF step
<1>3. /\ step \in {"map", "check", "cancel"}
      /\ step = "map" => c.s \notin mapped
      /\ step # "map" => c.s \in mapped
  BY DEF step, AfterRegistering, IsRegistered
<1>4. MoreRaces
  BY <1>1, <1>2 DEF MoreRaces, Races
<1>. PICK d : /\ calls' = (calls \ {c}) \cup {d} /\ Typed(d)
              /\ d.kind = c.kind /\ d.s = c.s /\ d.step = step
              /\ CallsTyped' /\ CloseInv' /\ SpawnInv' /\ ModelInv' /\ EventsInv' /\ ShownInv'
  BY <1>1, <1>2, <1>3, <1>4, RunGoes
<1>5. /\ \A s : ClosePast(s)' <=> ClosePast(s)
      /\ Unmaps' = Unmaps /\ Pending' = Pending
      /\ \A e \in calls : e.step = "stop" => e \in calls'
      /\ \A e \in calls' : e = d \/ (e \in calls /\ e # c)
  BY <1>1, <1>2, <1>3, RunCalls
<1>6. TypesInv'
  BY <1>1, <1>2, <1>4 DEF TypesInv, MoreRaces
<1>7. MappedInv'
  <2>1. MappedInv
    BY DEF IndexIInv
  <2>. QED BY <1>1, <1>3, <1>4, <1>5, <2>1 DEF MappedInv, MoreRaces
<1>8. RegisterInv'
  <2>1. RegisterInv
    BY DEF IndexIInv
  <2>2. "double" \notin races' /\ step = "map" => \A e \in calls : e.step = "map" => e.s # c.s
    BY <1>1, <1>3 DEF IsRegistered
  <2>. QED BY <1>1, <1>3, <1>4, <1>5, <2>1, <2>2 DEF RegisterInv, MoreRaces
<1>9. CountIsExact'
  BY <1>1, <1>4, <1>5, CountFrame DEF IndexIInv
<1>10. TokenInv'
  BY <1>1, <1>3, <1>4, <1>5, TokenFrame DEF IndexIInv
<1>. QED BY <1>6, <1>7, <1>8, <1>9, <1>10 DEF IndexIInv

LEMMA MapSessionPreserves ==
  ASSUME IndexIInv, NEW c \in calls, MapSession(c)
  PROVE  IndexIInv'
<1>1. /\ c.step = "map" /\ mapped' = mapped \cup {c.s} /\ Goto(c, "count")
      /\ races' = IF ClosePast(c.s) THEN races \cup {"late"} ELSE races
      /\ UNCHANGED <<life, count, token, meta, builds, connections, sessions, saving, asked, model,
                     events, stray>>
  BY DEF MapSession, frontend
<1>2. TypesInv /\ c.kind \in Asking /\ c.kind # "close" /\ c.s \in Sessions /\ races \subseteq Races
  BY <1>1, CallFacts DEF IndexIInv, TypesInv, Asking
<1>3. MoreRaces
  BY <1>1, <1>2 DEF MoreRaces, Races
<1>. PICK d : /\ calls' = (calls \ {c}) \cup {d} /\ Typed(d)
              /\ d.kind = c.kind /\ d.s = c.s /\ d.step = "count"
              /\ CallsTyped' /\ CloseInv' /\ SpawnInv' /\ ModelInv' /\ EventsInv' /\ ShownInv'
  BY <1>1, <1>2, <1>3, RunGoes
<1>4. /\ \A s : ClosePast(s)' <=> ClosePast(s)
      /\ Unmaps' = Unmaps
      /\ \A e \in calls : e.step = "stop" => e \in calls'
      /\ \A e \in calls' : e = d \/ (e \in calls /\ e # c)
  BY <1>1, <1>2, RunCalls
<1>5. TypesInv'
  BY <1>1, <1>2, <1>3 DEF TypesInv, MoreRaces
<1>6. "late" \notin races' => "late" \notin races /\ ~ClosePast(c.s)
  BY <1>1
<1>7. MappedInv'
  <2>1. MappedInv
    BY DEF IndexIInv
  <2>. QED BY <1>1, <1>4, <1>6, <2>1 DEF MappedInv
<1>8. RegisterInv /\ RegisterInv'
  <2>1. RegisterInv
    BY DEF IndexIInv
  <2>2. RegisterInv'
    BY <1>1, <1>3, <1>4, <1>6, <2>1 DEF RegisterInv, MoreRaces
  <2>. QED BY <2>1, <2>2
<1>9. Pending' = Pending \cup {d}
  BY <1>1 DEF Pending
<1>10. CountIsExact'
  <2>. SUFFICES ASSUME races' \cap {"double", "late", "reset"} = {},
                       races \cap {"double", "late", "reset"} = {}
                PROVE  CountedSessions' = CountedSessions
    BY <1>1, CountsAre DEF CountIsExact
  <2>1. c.s \notin mapped
    BY <1>1, <1>8 DEF RegisterInv
  <2>. QED BY <1>1, <1>9, <2>1, CountsAre, CountedNext
<1>11. TokenInv'
  <2>1. TokenInv
    BY DEF IndexIInv
  <2>2. SessionStays => SessionStays'
    <3>1. \A e \in calls : e.step \in {"unmapLast", "stop"} => e \in calls'
      BY <1>1
    <3>. QED BY <1>1, <1>9, <3>1 DEF SessionStays
  <2>3. \A e \in calls : e.step = "pool" => e \in calls'
    BY <1>1
  <2>. QED BY <1>1, <1>3, <2>1, <2>2, <2>3 DEF TokenInv, MoreRaces
<1>. QED BY <1>5, <1>7, <1>8, <1>10, <1>11 DEF IndexIInv

LEMMA CountSessionPreserves ==
  ASSUME IndexIInv, NEW c \in calls, CountSession(c)
  PROVE  IndexIInv'
<1>. DEFINE step == AfterRegistering(c)
<1>1. /\ c.step = "count" /\ count' = (IF count = NoCount THEN 1 ELSE count + 1) /\ Goto(c, step)
      /\ races' = IF ClosePast(c.s) THEN races \cup {"late"} ELSE races
      /\ UNCHANGED <<life, mapped, token, meta, builds, connections, sessions, saving, asked, model,
                     events, stray>>
  BY DEF CountSession, frontend
<1>2. TypesInv /\ c.kind \in Asking /\ c.kind # "close" /\ races \subseteq Races
  BY <1>1, CallFacts DEF IndexIInv, TypesInv, Asking
<1>. HIDE DEF step
<1>3. step \in {"check", "cancel"}
  BY DEF step, AfterRegistering
<1>4. MoreRaces
  BY <1>1, <1>2 DEF MoreRaces, Races
<1>. PICK d : /\ calls' = (calls \ {c}) \cup {d} /\ Typed(d)
              /\ d.kind = c.kind /\ d.s = c.s /\ d.step = step
              /\ CallsTyped' /\ CloseInv' /\ SpawnInv' /\ ModelInv' /\ EventsInv' /\ ShownInv'
  BY <1>1, <1>2, <1>3, <1>4, RunGoes
<1>5. /\ \A s : ClosePast(s)' <=> ClosePast(s)
      /\ Unmaps' = Unmaps
      /\ \A e \in calls : e.step = "stop" => e \in calls'
      /\ \A e \in calls' : e = d \/ (e \in calls /\ e # c)
  BY <1>1, <1>2, <1>3, RunCalls
<1>6. count' \in Nat
  BY <1>1, CountsAre
<1>7. TypesInv'
  BY <1>1, <1>2, <1>4, <1>6 DEF TypesInv, MoreRaces
<1>8. MappedInv'
  <2>1. MappedInv
    BY DEF IndexIInv
  <2>. QED BY <1>1, <1>3, <1>4, <1>5, <2>1 DEF MappedInv, MoreRaces
<1>9. RegisterInv'
  <2>1. RegisterInv
    BY DEF IndexIInv
  <2>. QED BY <1>1, <1>3, <1>4, <1>5, <2>1 DEF RegisterInv, MoreRaces
<1>10. Pending' = Pending \ {c}
  BY <1>1, <1>3 DEF Pending
<1>11. CountIsExact'
  <2>. SUFFICES ASSUME races' \cap {"double", "late", "reset"} = {},
                       races \cap {"double", "late", "reset"} = {}
                PROVE  (IF count' = NoCount THEN 0 ELSE count') = Cardinality(CountedSessions')
    BY <1>1 DEF CountIsExact
  <2>1. c.s \in mapped /\ ~ClosePast(c.s) /\ \A e \in calls : e.step = "count" /\ e.s = c.s => e = c
    BY <1>1 DEF IndexIInv, RegisterInv
  <2>2. \A e \in calls : e.step \in {"unmap", "unmapLast"} => e.s # c.s
    <3>1. \A e \in calls : e.step \in {"unmap", "unmapLast"} => e.kind = "close"
      BY <1>2, CallFacts
    <3>. QED BY <2>1, <3>1 DEF ClosePast
  <2>3. \A e \in Pending' : e.s # c.s
    BY <1>10, <2>1, <2>2 DEF Pending
  <2>4. c \in Pending
    BY <1>1 DEF Pending
  <2>5. CountedSessions' = CountedSessions \cup {c.s} /\ c.s \notin CountedSessions
    BY <1>1, <1>10, <2>1, <2>3, <2>4, CountsAre, CountedNext
  <2>6. Cardinality(CountedSessions') = Cardinality(CountedSessions) + 1
    BY <2>5, CountsAre, FS_AddElement
  <2>7. (IF count = NoCount THEN 0 ELSE count) = Cardinality(CountedSessions)
    BY CountsAre DEF CountIsExact
  <2>. QED BY <1>1, <1>6, <2>6, <2>7, CountsAre
<1>12. TokenInv'
  <2>1. TokenInv
    BY DEF IndexIInv
  <2>2. SessionStays => SessionStays'
    <3>1. \A e \in calls : e.step \in {"unmapLast", "stop"} => e \in calls'
      BY <1>1
    <3>. QED BY <1>1, <1>10, <3>1 DEF SessionStays
  <2>3. \A e \in calls : e.step = "pool" => e \in calls'
    BY <1>1
  <2>. QED BY <1>1, <1>4, <2>1, <2>2, <2>3 DEF TokenInv, MoreRaces
<1>. QED BY <1>7, <1>8, <1>9, <1>11, <1>12 DEF IndexIInv

(* A call that has looked for a running build ends, or goes on with the    *)
(* model as saved.                                                         *)
LEMMA LooksOn ==
  ASSUME TypesInv, NEW c \in calls, c.kind \in Asking,
         \/ Goto(c, "done")
         \/ model # NoModel /\ Becomes(c, [c EXCEPT !.step = "insert", !.model = model])
  PROVE  \E d : /\ calls' = (calls \ {c}) \cup {d} /\ Typed(d) /\ d.kind = c.kind /\ d.s = c.s
                /\ d.step \in {"done", "insert"}
                /\ d.step = "insert" => d.model = model /\ model # NoModel
<1>1. Typed(c) /\ model \in Models \cup {NoModel} /\ {"done", "insert"} \subseteq StepsOf(c.kind)
  BY CallFacts, StepsAre DEF TypesInv
<1>2. CASE Goto(c, "done")
  <2>. DEFINE d == [c EXCEPT !.step = "done"]
  <2>1. \A e : e = [c EXCEPT !.step = "done"] =>
           e.kind = c.kind /\ e.s = c.s /\ e.step = "done" /\ Typed(e)
    BY <1>1, Goes
  <2>2. d.kind = c.kind /\ d.s = c.s /\ d.step = "done" /\ Typed(d)
    BY <2>1
  <2>3. calls' = (calls \ {c}) \cup {d}
    BY <1>2 DEF Goto, Becomes
  <2>. HIDE DEF d
  <2>. QED BY <2>2, <2>3
<1>3. CASE model # NoModel /\ Becomes(c, [c EXCEPT !.step = "insert", !.model = model])
  <2>. DEFINE d == [c EXCEPT !.step = "insert", !.model = model]
  <2>1. c = [kind |-> c.kind, s |-> c.s, step |-> c.step, model |-> c.model, b |-> c.b, n |-> c.n]
    BY <1>1 DEF Typed
  <2>2. ASSUME NEW e, e = d
        PROVE  e = [kind |-> c.kind, s |-> c.s, step |-> "insert", model |-> model, b |-> c.b, n |-> c.n]
    BY <2>1, <2>2
  <2>3. calls' = (calls \ {c}) \cup {d}
    BY <1>3 DEF Becomes
  <2>. HIDE DEF d
  <2>4. d.kind = c.kind /\ d.s = c.s /\ d.step = "insert" /\ d.model = model /\ Typed(d)
    BY <1>1, <2>2 DEF Typed
  <2>. QED BY <1>3, <2>3, <2>4
<1>. QED BY <1>2, <1>3

LEMMA CheckRunningPreserves ==
  ASSUME IndexIInv, NEW c \in calls, CheckRunning(c)
  PROVE  IndexIInv'
<1>1. /\ c.step = "check"
      /\ UNCHANGED <<life, mapped, count, token, meta, builds, connections, sessions, saving, asked, model,
                     events, stray, races>>
      /\ \/ Goto(c, "done")
         \/ model # NoModel /\ Becomes(c, [c EXCEPT !.step = "insert", !.model = model])
  BY DEF CheckRunning, backend, frontend
<1>2. TypesInv /\ c.kind \in Asking /\ c.kind # "close" /\ c.s \in Sessions
  BY <1>1, CallFacts DEF IndexIInv, Asking
<1>3. PICK d : /\ calls' = (calls \ {c}) \cup {d} /\ Typed(d) /\ d.kind = c.kind /\ d.s = c.s
               /\ d.step \in {"done", "insert"}
               /\ d.step = "insert" => d.model = model /\ model # NoModel
  BY <1>1, <1>2, LooksOn
<1>4. /\ SameCloses /\ \A s : OwnCall(s) => OwnCall(s)'
      /\ \A e \in calls : e.step = "stop" => e \in calls'
      /\ \A e \in calls' : e = d \/ (e \in calls /\ e # c)
  BY <1>1, <1>2, <1>3, RunCalls
<1>5. MoreRaces /\ ToSet(sessions) \subseteq Sessions /\ SameBuilds
  BY <1>1, <1>2 DEF MoreRaces, TypesInv, ToSet, SameBuilds
<1>6. TypesInv'
  <2>1. CallsTyped'
    BY <1>1, <1>2, <1>3, CallBecomes DEF TypesInv
  <2>. QED BY <1>1, <1>2, <2>1 DEF TypesInv
<1>7. MappedInv' /\ RegisterInv' /\ Pending' = Pending
  BY <1>1, <1>2, <1>3, <1>5, RunMapped
<1>8. CountIsExact' /\ CloseInv'
  BY <1>1, <1>4, <1>5, <1>7, CountFrame, CloseFrame DEF IndexIInv
<1>9. TokenInv'
  <2>1. \A e \in calls : e.step \in {"stop", "pool"} => e \in calls'
    BY <1>1, <1>3, <1>4
  <2>. QED BY <1>1, <1>5, <1>7, <2>1, TokenFrame DEF IndexIInv
<1>10. \A e \in calls' : e.step \in {"insert", "pool"} =>
            e \in calls \/ (e.step = "insert" /\ e.model = model /\ model # NoModel)
  BY <1>3, <1>4
<1>11. SpawnInv' /\ ModelInv' /\ EventsInv' /\ (EndComing' <=> EndComing)
  BY <1>1, <1>5, <1>10, BuildsStay
<1>12. ShownInv'
  BY <1>1, <1>4, <1>5, <1>11, ShownFrame DEF IndexIInv
<1>. QED BY <1>6, <1>7, <1>8, <1>9, <1>11, <1>12 DEF IndexIInv

LEMMA CancelRunningPreserves ==
  ASSUME IndexIInv, NEW c \in calls, CancelRunning(c)
  PROVE  IndexIInv'
<1>1. /\ c.step = "cancel" /\ builds' = Cancelled(token) /\ token' = NoBuild
      /\ UNCHANGED <<life, mapped, count, meta, connections, sessions, saving, asked, model,
                     events, stray, races>>
      /\ \/ Goto(c, "done")
         \/ model # NoModel /\ Becomes(c, [c EXCEPT !.step = "insert", !.model = model])
  BY DEF CancelRunning, frontend
<1>2. TypesInv /\ c.kind \in Asking /\ c.kind # "close" /\ c.s \in Sessions
  BY <1>1, CallFacts DEF IndexIInv, Asking
<1>3. PICK d : /\ calls' = (calls \ {c}) \cup {d} /\ Typed(d) /\ d.kind = c.kind /\ d.s = c.s
               /\ d.step \in {"done", "insert"}
               /\ d.step = "insert" => d.model = model /\ model # NoModel
  BY <1>1, <1>2, LooksOn
<1>4. /\ SameCloses /\ \A s : OwnCall(s) => OwnCall(s)'
      /\ \A e \in calls' : e = d \/ (e \in calls /\ e # c)
  BY <1>1, <1>2, <1>3, RunCalls
<1>5. builds' \in [BuildIds -> BuildType] /\ SameBuilds
  BY <1>1, <1>2, CancelIs
<1>6. MoreRaces /\ ToSet(sessions) \subseteq Sessions
  BY <1>1, <1>2 DEF MoreRaces, TypesInv, ToSet
<1>7. TypesInv'
  <2>1. CallsTyped'
    BY <1>1, <1>2, <1>3, CallBecomes DEF TypesInv
  <2>2. \A b \in BuildIds : builds'[b].on => builds'[b].step # "none"
    BY <1>2, <1>5 DEF SameBuilds, TypesInv
  <2>. QED BY <1>1, <1>2, <1>5, <2>1, <2>2 DEF TypesInv
<1>8. MappedInv' /\ RegisterInv' /\ Pending' = Pending
  BY <1>1, <1>2, <1>3, <1>6, RunMapped
<1>9. CountIsExact' /\ CloseInv'
  BY <1>1, <1>4, <1>6, <1>8, CountFrame, CloseFrame DEF IndexIInv
<1>10. TokenInv'
  BY <1>1, <1>6, CancelledToken
<1>11. \A e \in calls' : e.step \in {"insert", "pool"} =>
            e \in calls \/ (e.step = "insert" /\ e.model = model /\ model # NoModel)
  BY <1>3, <1>4
<1>12. SpawnInv' /\ ModelInv' /\ EventsInv' /\ (EndComing' <=> EndComing)
  BY <1>1, <1>5, <1>6, <1>11, BuildsStay
<1>13. ShownInv'
  BY <1>1, <1>4, <1>6, <1>12, ShownFrame DEF IndexIInv
<1>. QED BY <1>7, <1>8, <1>9, <1>10, <1>12, <1>13 DEF IndexIInv

(* The token of the build to come.                                         *)
LEMMA InsertTokenPreserves ==
  ASSUME IndexIInv, NEW c \in calls, InsertToken(c)
  PROVE  IndexIInv'
<1>. DEFINE b == Min(FreeBuilds)
            d == [c EXCEPT !.step = "pool", !.b = b]
<1>1. /\ c.step = "insert" /\ FreeBuilds # {} /\ token' = b
      /\ builds' = [builds EXCEPT ![b] = [Ended EXCEPT !.live = TRUE]]
      /\ calls' = (calls \ {c}) \cup {d}
      /\ races' = races \cup (IF token # NoBuild THEN {"twice"} ELSE {})
                        \cup (IF ClosePast(c.s) THEN {"late"} ELSE {})
                        \cup (IF c.model # model THEN {"model"} ELSE {})
      /\ UNCHANGED <<life, mapped, count, meta, connections, sessions, saving, asked, model, events, stray>>
  BY DEF InsertToken, Becomes, frontend
<1>2. b \in BuildIds /\ ~builds[b].on /\ token # b /\ \A e \in calls : e.b # b
  <2>1. FreeBuilds \subseteq Nat
    BY DEF FreeBuilds, BuildIds
  <2>2. b \in FreeBuilds
    BY <1>1, <2>1, MinOf
  <2>. HIDE DEF b
  <2>. QED BY <2>2 DEF FreeBuilds
<1>. HIDE DEF b
<1>3. TypesInv /\ c.kind \in Asking /\ c.kind # "close" /\ c.s \in Sessions /\ Typed(c)
  BY <1>1, CallFacts DEF IndexIInv, Asking
<1>4. Typed(d) /\ d.kind = c.kind /\ d.s = c.s /\ d.step = "pool" /\ d.b = b /\ d.model = c.model
  <2>1. "pool" \in StepsOf(c.kind)
    BY <1>3, StepsAre
  <2>2. c = [kind |-> c.kind, s |-> c.s, step |-> c.step, model |-> c.model, b |-> c.b, n |-> c.n]
    BY <1>3 DEF Typed
  <2>3. ASSUME NEW e, e = d
        PROVE  e = [kind |-> c.kind, s |-> c.s, step |-> "pool", model |-> c.model, b |-> b, n |-> c.n]
    BY <2>2, <2>3
  <2>. HIDE DEF d
  <2>. QED BY <1>2, <1>3, <2>1, <2>3 DEF Typed
<1>. HIDE DEF d
<1>5. /\ SameCloses /\ \A s : OwnCall(s) => OwnCall(s)'
      /\ \A e \in calls : e.step = "stop" => e \in calls'
      /\ \A e \in calls' : e = d \/ (e \in calls /\ e # c)
  BY <1>1, <1>3, <1>4, RunCalls
<1>6. MoreRaces /\ ToSet(sessions) \subseteq Sessions
  BY <1>1, <1>3 DEF MoreRaces, TypesInv, Races, ToSet
<1>7. /\ builds \in [BuildIds -> BuildType] /\ token \in BuildIds \cup {NoBuild}
      /\ \A x \in BuildIds : builds[x].on => builds[x].step # "none"
  BY <1>3 DEF TypesInv
<1>8. /\ builds' \in [BuildIds -> BuildType]
      /\ \A x \in BuildIds : x # b => builds'[x] = builds[x]
      /\ ~builds'[b].on /\ ~builds'[b].partial /\ builds'[b].step = "none"
  BY <1>1, <1>2, <1>7 DEF Ended, BuildType
<1>9. TypesInv'
  <2>1. CallsTyped'
    BY <1>1, <1>3, <1>4, CallBecomes DEF TypesInv
  <2>2. \A x \in BuildIds : builds'[x].on => builds'[x].step # "none"
    BY <1>7, <1>8
  <2>. QED BY <1>1, <1>2, <1>3, <1>6, <1>8, <2>1, <2>2 DEF TypesInv, MoreRaces
<1>10. MappedInv' /\ RegisterInv' /\ Pending' = Pending
  BY <1>1, <1>3, <1>4, <1>6, RunMapped
<1>11. CountIsExact' /\ CloseInv'
  BY <1>1, <1>5, <1>6, <1>10, CountFrame, CloseFrame DEF IndexIInv
<1>12. TokenInv'
  <2>1. TokenInv
    BY DEF IndexIInv
  <2>2. "partial" \notin races' => \A x \in BuildIds : ~builds'[x].partial
    BY <1>6, <1>8, <2>1 DEF TokenInv, MoreRaces
  <2>3. races' \cap {"lost", "twice"} = {} =>
          \A x \in BuildIds : builds'[x].live /\ ~builds'[x].partial => token' = x
    <3>1. races' \cap {"lost", "twice"} = {} => races \cap {"lost", "twice"} = {} /\ token = NoBuild
      BY <1>1
    <3>. QED BY <1>1, <1>8, <2>1, <3>1, Bounds DEF TokenInv
  <2>4. races' \cap {"double", "late", "reset"} = {} => SessionStays'
    <3>1. SUFFICES ASSUME "late" \notin races, ~ClosePast(c.s) PROVE SessionStays'
      BY <1>1
    <3>2. c.s \in mapped
      BY <1>1, <3>1 DEF IndexIInv, MappedInv
    <3>3. \A e \in Pending : e.step # "count" => e.kind = "close"
      BY <1>3, CallFacts DEF Pending
    <3>4. \A e \in Pending : e.step # "count" => e.s # c.s
      BY <3>1, <3>3 DEF Pending, ClosePast
    <3>. QED BY <1>1, <1>10, <3>2, <3>4 DEF SessionStays
  <2>5. d \in calls' /\ d.step = "pool" /\ d.b = token'
    BY <1>1, <1>4
  <2>. QED BY <2>2, <2>3, <2>4, <2>5 DEF TokenInv
<1>13. SpawnInv'
  <2>1. SpawnInv
    BY DEF IndexIInv
  <2>2. \A e \in calls' : e.step = "pool" =>
           e.b \in BuildIds /\ ~builds'[e.b].on /\ ~builds'[e.b].partial
    BY <1>2, <1>4, <1>5, <1>8, <2>1 DEF SpawnInv
  <2>3. \A e, g \in calls' : e.step = "pool" /\ g.step = "pool" /\ e.b = g.b => e = g
    BY <1>2, <1>4, <1>5, <2>1 DEF SpawnInv
  <2>. QED BY <2>2, <2>3 DEF SpawnInv
<1>14. ModelInv'
  <2>1. ModelInv
    BY DEF IndexIInv
  <2>2. "model" \notin races' => "model" \notin races /\ c.model = model
    BY <1>1
  <2>3. "model" \notin races' => \A e \in calls' : e.step \in {"insert", "pool"} => e.model = model /\ model # NoModel
    BY <1>1, <1>4, <1>5, <2>1, <2>2 DEF ModelInv
  <2>4. "model" \notin races' => \A x \in BuildIds : builds'[x].on =>
            builds'[x].model = model /\ model # NoModel
            /\ (builds'[x].step \in {"work", "ready"} => meta.status # "none" /\ meta.model = model)
    BY <1>8, <2>1, <2>2 DEF ModelInv
  <2>. QED BY <1>1, <2>1, <2>2, <2>3, <2>4 DEF ModelInv
<1>15. \A x \in BuildIds : /\ builds'[x].on <=> builds[x].on
                           /\ builds[x].on => builds'[x] = builds[x]
  BY <1>2, <1>8
<1>16. EventsInv'
  <2>1. EventsInv
    BY DEF IndexIInv
  <2>2. Working' <=> Working
    BY <1>15 DEF Working
  <2>3. RightAtRest(events[Len(events)])' <=> RightAtRest(events[Len(events)])
    BY <1>1 DEF RightAtRest, Rest
  <2>. QED BY <1>1, <1>6, <1>15, <2>1, <2>2, <2>3 DEF EventsInv, MoreRaces
<1>17. EndComing' <=> EndComing
  BY <1>1, <1>15 DEF EndComing
<1>18. ShownInv'
  BY <1>1, <1>5, <1>6, <1>17, ShownFrame DEF IndexIInv
<1>. QED BY <1>9, <1>10, <1>11, <1>12, <1>13, <1>14, <1>16, <1>18 DEF IndexIInv

(* The task is there, or the session's pool is not.                        *)
LEMMA SpawnIs ==
  ASSUME IndexIInv, NEW c \in calls, SpawnBuild(c)
  PROVE  \E d : /\ calls' = (calls \ {c}) \cup {d} /\ Typed(d) /\ d.kind = c.kind /\ d.s = c.s
                /\ d.step \in {"done", "failed"}
<1>. DEFINE x == IF life[c.s] = "open" THEN "done" ELSE "failed"
            d == [c EXCEPT !.step = x, !.b = NoBuild, !.model = NoModel]
<1>1. c.kind \in Asking /\ calls' = (calls \ {c}) \cup {d}
  BY DEF SpawnBuild, Becomes
<1>2. Typed(c) /\ x \in StepsOf(c.kind)
  BY <1>1, CallFacts, StepsAre DEF IndexIInv
<1>3. x \in {"done", "failed"}
  OBVIOUS
<1>. HIDE DEF x
<1>4. c = [kind |-> c.kind, s |-> c.s, step |-> c.step, model |-> c.model, b |-> c.b, n |-> c.n]
  BY <1>2 DEF Typed
<1>5. ASSUME NEW e, e = d
      PROVE  e = [kind |-> c.kind, s |-> c.s, step |-> x, model |-> NoModel, b |-> NoBuild, n |-> c.n]
  BY <1>4, <1>5
<1>. HIDE DEF d
<1>6. d.kind = c.kind /\ d.s = c.s /\ d.step = x /\ Typed(d)
  BY <1>2, <1>5 DEF Typed
<1>. QED BY <1>1, <1>3, <1>6

LEMMA SpawnBuildPreserves ==
  ASSUME IndexIInv, NEW c \in calls, SpawnBuild(c)
  PROVE  IndexIInv'
<1>1. /\ c.step = "pool" /\ c.kind \in Asking
      /\ IF life[c.s] = "open"
         THEN /\ builds' = [builds EXCEPT ![c.b] = [@ EXCEPT !.on = TRUE, !.model = c.model, !.step = "begin"]]
              /\ races' = races
         ELSE races' = races \cup {"leak"} /\ builds' = builds
      /\ UNCHANGED <<life, mapped, count, token, meta, connections, sessions, saving, asked, model, events, stray>>
  BY DEF SpawnBuild, frontend
<1>2. TypesInv /\ c.kind # "close" /\ c.s \in Sessions /\ Typed(c)
  BY <1>1, CallFacts DEF IndexIInv, Asking
<1>3. PICK d : /\ calls' = (calls \ {c}) \cup {d} /\ Typed(d) /\ d.kind = c.kind /\ d.s = c.s
               /\ d.step \in {"done", "failed"}
  BY SpawnIs
<1>4. /\ SameCloses /\ \A s : OwnCall(s) => OwnCall(s)'
      /\ \A e \in calls : e.step = "stop" => e \in calls'
      /\ \A e \in calls' : e = d \/ (e \in calls /\ e # c)
  BY <1>1, <1>2, <1>3, RunCalls
<1>5. MoreRaces /\ ToSet(sessions) \subseteq Sessions
  BY <1>1, <1>2 DEF MoreRaces, TypesInv, Races, ToSet
<1>6. MappedInv' /\ RegisterInv' /\ Pending' = Pending
  BY <1>1, <1>2, <1>3, <1>5, RunMapped
<1>7. /\ CountIsExact' /\ CloseInv'
      /\ SessionStays => SessionStays'
  BY <1>1, <1>4, <1>5, <1>6, CountFrame, CloseFrame, StaysFrame DEF IndexIInv
<1>8. CallsTyped'
  BY <1>1, <1>2, <1>3, CallBecomes DEF TypesInv
<1>9. \A e \in calls' : e.step \in {"insert", "pool"} => e \in calls /\ e # c
  BY <1>3, <1>4
<1>10. CASE life[c.s] # "open"
  <2>1. builds' = builds /\ SameBuilds /\ races' = races \cup {"leak"}
    BY <1>1, <1>10 DEF SameBuilds
  <2>2. TypesInv'
    BY <1>1, <1>2, <1>5, <1>8, <2>1 DEF TypesInv, MoreRaces
  <2>3. TokenInv'
    <3>1. TokenInv
      BY DEF IndexIInv
    <3>. QED BY <1>1, <1>7, <2>1, <3>1 DEF TokenInv
  <2>4. SpawnInv' /\ ModelInv' /\ EventsInv' /\ (EndComing' <=> EndComing)
    BY <1>1, <1>5, <1>9, <2>1, BuildsStay
  <2>5. ShownInv'
    BY <1>1, <1>4, <1>5, <2>4, ShownFrame DEF IndexIInv
  <2>. QED BY <1>6, <1>7, <2>2, <2>3, <2>4, <2>5 DEF IndexIInv
<1>11. CASE life[c.s] = "open"
  <2>1. /\ builds' = [builds EXCEPT ![c.b] = [@ EXCEPT !.on = TRUE, !.model = c.model, !.step = "begin"]]
        /\ races' = races
    BY <1>1, <1>11
  <2>2. c.b \in BuildIds /\ ~builds[c.b].on /\ ~builds[c.b].partial
    BY <1>1 DEF IndexIInv, SpawnInv
  <2>3. /\ builds \in [BuildIds -> BuildType] /\ c.model \in Models \cup {NoModel}
        /\ \A b \in BuildIds : builds[b].on => builds[b].step # "none"
    BY <1>2 DEF TypesInv, Typed
  <2>4. /\ builds' \in [BuildIds -> BuildType]
        /\ \A b \in BuildIds : b # c.b => builds'[b] = builds[b]
        /\ builds'[c.b].on /\ builds'[c.b].model = c.model /\ builds'[c.b].step = "begin"
        /\ builds'[c.b].live = builds[c.b].live /\ ~builds'[c.b].partial
    BY <2>1, <2>2, <2>3 DEF BuildType
  <2>5. TypesInv'
    <3>1. \A b \in BuildIds : builds'[b].on => builds'[b].step # "none"
      BY <2>3, <2>4
    <3>. QED BY <1>1, <1>2, <1>5, <1>8, <2>4, <3>1 DEF TypesInv, MoreRaces
  <2>6. TokenInv'
    <3>1. TokenInv
      BY DEF IndexIInv
    <3>2. \A b \in BuildIds : /\ builds'[b].live = builds[b].live /\ builds'[b].partial = builds[b].partial
                              /\ builds[b].on => builds'[b].on
      BY <2>2, <2>4, <2>3 DEF BuildType
    <3>3. ASSUME races' \cap {"leak", "partial"} = {}, token' # NoBuild
          PROVE  builds'[token'].on \/ \E e \in calls' : e.step = "pool" /\ e.b = token'
      <4>1. builds[token].on \/ \E e \in calls : e.step = "pool" /\ e.b = token
        BY <1>1, <2>1, <3>1, <3>3 DEF TokenInv
      <4>2. token \in BuildIds
        BY <1>1, <1>2, <3>3 DEF TypesInv
      <4>. QED BY <1>1, <1>3, <2>4, <3>2, <4>1, <4>2
    <3>4. races' \cap {"double", "late", "reset"} = {} /\ token' # NoBuild => SessionStays'
      BY <1>1, <1>7, <2>1, <3>1 DEF TokenInv
    <3>. QED BY <1>1, <2>1, <3>1, <3>2, <3>3, <3>4 DEF TokenInv
  <2>7. SpawnInv'
    <3>1. SpawnInv
      BY DEF IndexIInv
    <3>2. \A e \in calls' : e.step = "pool" => e.b # c.b
      BY <1>1, <1>9, <3>1 DEF SpawnInv
    <3>. QED BY <1>9, <2>4, <3>1, <3>2 DEF SpawnInv
  <2>8. ModelInv'
    <3>1. ModelInv
      BY DEF IndexIInv
    <3>. QED BY <1>1, <1>9, <2>1, <2>4, <3>1 DEF ModelInv
  <2>9. EventsInv'
    <3>1. Working'
      BY <2>2, <2>4 DEF Working
    <3>2. EventsInv
      BY DEF IndexIInv
    <3>. QED BY <1>1, <2>1, <2>2, <2>4, <3>1, <3>2 DEF EventsInv
  <2>10. ShownInv'
    <3>1. EndComing'
      BY <2>2, <2>4 DEF EndComing
    <3>. QED BY <3>1 DEF ShownInv
  <2>. QED BY <1>6, <1>7, <2>5, <2>6, <2>7, <2>8, <2>9, <2>10 DEF IndexIInv
<1>. QED BY <1>10, <1>11

(* Single tables are built anew, with a token that nothing else holds.     *)
LEMMA SpawnPartialPreserves ==
  ASSUME IndexIInv, NEW c \in calls, SpawnPartial(c)
  PROVE  IndexIInv'
<1>. DEFINE d == [c EXCEPT !.step = "done"]
            x == Min(FreeBuilds)
<1>1. /\ c.step = "start" /\ c.kind = "invalidate" /\ calls' = (calls \ {c}) \cup {d}
      /\ \/ UNCHANGED <<builds, races>>
         \/ /\ FreeBuilds # {} /\ model # NoModel /\ races' = races \cup {"partial"}
            /\ builds' = [builds EXCEPT ![x] =
                  [on |-> TRUE, live |-> TRUE, model |-> model, step |-> "begin", partial |-> TRUE]]
      /\ UNCHANGED <<life, mapped, count, token, meta, connections, sessions, saving, asked, model, events, stray>>
  BY DEF SpawnPartial, Goto, Becomes, frontend
<1>2. TypesInv /\ c.kind # "close" /\ c.s \in Sessions /\ Typed(c)
  BY <1>1, CallFacts DEF IndexIInv
<1>3. Typed(d) /\ d.kind = c.kind /\ d.s = c.s /\ d.step = "done"
  <2>1. "done" \in StepsOf(c.kind)
    BY <1>1, StepsAre
  <2>2. \A e : e = [c EXCEPT !.step = "done"] =>
           e.kind = c.kind /\ e.s = c.s /\ e.step = "done" /\ Typed(e)
    BY <1>2, <2>1, Goes
  <2>. QED BY <2>2
<1>. HIDE DEF d
<1>4. /\ SameCloses
      /\ \A s : ClosePast(s)' <=> ClosePast(s)
      /\ \A s : OwnCall(s) => OwnCall(s)'
      /\ \A e \in calls : e.step = "stop" => e \in calls'
      /\ \A e \in calls' : e = d \/ (e \in calls /\ e # c)
      /\ Unmaps' = Unmaps /\ Pending' = Pending
  BY <1>1, <1>2, <1>3, RunCalls
<1>5. MoreRaces /\ ToSet(sessions) \subseteq Sessions
  <2>1. races' = races \/ races' = races \cup {"partial"}
    BY <1>1
  <2>2. races \subseteq Races /\ ToSet(sessions) \subseteq Sessions
    BY <1>2 DEF TypesInv, ToSet
  <2>3. "partial" \in Races
    BY DEF Races
  <2>. QED BY <2>1, <2>2, <2>3 DEF MoreRaces
<1>6. /\ CountIsExact' /\ CloseInv'
      /\ SessionStays => SessionStays'
  BY <1>1, <1>4, <1>5, CountFrame, CloseFrame, StaysFrame DEF IndexIInv
<1>7. MappedInv' /\ RegisterInv'
  <2>1. \A e \in calls' : e.step \in RunSteps => e \in calls
    BY <1>3, <1>4
  <2>. QED BY <1>1, <1>4, <1>5, <2>1, MappedFrame DEF IndexIInv
<1>8. CallsTyped'
  BY <1>1, <1>2, <1>3, CallBecomes DEF TypesInv
<1>9. /\ \A e \in calls' : e.step \in {"insert", "pool"} => e \in calls
      /\ \A e \in calls : e.step \in {"stop", "pool"} => e \in calls'
  BY <1>1, <1>3, <1>4
<1>10. CASE UNCHANGED <<builds, races>>
  <2>1. SameBuilds
    BY <1>10 DEF SameBuilds
  <2>2. TypesInv'
    BY <1>1, <1>2, <1>8, <1>10 DEF TypesInv
  <2>3. TokenInv'
    BY <1>1, <1>4, <1>5, <1>9, <1>10, TokenFrame DEF IndexIInv
  <2>4. SpawnInv' /\ ModelInv' /\ EventsInv' /\ (EndComing' <=> EndComing)
    BY <1>1, <1>5, <1>9, <2>1, BuildsStay
  <2>5. ShownInv'
    BY <1>1, <1>4, <1>5, <2>4, ShownFrame DEF IndexIInv
  <2>. QED BY <1>6, <1>7, <2>2, <2>3, <2>4, <2>5 DEF IndexIInv
<1>11. CASE ~UNCHANGED <<builds, races>>
  <2>1. /\ FreeBuilds # {} /\ model # NoModel /\ races' = races \cup {"partial"}
        /\ builds' = [builds EXCEPT ![x] =
                  [on |-> TRUE, live |-> TRUE, model |-> model, step |-> "begin", partial |-> TRUE]]
    BY <1>1, <1>11
  <2>2. x \in BuildIds /\ ~builds[x].on /\ token # x /\ \A e \in calls : e.b # x
    <3>1. FreeBuilds \subseteq Nat
      BY DEF FreeBuilds, BuildIds
    <3>2. x \in FreeBuilds
      BY <2>1, <3>1, MinOf
    <3>. HIDE DEF x
    <3>. QED BY <3>2 DEF FreeBuilds
  <2>. HIDE DEF x
  <2>3. /\ builds \in [BuildIds -> BuildType] /\ model \in Models \cup {NoModel}
        /\ \A b \in BuildIds : builds[b].on => builds[b].step # "none"
    BY <1>2 DEF TypesInv
  <2>4. /\ builds' \in [BuildIds -> BuildType]
        /\ \A b \in BuildIds : b # x => builds'[b] = builds[b]
        /\ builds'[x].on /\ builds'[x].model = model /\ builds'[x].step = "begin" /\ builds'[x].partial
    BY <2>1, <2>2, <2>3 DEF BuildType
  <2>5. TypesInv'
    <3>1. \A b \in BuildIds : builds'[b].on => builds'[b].step # "none"
      BY <2>3, <2>4
    <3>. QED BY <1>1, <1>2, <1>5, <1>8, <2>4, <3>1 DEF TypesInv, MoreRaces
  <2>6. TokenInv'
    <3>1. TokenInv /\ "partial" \in races'
      BY <2>1 DEF IndexIInv
    <3>2. races' \cap {"lost", "twice"} = {} =>
             \A b \in BuildIds : builds'[b].live /\ ~builds'[b].partial => token' = b
      BY <1>1, <2>1, <2>4, <3>1 DEF TokenInv
    <3>3. races' \cap {"double", "late", "reset"} = {} /\ token' # NoBuild => SessionStays'
      BY <1>1, <1>6, <2>1, <3>1 DEF TokenInv
    <3>. QED BY <3>1, <3>2, <3>3 DEF TokenInv
  <2>7. SpawnInv'
    BY <1>3, <1>4, <2>2, <2>4 DEF IndexIInv, SpawnInv
  <2>8. ModelInv'
    <3>1. ModelInv
      BY DEF IndexIInv
    <3>. QED BY <1>1, <1>9, <2>1, <2>4, <3>1 DEF ModelInv
  <2>9. EventsInv' /\ ShownInv'
    BY <2>1 DEF EventsInv, ShownInv
  <2>. QED BY <1>6, <1>7, <2>5, <2>6, <2>7, <2>8, <2>9 DEF IndexIInv
<1>. QED BY <1>10, <1>11

----------
(* The closing of a session. *)

(* A close that goes to its next step, the session still open.             *)
LEMMA CloseGoes ==
  ASSUME IndexIInv, NEW c \in calls, c.kind = "close", c.step # "done",
         NEW step \in UnmapSteps \cup StopSteps, Goto(c, step),
         UNCHANGED <<life, sessions, connections>>, MoreRaces
  PROVE  /\ CallsTyped' /\ CloseInv'
         /\ \A s : OwnCall(s) => OwnCall(s)'
         /\ \A s : ClosePast(s)' <=> ClosePast(s) \/ s = c.s
         /\ \A e \in calls' : e.step \in RunSteps => e \in calls
         /\ \A e \in calls : e.step = "pool" => e \in calls'
         /\ \E d : /\ calls' = (calls \ {c}) \cup {d} /\ Typed(d)
                   /\ d.kind = "close" /\ d.s = c.s /\ d.step = step
<1>. DEFINE d == [c EXCEPT !.step = step]
<1>1. calls' = (calls \ {c}) \cup {d}
  BY DEF Goto, Becomes
<1>2. TypesInv /\ Typed(c) /\ c.s \in Sessions /\ c.step \in {"start"} \cup UnmapSteps \cup StopSteps
  BY CallFacts DEF IndexIInv
<1>3. Typed(d) /\ d.kind = "close" /\ d.s = c.s /\ d.step = step
  <2>1. step \in StepsOf(c.kind)
    BY StepsAre
  <2>2. \A e : e = [c EXCEPT !.step = step] =>
           e.kind = c.kind /\ e.s = c.s /\ e.step = step /\ Typed(e)
    BY <1>2, <2>1, Goes
  <2>. QED BY <2>2
<1>. HIDE DEF d
<1>4. CallsTyped'
  BY <1>1, <1>2, <1>3, CallBecomes DEF TypesInv
<1>5. CloseInv'
  <2>1. CloseInv
    BY DEF IndexIInv
  <2>2. ToSet(sessions)' = ToSet(sessions)
    BY DEF ToSet
  <2>3. c.s \in ToSet(sessions) /\ life[c.s] = "open"
    BY <1>2, <2>1 DEF CloseInv
  <2>4. \A e \in calls' : e = d \/ (e \in calls /\ e # c)
    BY <1>1
  <2>5. /\ \A s \in Sessions : s \in ToSet(sessions)' => connections'[s] # "absent" /\ life'[s] # "new"
        /\ "revived" \notin races' => \A s \in Sessions : connections'[s] # "absent" => s \in ToSet(sessions)'
    BY <2>1, <2>2 DEF CloseInv, MoreRaces
  <2>6. \A e \in calls' : e.kind = "close" =>
           e.s \in ToSet(sessions)' /\ life'[e.s] = (IF e.step = "done" THEN "closed" ELSE "open")
    BY <1>3, <2>1, <2>2, <2>3, <2>4 DEF CloseInv
  <2>7. \A e, g \in calls' : e.kind = "close" /\ g.kind = "close" /\ e.s = g.s => e = g
    BY <1>3, <2>1, <2>4 DEF CloseInv
  <2>8. \A s \in ToSet(sessions)' : life'[s] = "open" \/ \E e \in calls' : e.kind = "close" /\ e.s = s
    BY <1>1, <1>3, <2>1, <2>2 DEF CloseInv
  <2>. QED BY <2>5, <2>6, <2>7, <2>8 DEF CloseInv
<1>6. \A s : OwnCall(s) => OwnCall(s)'
  BY <1>1 DEF OwnCall
<1>7. \A s : ClosePast(s)' <=> ClosePast(s) \/ s = c.s
  <2>1. step # "start"
    OBVIOUS
  <2>. QED BY <1>1, <1>3, <2>1 DEF ClosePast
<1>8. \A e \in calls' : e.step \in RunSteps => e \in calls
  BY <1>1, <1>3
<1>9. \A e \in calls : e.step = "pool" => e \in calls'
  BY <1>1, <1>2
<1>. QED BY <1>1, <1>3, <1>4, <1>5, <1>6, <1>7, <1>8, <1>9

(* A close that only counts and unmaps.                                    *)
LEMMA CloseRest ==
  ASSUME IndexIInv, NEW c \in calls, c.kind = "close", c.step # "done",
         NEW step \in UnmapSteps \cup StopSteps, Goto(c, step),
         UNCHANGED <<life, token, meta, builds, connections, sessions, saving, asked, model, events, stray>>,
         MoreRaces, mapped' \subseteq Sessions, count' \in Nat \cup {NoCount}
  PROVE  /\ TypesInv' /\ CloseInv' /\ SpawnInv' /\ ModelInv' /\ EventsInv' /\ ShownInv'
         /\ \A s : ClosePast(s)' <=> ClosePast(s) \/ s = c.s
         /\ \A e \in calls' : e.step \in RunSteps => e \in calls
         /\ \A e \in calls : e.step = "pool" => e \in calls'
         /\ \E d : /\ calls' = (calls \ {c}) \cup {d} /\ Typed(d)
                   /\ d.kind = "close" /\ d.s = c.s /\ d.step = step
<1>1. /\ CallsTyped' /\ CloseInv'
      /\ \A s : OwnCall(s) => OwnCall(s)'
      /\ \A s : ClosePast(s)' <=> ClosePast(s) \/ s = c.s
      /\ \A e \in calls' : e.step \in RunSteps => e \in calls
      /\ \A e \in calls : e.step = "pool" => e \in calls'
      /\ \E d : /\ calls' = (calls \ {c}) \cup {d} /\ Typed(d)
                /\ d.kind = "close" /\ d.s = c.s /\ d.step = step
  BY CloseGoes
<1>2. ToSet(sessions) \subseteq Sessions /\ SameBuilds
  BY DEF IndexIInv, TypesInv, ToSet, SameBuilds
<1>3. TypesInv'
  BY <1>1 DEF IndexIInv, TypesInv, MoreRaces
<1>4. SpawnInv' /\ ModelInv' /\ EventsInv' /\ (EndComing' <=> EndComing)
  <2>1. \A e \in calls' : e.step \in {"insert", "pool"} => e \in calls
    BY <1>1
  <2>. QED BY <1>2, <2>1, BuildsStay
<1>5. ShownInv'
  BY <1>1, <1>2, <1>4, ShownFrame DEF IndexIInv
<1>. QED BY <1>1, <1>3, <1>4, <1>5

(* A close on its way, with its session unmapped.                          *)
LEMMA CloseMapped ==
  ASSUME IndexIInv, NEW c \in calls, c.kind = "close", c.step \in StopSteps,
         NEW d, d.kind = "close", d.s = c.s, d.step \in StopSteps, calls' = (calls \ {c}) \cup {d},
         \A s : ClosePast(s)' <=> ClosePast(s) \/ s = c.s, UNCHANGED <<life, mapped>>, MoreRaces
  PROVE  MappedInv' /\ RegisterInv' /\ Pending' = Pending
<1>1. /\ \A s : ClosePast(s)' <=> ClosePast(s)
      /\ Unmaps' = Unmaps /\ Pending' = Pending
  BY DEF ClosePast, Unmaps, Pending
<1>2. MappedInv'
  <2>1. MappedInv
    BY DEF IndexIInv
  <2>. QED BY <1>1, <2>1 DEF MappedInv, MoreRaces
<1>3. RegisterInv'
  <2>1. RegisterInv
    BY DEF IndexIInv
  <2>. QED BY <1>1, <2>1 DEF RegisterInv, MoreRaces
<1>. QED BY <1>1, <1>2, <1>3

LEMMA LookUpClosingPreserves ==
  ASSUME IndexIInv, NEW c \in calls, LookUpClosing(c)
  PROVE  IndexIInv'
<1>. DEFINE step == IF c.s \in mapped THEN "uncount" ELSE "remove"
<1>1. /\ c.step = "start" /\ c.kind = "close" /\ Goto(c, step)
      /\ races' = IF \E d \in calls : d.s = c.s /\ d.step = "count" THEN races \cup {"late"} ELSE races
      /\ UNCHANGED <<life, mapped, count, token, meta, builds, connections, sessions, saving, asked, model,
                     events, stray>>
  BY DEF LookUpClosing, backend, frontend
<1>. HIDE DEF step
<1>2. step \in {"uncount", "remove"} /\ (step = "uncount" <=> c.s \in mapped)
  BY DEF step
<1>3. MoreRaces /\ mapped \subseteq Sessions /\ count \in Nat \cup {NoCount}
  BY <1>1 DEF IndexIInv, TypesInv, MoreRaces, Races
<1>4. /\ TypesInv' /\ CloseInv' /\ SpawnInv' /\ ModelInv' /\ EventsInv' /\ ShownInv'
      /\ \A s : ClosePast(s)' <=> ClosePast(s) \/ s = c.s
      /\ \A e \in calls' : e.step \in RunSteps => e \in calls
      /\ \A e \in calls : e.step = "pool" => e \in calls'
      /\ \E d : /\ calls' = (calls \ {c}) \cup {d} /\ Typed(d)
                /\ d.kind = "close" /\ d.s = c.s /\ d.step = step
  BY <1>1, <1>2, <1>3, CloseRest
<1>. PICK d : /\ calls' = (calls \ {c}) \cup {d} /\ Typed(d)
              /\ d.kind = "close" /\ d.s = c.s /\ d.step = step
  BY <1>4
<1>5. MappedInv'
  <2>1. MappedInv
    BY DEF IndexIInv
  <2>. SUFFICES ASSUME "late" \notin races', "late" \notin races
                PROVE  MappedInv'
    BY <1>3 DEF MappedInv, MoreRaces
  <2>2. Unmaps \subseteq Unmaps' /\ \A e \in Unmaps' : e \in Unmaps \/ (e.s = c.s /\ c.s \in mapped)
    BY <1>1, <1>2 DEF Unmaps
  <2>3. c.s \in mapped => d \in Unmaps'
    BY <1>2 DEF Unmaps
  <2>4. \A s \in mapped' : life'[s] # "new" /\ (ClosePast(s)' => \E e \in Unmaps' : e.s = s)
    BY <1>1, <1>4, <2>1, <2>2, <2>3 DEF MappedInv
  <2>. QED BY <1>1, <1>4, <2>1, <2>2, <2>4 DEF MappedInv
<1>6. RegisterInv'
  <2>1. RegisterInv
    BY DEF IndexIInv
  <2>2. "late" \notin races' => \A e \in calls : e.step = "count" => e.s # c.s
    BY <1>1
  <2>. QED BY <1>1, <1>3, <1>4, <2>1, <2>2 DEF RegisterInv, MoreRaces
<1>7. Pending' = Pending
  BY <1>1, <1>2 DEF Pending
<1>8. CountIsExact'
  BY <1>1, <1>3, <1>7, CountFrame DEF IndexIInv
<1>9. TokenInv'
  <2>1. \A e \in calls : e.step \in {"stop", "pool"} => e \in calls'
    BY <1>1
  <2>. QED BY <1>1, <1>3, <1>7, <2>1, TokenFrame DEF IndexIInv
<1>. QED BY <1>4, <1>5, <1>6, <1>8, <1>9 DEF IndexIInv

LEMMA UncountPreserves ==
  ASSUME IndexIInv, NEW c \in calls, Uncount(c)
  PROVE  IndexIInv'
<1>. DEFINE step == IF IsLast(count') THEN "unmapLast" ELSE "unmap"
<1>1. /\ c.step = "uncount" /\ count' = (IF count > 0 THEN count - 1 ELSE count) /\ Goto(c, step)
      /\ UNCHANGED <<life, mapped, token, meta, builds, connections, sessions, saving, asked, model,
                     events, stray, races>>
  BY DEF Uncount, frontend
<1>. HIDE DEF step
<1>2. step \in {"unmap", "unmapLast"} /\ (count' = 0 => step = "unmapLast")
  BY DEF step, IsLast
<1>3. TypesInv /\ CloseInv /\ c.kind = "close"
  BY <1>1, CallFacts DEF IndexIInv
<1>4. MoreRaces /\ mapped \subseteq Sessions
  BY <1>1, <1>3 DEF TypesInv, MoreRaces
<1>5. count' \in Nat \cup {NoCount}
  BY <1>1, <1>3 DEF TypesInv, NoCount
<1>6. /\ TypesInv' /\ CloseInv' /\ SpawnInv' /\ ModelInv' /\ EventsInv' /\ ShownInv'
      /\ \A s : ClosePast(s)' <=> ClosePast(s) \/ s = c.s
      /\ \A e \in calls' : e.step \in RunSteps => e \in calls
      /\ \A e \in calls : e.step = "pool" => e \in calls'
      /\ \E d : /\ calls' = (calls \ {c}) \cup {d} /\ Typed(d)
                /\ d.kind = "close" /\ d.s = c.s /\ d.step = step
  BY <1>1, <1>2, <1>3, <1>4, <1>5, CloseRest
<1>. PICK d : /\ calls' = (calls \ {c}) \cup {d} /\ Typed(d)
              /\ d.kind = "close" /\ d.s = c.s /\ d.step = step
  BY <1>6
<1>7. ClosePast(c.s) /\ \A s : ClosePast(s)' <=> ClosePast(s)
  <2>1. ClosePast(c.s)
    BY <1>1, <1>3 DEF ClosePast
  <2>. QED BY <1>6, <2>1
<1>8. MappedInv'
  <2>1. MappedInv
    BY DEF IndexIInv
  <2>2. Unmaps' = (Unmaps \ {c}) \cup {d} /\ c \in Unmaps
    BY <1>1, <1>2, <1>3 DEF Unmaps
  <2>. QED BY <1>1, <1>6, <1>7, <2>1, <2>2 DEF MappedInv
<1>9. RegisterInv'
  <2>1. RegisterInv
    BY DEF IndexIInv
  <2>. QED BY <1>1, <1>6, <1>7, <2>1 DEF RegisterInv
<1>10. Pending' = Pending \cup {d}
  BY <1>1, <1>2 DEF Pending
<1>11. ASSUME races \cap {"double", "late", "reset"} = {}
       PROVE  /\ count' \in Nat /\ count' = Cardinality(CountedSessions')
              /\ CountedSessions' = CountedSessions \ {c.s}
              /\ IsFiniteSet(CountedSessions')
  <2>1. c.s \in mapped
    BY <1>1, <1>3, <1>11 DEF IndexIInv, MappedInv, Unmaps
  <2>2. \A e \in Pending : e.s # c.s
    <3>1. ASSUME NEW e \in Pending, e.s = c.s, e.step = "count" PROVE FALSE
      BY <1>7, <1>11, <3>1 DEF Pending, IndexIInv, RegisterInv
    <3>2. ASSUME NEW e \in Pending, e.s = c.s, e.step # "count" PROVE FALSE
      <4>1. e.kind = "close" /\ e \in calls /\ e.step # "uncount"
        BY <1>3, <3>2, CallFacts DEF Pending
      <4>. QED BY <1>1, <1>3, <3>2, <4>1 DEF CloseInv
    <3>. QED BY <3>1, <3>2
  <2>3. c.s \in CountedSessions
    BY <2>1, <2>2, CountsAre
  <2>4. CountedSessions' = CountedSessions \ {c.s}
    BY <1>1, <1>10, CountsAre, CountedNext
  <2>5. Cardinality(CountedSessions') = Cardinality(CountedSessions) - 1 /\ IsFiniteSet(CountedSessions')
    BY <2>3, <2>4, CountsAre, FS_RemoveElement
  <2>6. Cardinality(CountedSessions') \in Nat
    BY <2>5, FS_CardinalityType
  <2>7. (IF count = NoCount THEN 0 ELSE count) = Cardinality(CountedSessions)
    BY <1>11, CountsAre DEF CountIsExact
  <2>8. count \in Nat /\ count = Cardinality(CountedSessions) /\ count > 0
    BY <2>5, <2>6, <2>7, CountsAre
  <2>. QED BY <1>1, <2>4, <2>5, <2>6, <2>8
<1>12. CountIsExact'
  BY <1>1, <1>11, CountsAre DEF CountIsExact
<1>13. TokenInv'
  <2>1. TokenInv
    BY DEF IndexIInv
  <2>2. ASSUME races \cap {"double", "late", "reset"} = {}, SessionStays PROVE SessionStays'
    <3>1. CASE step = "unmapLast"
      BY <3>1 DEF SessionStays
    <3>2. CASE \E e \in calls : e.step \in {"unmapLast", "stop"}
      <4>1. PICK e \in calls : e.step \in {"unmapLast", "stop"}
        BY <3>2
      <4>2. e \in calls'
        BY <1>1, <4>1
      <4>. QED BY <4>1, <4>2 DEF SessionStays
    <3>3. CASE step # "unmapLast" /\ ~\E e \in calls : e.step \in {"unmapLast", "stop"}
      <4>1. CountedSessions' # {}
        BY <1>2, <1>11, <2>2, <3>3, FS_EmptySet
      <4>2. PICK s \in mapped : ~\E e \in Pending' : e.s = s
        BY <1>1, <4>1, CountedNext
      <4>. QED BY <1>1, <4>2 DEF SessionStays
    <3>. QED BY <3>1, <3>2, <3>3
  <2>. QED BY <1>1, <1>6, <2>1, <2>2 DEF TokenInv
<1>. QED BY <1>6, <1>8, <1>9, <1>12, <1>13 DEF IndexIInv

LEMMA UnmapPreserves ==
  ASSUME IndexIInv, NEW c \in calls, Unmap(c)
  PROVE  IndexIInv'
<1>. DEFINE step == IF c.step = "unmapLast" THEN "stop" ELSE "remove"
<1>1. /\ c.step \in {"unmap", "unmapLast"} /\ mapped' = mapped \ {c.s} /\ Goto(c, step)
      /\ UNCHANGED <<life, count, token, meta, builds, connections, sessions, saving, asked, model,
                     events, stray, races>>
  BY DEF Unmap, frontend
<1>. HIDE DEF step
<1>2. step \in {"stop", "remove"} /\ (c.step = "unmapLast" => step = "stop")
  BY DEF step
<1>3. TypesInv /\ CloseInv /\ c.kind = "close"
  BY <1>1, CallFacts DEF IndexIInv
<1>4. MoreRaces /\ mapped' \subseteq Sessions /\ count' \in Nat \cup {NoCount}
  BY <1>1, <1>3 DEF TypesInv, MoreRaces
<1>5. /\ TypesInv' /\ CloseInv' /\ SpawnInv' /\ ModelInv' /\ EventsInv' /\ ShownInv'
      /\ \A s : ClosePast(s)' <=> ClosePast(s) \/ s = c.s
      /\ \A e \in calls' : e.step \in RunSteps => e \in calls
      /\ \A e \in calls : e.step = "pool" => e \in calls'
      /\ \E d : /\ calls' = (calls \ {c}) \cup {d} /\ Typed(d)
                /\ d.kind = "close" /\ d.s = c.s /\ d.step = step
  BY <1>1, <1>2, <1>3, <1>4, CloseRest
<1>. PICK d : /\ calls' = (calls \ {c}) \cup {d} /\ Typed(d)
              /\ d.kind = "close" /\ d.s = c.s /\ d.step = step
  BY <1>5
<1>6. ClosePast(c.s) /\ \A s : ClosePast(s)' <=> ClosePast(s)
  <2>1. ClosePast(c.s)
    BY <1>1, <1>3 DEF ClosePast
  <2>. QED BY <1>5, <2>1
<1>7. MappedInv'
  <2>1. MappedInv
    BY DEF IndexIInv
  <2>2. Unmaps' = Unmaps \ {c} /\ \A e \in Unmaps' : e.s # c.s
    BY <1>1, <1>2, <1>3 DEF Unmaps, CloseInv
  <2>. QED BY <1>1, <1>5, <1>6, <2>1, <2>2 DEF MappedInv
<1>8. RegisterInv'
  <2>1. RegisterInv
    BY DEF IndexIInv
  <2>. QED BY <1>1, <1>5, <1>6, <2>1 DEF RegisterInv
<1>9. Pending' = Pending \ {c} /\ c \in Pending
  BY <1>1, <1>2 DEF Pending
<1>10. CountIsExact'
  <2>1. CountedSessions' = CountedSessions
    BY <1>1, <1>9, CountsAre, CountedNext
  <2>. QED BY <1>1, <2>1, CountsAre DEF CountIsExact
<1>11. TokenInv'
  <2>1. TokenInv
    BY DEF IndexIInv
  <2>2. ASSUME SessionStays PROVE SessionStays'
    <3>1. CASE \E e \in calls : e.step \in {"unmapLast", "stop"}
      <4>1. PICK e \in calls : e.step \in {"unmapLast", "stop"}
        BY <3>1
      <4>2. e \in calls' \/ d.step = "stop"
        <5>1. CASE e = c
          BY <1>1, <1>2, <4>1, <5>1
        <5>2. CASE e # c
          BY <5>2
        <5>. QED BY <5>1, <5>2
      <4>. QED BY <4>1, <4>2 DEF SessionStays
    <3>2. CASE \E s \in mapped : \A e \in Pending : e.step # "count" => e.s # s
      BY <1>1, <1>9, <3>2 DEF SessionStays
    <3>. QED BY <2>2, <3>1, <3>2 DEF SessionStays
  <2>. QED BY <1>1, <1>5, <2>1, <2>2 DEF TokenInv
<1>. QED BY <1>5, <1>7, <1>8, <1>10, <1>11 DEF IndexIInv

LEMMA StopBuildPreserves ==
  ASSUME IndexIInv, NEW c \in calls, StopBuild(c)
  PROVE  IndexIInv'
<1>1. /\ c.step = "stop" /\ builds' = Cancelled(token) /\ token' = NoBuild /\ Goto(c, "forget")
      /\ UNCHANGED <<life, mapped, count, meta, connections, sessions, saving, asked, model, events, stray,
                     races>>
  BY DEF StopBuild, frontend
<1>2. TypesInv /\ c.kind = "close"
  BY <1>1, CallFacts DEF IndexIInv
<1>3. MoreRaces /\ ToSet(sessions) \subseteq Sessions
  BY <1>1, <1>2 DEF MoreRaces, TypesInv, ToSet
<1>4. builds' \in [BuildIds -> BuildType] /\ SameBuilds
  BY <1>1, <1>2, CancelIs
<1>5. /\ CallsTyped' /\ CloseInv'
      /\ \A s : OwnCall(s) => OwnCall(s)'
      /\ \A s : ClosePast(s)' <=> ClosePast(s) \/ s = c.s
      /\ \A e \in calls' : e.step \in RunSteps => e \in calls
      /\ \E d : /\ calls' = (calls \ {c}) \cup {d} /\ Typed(d)
                /\ d.kind = "close" /\ d.s = c.s /\ d.step = "forget"
  BY <1>1, <1>2, <1>3, CloseGoes
<1>6. MappedInv' /\ RegisterInv' /\ Pending' = Pending
  BY <1>1, <1>2, <1>3, <1>5, CloseMapped
<1>7. CountIsExact'
  BY <1>1, <1>3, <1>6, CountFrame DEF IndexIInv
<1>8. TypesInv'
  <2>1. \A b \in BuildIds : builds'[b].on => builds'[b].step # "none"
    BY <1>2, <1>4 DEF SameBuilds, TypesInv
  <2>. QED BY <1>1, <1>2, <1>4, <1>5, <2>1 DEF TypesInv
<1>9. TokenInv'
  BY <1>1, <1>3, CancelledToken
<1>10. SpawnInv' /\ ModelInv' /\ EventsInv' /\ (EndComing' <=> EndComing)
  <2>1. \A e \in calls' : e.step \in {"insert", "pool"} => e \in calls
    BY <1>5
  <2>. QED BY <1>1, <1>3, <1>4, <2>1, BuildsStay
<1>11. ShownInv'
  BY <1>1, <1>3, <1>5, <1>10, ShownFrame DEF IndexIInv
<1>. QED BY <1>5, <1>6, <1>7, <1>8, <1>9, <1>10, <1>11 DEF IndexIInv

LEMMA ForgetCountPreserves ==
  ASSUME IndexIInv, NEW c \in calls, ForgetCount(c)
  PROVE  IndexIInv'
<1>1. /\ c.step = "forget" /\ count' = NoCount /\ Goto(c, "remove")
      /\ races' = IF count > 0 THEN races \cup {"reset"} ELSE races
      /\ UNCHANGED <<life, mapped, token, meta, builds, connections, sessions, saving, asked, model,
                     events, stray>>
  BY DEF ForgetCount, frontend
<1>2. TypesInv /\ c.kind = "close"
  BY <1>1, CallFacts DEF IndexIInv
<1>3. MoreRaces /\ mapped' \subseteq Sessions /\ count' \in Nat \cup {NoCount}
  BY <1>1, <1>2 DEF MoreRaces, TypesInv, Races
<1>4. /\ TypesInv' /\ CloseInv' /\ SpawnInv' /\ ModelInv' /\ EventsInv' /\ ShownInv'
      /\ \A s : ClosePast(s)' <=> ClosePast(s) \/ s = c.s
      /\ \E d : /\ calls' = (calls \ {c}) \cup {d} /\ Typed(d)
                /\ d.kind = "close" /\ d.s = c.s /\ d.step = "remove"
  BY <1>1, <1>2, <1>3, CloseRest
<1>5. MappedInv' /\ RegisterInv' /\ Pending' = Pending
  BY <1>1, <1>2, <1>3, <1>4, CloseMapped
<1>6. CountIsExact'
  <2>. SUFFICES ASSUME races' \cap {"double", "late", "reset"} = {},
                       races \cap {"double", "late", "reset"} = {}
                PROVE  Cardinality(CountedSessions') = 0
    BY <1>1, <1>3 DEF CountIsExact, MoreRaces
  <2>1. ~(count > 0)
    BY <1>1
  <2>2. (IF count = NoCount THEN 0 ELSE count) = 0
    BY <2>1, CountsAre
  <2>3. Cardinality(CountedSessions) = 0
    BY <2>2, CountsAre DEF CountIsExact
  <2>4. CountedSessions' = CountedSessions
    BY <1>1, <1>5, CountsAre, CountedNext
  <2>. QED BY <2>3, <2>4
<1>7. TokenInv'
  <2>1. \A e \in calls : e.step \in {"stop", "pool"} => e \in calls'
    BY <1>1, <1>4
  <2>. QED BY <1>1, <1>3, <1>5, <2>1, TokenFrame DEF IndexIInv
<1>. QED BY <1>4, <1>5, <1>6, <1>7 DEF IndexIInv

LEMMA RemoveConnectionPreserves ==
  ASSUME IndexIInv, NEW c \in calls, RemoveConnection(c)
  PROVE  IndexIInv'
<1>. DEFINE d == [c EXCEPT !.step = "done"]
<1>1. /\ c.step = "remove" /\ life' = [life EXCEPT ![c.s] = "closed"]
      /\ Goto(c, IF life[c.s] = "open" THEN "done" ELSE "failed")
      /\ UNCHANGED <<mapped, count, token, meta, builds, connections, sessions, saving, asked, model,
                     events, stray, races>>
  BY DEF RemoveConnection, frontend
<1>2. TypesInv /\ c.s \in Sessions /\ c.kind = "close" /\ Typed(c) /\ CloseInv
  BY <1>1, CallFacts DEF IndexIInv
<1>3. c.s \in ToSet(sessions) /\ life[c.s] = "open"
  BY <1>1, <1>2 DEF CloseInv
<1>4. calls' = (calls \ {c}) \cup {d}
  BY <1>1, <1>3 DEF Goto, Becomes
<1>5. Typed(d) /\ d.kind = "close" /\ d.s = c.s /\ d.step = "done"
  <2>1. "done" \in StepsOf(c.kind)
    BY <1>2, StepsAre
  <2>2. \A e : e = [c EXCEPT !.step = "done"] =>
           e.kind = c.kind /\ e.s = c.s /\ e.step = "done" /\ Typed(e)
    BY <1>2, <2>1, Goes
  <2>. QED BY <1>2, <2>2
<1>. HIDE DEF d
<1>6. life \in [Sessions -> {"new", "open", "closed"}]
  BY <1>2 DEF TypesInv
<1>7. /\ life' \in [Sessions -> {"new", "open", "closed"}] /\ life'[c.s] = "closed"
      /\ \A s \in Sessions : s # c.s => life'[s] = life[s]
  BY <1>1, <1>2, <1>6
<1>8. MoreRaces /\ ToSet(sessions) \subseteq Sessions /\ ToSet(sessions)' = ToSet(sessions)
  BY <1>1, <1>2 DEF MoreRaces, TypesInv, ToSet
<1>9. TypesInv'
  <2>1. CallsTyped'
    BY <1>2, <1>4, <1>5, CallBecomes DEF TypesInv
  <2>. QED BY <1>1, <1>2, <1>7, <2>1 DEF TypesInv
<1>10. \A e \in calls' : e = d \/ (e \in calls /\ e # c)
  BY <1>4
<1>11. CloseInv'
  <2>1. \A s \in Sessions : s \in ToSet(sessions)' => connections'[s] # "absent" /\ life'[s] # "new"
    BY <1>1, <1>2, <1>7, <1>8 DEF CloseInv
  <2>2. "revived" \notin races' => \A s \in Sessions : connections'[s] # "absent" => s \in ToSet(sessions)'
    BY <1>1, <1>2, <1>8 DEF CloseInv
  <2>3. \A e \in calls : e.kind = "close" /\ e # c => e.s # c.s /\ e.s \in Sessions
    BY <1>2, <1>8 DEF CloseInv
  <2>4. \A e \in calls' : e.kind = "close" =>
           e.s \in ToSet(sessions)' /\ life'[e.s] = (IF e.step = "done" THEN "closed" ELSE "open")
    BY <1>2, <1>3, <1>5, <1>7, <1>8, <1>10, <2>3 DEF CloseInv
  <2>5. \A e, g \in calls' : e.kind = "close" /\ g.kind = "close" /\ e.s = g.s => e = g
    BY <1>2, <1>5, <1>10 DEF CloseInv
  <2>6. \A s \in ToSet(sessions)' : life'[s] = "open" \/ \E e \in calls' : e.kind = "close" /\ e.s = s
    BY <1>2, <1>4, <1>5, <1>7, <1>8 DEF CloseInv
  <2>. QED BY <2>1, <2>2, <2>4, <2>5, <2>6 DEF CloseInv
<1>12. \A s \in Sessions : ClosePast(s)' <=> ClosePast(s)
  <2>1. ClosePast(c.s) /\ ClosePast(c.s)'
    BY <1>1, <1>2, <1>7 DEF ClosePast
  <2>2. ASSUME NEW s \in Sessions, s # c.s PROVE ClosePast(s)' <=> ClosePast(s)
    BY <1>4, <1>5, <1>7, <2>2 DEF ClosePast
  <2>. QED BY <2>1, <2>2
<1>13. /\ \A e \in calls' : e.step \in RunSteps => e \in calls
       /\ \A e \in calls : e.step \in {"stop", "pool"} => e \in calls'
  BY <1>1, <1>4, <1>5
<1>14. MappedInv' /\ RegisterInv' /\ Pending' = Pending
  <2>1. Unmaps' = Unmaps /\ Pending' = Pending
    BY <1>1, <1>4, <1>5 DEF Unmaps, Pending
  <2>2. \A s \in Sessions : life[s] # "new" => life'[s] # "new"
    BY <1>7
  <2>3. \A e \in calls : e.s \in Sessions
    BY <1>2, CallFacts
  <2>4. \A s \in mapped : s \in Sessions
    BY <1>2 DEF TypesInv
  <2>5. MappedInv'
    <3>1. MappedInv
      BY DEF IndexIInv
    <3>. QED BY <1>1, <1>12, <1>13, <2>1, <2>2, <2>3, <2>4, <3>1 DEF MappedInv
  <2>6. RegisterInv'
    <3>1. RegisterInv
      BY DEF IndexIInv
    <3>. QED BY <1>1, <1>12, <1>13, <2>3, <3>1 DEF RegisterInv
  <2>. QED BY <2>1, <2>5, <2>6
<1>15. CountIsExact' /\ TokenInv' /\ SpawnInv' /\ ModelInv' /\ EventsInv'
  BY <1>1, <1>8, <1>13, <1>14, CountFrame, TokenFrame, SpawnFrame, ModelFrame, EventsFrame DEF IndexIInv
<1>16. ShownInv'
  <2>1. \A s : OwnCall(s) => OwnCall(s)'
    BY <1>2, <1>4 DEF OwnCall
  <2>2. EndComing => EndComing'
    BY <1>1 DEF EndComing
  <2>3. \A s \in Sessions : life'[s] = "open" => life[s] = "open"
    BY <1>7
  <2>. QED BY <1>1, <1>8, <2>1, <2>2, <2>3, ShownFrame DEF IndexIInv
<1>. QED BY <1>9, <1>11, <1>14, <1>15, <1>16 DEF IndexIInv

----------
(* The build tasks, and their events. *)

(* A task goes on: the calls and the sessions are not concerned.           *)
LEMMA TaskFrame ==
  ASSUME IndexIInv, MoreRaces, UNCHANGED <<life, mapped, count, frontend, model, calls, stray>>,
         builds' \in [BuildIds -> BuildType], \A b \in BuildIds : builds'[b].on => builds'[b].step # "none",
         meta' \in [status : {"none", "building", "ready", "error"}, model : Models \cup {NoModel}],
         token' \in {token, NoBuild}, events' \in Seq({"building", "ready", "error"})
  PROVE  TypesInv' /\ CountIsExact' /\ CloseInv' /\ MappedInv' /\ RegisterInv'
<1>1. TypesInv
  BY DEF IndexIInv
<1>2. CallsTyped'
  BY <1>1 DEF TypesInv, CallsTyped, Typed
<1>3. TypesInv'
  BY <1>1, <1>2 DEF TypesInv, frontend, MoreRaces
<1>4. SameCloses /\ Pending' = Pending
  BY DEF SameCloses, Closes, Pending
<1>5. CountIsExact' /\ CloseInv'
  BY <1>4, CountFrame, CloseFrame DEF IndexIInv, frontend
<1>6. MappedInv' /\ RegisterInv'
  BY <1>4, MappedFrame DEF IndexIInv
<1>. QED BY <1>3, <1>5, <1>6

(* One build goes on, or ends; a call about to start a build has another.  *)
LEMMA TaskSpawns ==
  ASSUME IndexIInv, NEW b \in BuildIds, builds[b].on, calls' = calls,
         \A x \in BuildIds : x # b => builds'[x] = builds[x]
  PROVE  SpawnInv'
BY DEF IndexIInv, SpawnInv

(* While the build goes on, its token is no more and no less its own.      *)
LEMMA TaskToken ==
  ASSUME IndexIInv, NEW b \in BuildIds, UNCHANGED <<token, mapped, calls>>, MoreRaces,
         \A x \in BuildIds : x # b => builds'[x] = builds[x],
         \/ builds[b].partial
         \/ builds'[b].live = builds[b].live /\ builds'[b].partial = builds[b].partial /\ builds'[b].on,
         builds[b].partial => "partial" \in races /\ (builds'[b].partial \/ ~builds'[b].live)
  PROVE  TokenInv'
<1>1. TokenInv /\ (SessionStays => SessionStays')
  <2>1. Pending' = Pending
    BY DEF Pending
  <2>. QED BY <2>1, StaysFrame DEF IndexIInv
<1>2. CASE builds[b].partial
  <2>1. "partial" \in races'
    BY <1>2 DEF MoreRaces
  <2>2. races' \cap {"lost", "twice"} = {} =>
           \A x \in BuildIds : builds'[x].live /\ ~builds'[x].partial => token' = x
    BY <1>1, <1>2 DEF TokenInv, MoreRaces
  <2>. QED BY <1>1, <2>1, <2>2 DEF TokenInv, MoreRaces
<1>3. CASE ~builds[b].partial
  <2>1. \A x \in BuildIds : /\ builds'[x].live = builds[x].live /\ builds'[x].partial = builds[x].partial
                            /\ builds[x].on => builds'[x].on
    BY <1>3
  <2>2. token \in BuildIds \cup {NoBuild}
    BY DEF IndexIInv, TypesInv
  <2>. QED BY <1>1, <2>1, <2>2 DEF TokenInv, MoreRaces
<1>. QED BY <1>2, <1>3

LEMMA BuildIs ==
  ASSUME IndexIInv, NEW b \in BuildIds, builds[b].on
  PROVE  /\ builds \in [BuildIds -> BuildType]
         /\ builds[b] = [on |-> TRUE, live |-> builds[b].live, model |-> builds[b].model,
                         step |-> builds[b].step, partial |-> builds[b].partial]
         /\ builds[b].live \in BOOLEAN /\ builds[b].model \in Models \cup {NoModel}
         /\ builds[b].partial \in BOOLEAN
         /\ meta \in [status : {"none", "building", "ready", "error"}, model : Models \cup {NoModel}]
         /\ events \in Seq({"building", "ready", "error"}) /\ races \subseteq Races
         /\ \A x \in BuildIds : builds[x].on => builds[x].step # "none"
         /\ builds[b].partial => "partial" \in races
BY DEF IndexIInv, TypesInv, BuildType, TokenInv

LEMMA BuildBeginsPreserves ==
  ASSUME IndexIInv, NEW b \in BuildIds, BuildBegins(b)
  PROVE  IndexIInv'
<1>1. /\ builds[b].on /\ builds[b].step = "begin"
      /\ meta' = [status |-> "building", model |-> builds[b].model]
      /\ builds' = [builds EXCEPT ![b].step = "work"]
      /\ events' = events \/ events' = Append(events, "building")
      /\ ~builds[b].partial => events' = Append(events, "building")
      /\ UNCHANGED <<life, mapped, count, token, frontend, model, calls, stray, races>>
  BY DEF BuildBegins, Emit
<1>2. /\ builds \in [BuildIds -> BuildType]
      /\ builds[b].live \in BOOLEAN /\ builds[b].model \in Models \cup {NoModel}
      /\ builds[b].partial \in BOOLEAN
      /\ events \in Seq({"building", "ready", "error"}) /\ races \subseteq Races
      /\ \A x \in BuildIds : builds[x].on => builds[x].step # "none"
      /\ builds[b].partial => "partial" \in races
  BY <1>1, BuildIs
<1>3. /\ builds' \in [BuildIds -> BuildType]
      /\ \A x \in BuildIds : x # b => builds'[x] = builds[x]
      /\ builds'[b].on /\ builds'[b].step = "work" /\ builds'[b].model = builds[b].model
      /\ builds'[b].live = builds[b].live /\ builds'[b].partial = builds[b].partial
  BY <1>1, <1>2 DEF BuildType
<1>4. MoreRaces
  BY <1>1, <1>2 DEF MoreRaces
<1>5. events' \in Seq({"building", "ready", "error"})
  BY <1>1, <1>2
<1>6. TypesInv' /\ CountIsExact' /\ CloseInv' /\ MappedInv' /\ RegisterInv'
  <2>1. \A x \in BuildIds : builds'[x].on => builds'[x].step # "none"
    BY <1>2, <1>3
  <2>2. meta' \in [status : {"none", "building", "ready", "error"}, model : Models \cup {NoModel}]
    BY <1>1, <1>2
  <2>. QED BY <1>1, <1>3, <1>4, <1>5, <2>1, <2>2, TaskFrame
<1>7. TokenInv'
  BY <1>1, <1>2, <1>3, <1>4, TaskToken
<1>8. SpawnInv'
  BY <1>1, <1>3, TaskSpawns
<1>9. ModelInv'
  <2>1. ModelInv
    BY DEF IndexIInv
  <2>2. meta'.status = "building" /\ meta'.model = builds[b].model
    BY <1>1
  <2>3. "model" \notin races => builds[b].model = model /\ model # NoModel
    BY <1>1, <2>1 DEF ModelInv
  <2>. QED BY <1>1, <1>3, <2>1, <2>2, <2>3 DEF ModelInv
<1>10. "partial" \notin races => EndComing' /\ Working' /\
            \E x \in BuildIds : builds'[x].on /\ ~builds'[x].partial /\ builds'[x].step \in {"work", "ready", "error"}
  BY <1>2, <1>3 DEF EndComing, Working
<1>11. EventsInv' /\ ShownInv'
  BY <1>1, <1>10 DEF EventsInv, ShownInv
<1>. QED BY <1>6, <1>7, <1>8, <1>9, <1>11 DEF IndexIInv

LEMMA BuildSucceedsPreserves ==
  ASSUME IndexIInv, NEW b \in BuildIds, BuildSucceeds(b)
  PROVE  IndexIInv'
<1>1. /\ builds[b].on /\ builds[b].step = "work"
      /\ meta' = [meta EXCEPT !.status = "ready"]
      /\ builds' = [builds EXCEPT ![b] = IF @.partial THEN Ended ELSE [@ EXCEPT !.step = "ready"]]
      /\ UNCHANGED <<life, mapped, count, token, frontend, model, calls, events, stray, races>>
  BY DEF BuildSucceeds
<1>2. /\ builds \in [BuildIds -> BuildType]
      /\ builds[b].live \in BOOLEAN /\ builds[b].model \in Models \cup {NoModel}
      /\ builds[b].partial \in BOOLEAN
      /\ meta \in [status : {"none", "building", "ready", "error"}, model : Models \cup {NoModel}]
      /\ events \in Seq({"building", "ready", "error"}) /\ races \subseteq Races
      /\ \A x \in BuildIds : builds[x].on => builds[x].step # "none"
      /\ builds[b].partial => "partial" \in races
  BY <1>1, BuildIs
<1>3. /\ builds' \in [BuildIds -> BuildType]
      /\ \A x \in BuildIds : x # b => builds'[x] = builds[x]
      /\ builds[b].partial => ~builds'[b].on /\ ~builds'[b].live
      /\ ~builds[b].partial =>
            /\ builds'[b].on /\ builds'[b].step = "ready" /\ builds'[b].model = builds[b].model
            /\ builds'[b].live = builds[b].live /\ ~builds'[b].partial
  <2>1. CASE builds[b].partial
    BY <1>1, <1>2, <2>1 DEF BuildType, Ended
  <2>2. CASE ~builds[b].partial
    BY <1>1, <1>2, <2>2 DEF BuildType
  <2>. QED BY <2>1, <2>2
<1>4. MoreRaces
  BY <1>1, <1>2 DEF MoreRaces
<1>5. meta'.status = "ready" /\ meta'.model = meta.model
      /\ meta' \in [status : {"none", "building", "ready", "error"}, model : Models \cup {NoModel}]
  BY <1>1, <1>2
<1>6. TypesInv' /\ CountIsExact' /\ CloseInv' /\ MappedInv' /\ RegisterInv'
  <2>1. \A x \in BuildIds : builds'[x].on => builds'[x].step # "none"
    BY <1>2, <1>3
  <2>. QED BY <1>1, <1>2, <1>3, <1>4, <1>5, <2>1, TaskFrame
<1>7. TokenInv'
  BY <1>1, <1>2, <1>3, <1>4, TaskToken
<1>8. SpawnInv'
  BY <1>1, <1>3, TaskSpawns
<1>9. ModelInv'
  <2>1. ModelInv
    BY DEF IndexIInv
  <2>2. "model" \notin races => builds[b].model = model /\ model # NoModel /\ meta.model = model
    BY <1>1, <2>1 DEF ModelInv
  <2>. QED BY <1>1, <1>3, <1>5, <2>1, <2>2 DEF ModelInv
<1>10. "partial" \notin races => EndComing' /\ Working' /\
            \E x \in BuildIds : builds'[x].on /\ ~builds'[x].partial /\ builds'[x].step \in {"work", "ready", "error"}
  BY <1>2, <1>3 DEF EndComing, Working
<1>11. EventsInv' /\ ShownInv'
  BY <1>1, <1>10 DEF EventsInv, ShownInv
<1>. QED BY <1>6, <1>7, <1>8, <1>9, <1>11 DEF IndexIInv

LEMMA BuildFailsPreserves ==
  ASSUME IndexIInv, NEW b \in BuildIds, BuildFails(b)
  PROVE  IndexIInv'
<1>1. /\ builds[b].on /\ builds[b].step \in {"begin", "work"}
      /\ meta' = IF builds[b].partial \/ meta = NoMeta THEN meta ELSE [meta EXCEPT !.status = "error"]
      /\ builds' = [builds EXCEPT ![b].step = "error"]
      /\ UNCHANGED <<life, mapped, count, token, frontend, model, calls, events, stray, races>>
  BY DEF BuildFails
<1>2. /\ builds \in [BuildIds -> BuildType]
      /\ builds[b].live \in BOOLEAN /\ builds[b].model \in Models \cup {NoModel}
      /\ builds[b].partial \in BOOLEAN
      /\ meta \in [status : {"none", "building", "ready", "error"}, model : Models \cup {NoModel}]
      /\ events \in Seq({"building", "ready", "error"}) /\ races \subseteq Races
      /\ \A x \in BuildIds : builds[x].on => builds[x].step # "none"
      /\ builds[b].partial => "partial" \in races
  BY <1>1, BuildIs
<1>3. /\ builds' \in [BuildIds -> BuildType]
      /\ \A x \in BuildIds : x # b => builds'[x] = builds[x]
      /\ builds'[b].on /\ builds'[b].step = "error" /\ builds'[b].model = builds[b].model
      /\ builds'[b].live = builds[b].live /\ builds'[b].partial = builds[b].partial
  BY <1>1, <1>2 DEF BuildType
<1>4. MoreRaces
  BY <1>1, <1>2 DEF MoreRaces
<1>5. /\ meta' \in [status : {"none", "building", "ready", "error"}, model : Models \cup {NoModel}]
      /\ meta' = meta \/ (meta'.status = "error" /\ meta'.model = meta.model)
  BY <1>1, <1>2
<1>6. TypesInv' /\ CountIsExact' /\ CloseInv' /\ MappedInv' /\ RegisterInv'
  <2>1. \A x \in BuildIds : builds'[x].on => builds'[x].step # "none"
    BY <1>2, <1>3
  <2>. QED BY <1>1, <1>2, <1>3, <1>4, <1>5, <2>1, TaskFrame
<1>7. TokenInv'
  BY <1>1, <1>2, <1>3, <1>4, TaskToken
<1>8. SpawnInv'
  BY <1>1, <1>3, TaskSpawns
<1>9. ModelInv'
  <2>1. ModelInv
    BY DEF IndexIInv
  <2>2. meta'.status = "none" => meta' = NoMeta
    BY <1>5, <2>1 DEF ModelInv
  <2>3. meta.status # "none" => meta'.status # "none" /\ meta'.model = meta.model
    BY <1>5
  <2>. QED BY <1>1, <1>3, <2>1, <2>2, <2>3 DEF ModelInv
<1>10. "partial" \notin races => EndComing' /\ Working' /\
            \E x \in BuildIds : builds'[x].on /\ ~builds'[x].partial /\ builds'[x].step \in {"work", "ready", "error"}
  BY <1>2, <1>3 DEF EndComing, Working
<1>11. EventsInv' /\ ShownInv'
  BY <1>1, <1>10 DEF EventsInv, ShownInv
<1>. QED BY <1>6, <1>7, <1>8, <1>9, <1>11 DEF IndexIInv

(* The end of a build is told: with no other at work it is right at rest.  *)
LEMMA TellEndPreserves ==
  ASSUME IndexIInv, NEW b \in BuildIds, TellEnd(b)
  PROVE  IndexIInv'
<1>1. /\ builds[b].on /\ builds[b].step \in {"ready", "error"}
      /\ events' = Append(events, builds[b].step)
      /\ builds' = [builds EXCEPT ![b] = IF @.partial THEN Ended ELSE [@ EXCEPT !.step = "over"]]
      /\ races' = IF meta.status \in {builds[b].step, "none"} THEN races ELSE races \cup {"crossed"}
      /\ UNCHANGED <<life, mapped, count, token, meta, frontend, model, calls, stray>>
  BY DEF TellEnd, Emit
<1>2. /\ builds \in [BuildIds -> BuildType]
      /\ builds[b].live \in BOOLEAN /\ builds[b].model \in Models \cup {NoModel}
      /\ builds[b].partial \in BOOLEAN
      /\ meta \in [status : {"none", "building", "ready", "error"}, model : Models \cup {NoModel}]
      /\ events \in Seq({"building", "ready", "error"}) /\ races \subseteq Races
      /\ \A x \in BuildIds : builds[x].on => builds[x].step # "none"
      /\ builds[b].partial => "partial" \in races
  BY <1>1, BuildIs
<1>3. /\ builds' \in [BuildIds -> BuildType]
      /\ \A x \in BuildIds : x # b => builds'[x] = builds[x]
      /\ builds[b].partial => ~builds'[b].on /\ ~builds'[b].live
      /\ ~builds[b].partial =>
            /\ builds'[b].on /\ builds'[b].step = "over" /\ builds'[b].model = builds[b].model
            /\ builds'[b].live = builds[b].live /\ ~builds'[b].partial
  <2>1. CASE builds[b].partial
    BY <1>1, <1>2, <2>1 DEF BuildType, Ended
  <2>2. CASE ~builds[b].partial
    BY <1>1, <1>2, <2>2 DEF BuildType
  <2>. QED BY <2>1, <2>2
<1>4. MoreRaces
  BY <1>1, <1>2 DEF MoreRaces, Races
<1>5. /\ events' \in Seq({"building", "ready", "error"}) /\ events' # <<>>
      /\ Len(events') \in DOMAIN events' /\ events'[Len(events')] = builds[b].step
  BY <1>1, <1>2
<1>6. TypesInv' /\ CountIsExact' /\ CloseInv' /\ MappedInv' /\ RegisterInv'
  <2>1. \A x \in BuildIds : builds'[x].on => builds'[x].step # "none"
    BY <1>2, <1>3
  <2>. QED BY <1>1, <1>2, <1>3, <1>4, <1>5, <2>1, TaskFrame
<1>7. TokenInv'
  BY <1>1, <1>2, <1>3, <1>4, TaskToken
<1>8. SpawnInv'
  BY <1>1, <1>3, TaskSpawns
<1>9. ModelInv /\ ("model" \notin races' => builds[b].model = model /\ model # NoModel)
  BY <1>1, <1>4 DEF IndexIInv, ModelInv, MoreRaces
<1>10. ModelInv'
  BY <1>1, <1>3, <1>4, <1>9 DEF ModelInv, MoreRaces
<1>11. EndComing'
  BY <1>1, <1>5 DEF EndComing
<1>12. ShownInv'
  BY <1>11 DEF ShownInv
<1>13. EventsInv'
  <2>. SUFFICES ASSUME races' \cap {"model", "crossed", "partial"} = {}
                PROVE  RightAtRest(events[Len(events)])'
    BY <1>1, <1>5 DEF EventsInv
  <2>1. "model" \notin races /\ model # NoModel /\ meta.status \in {builds[b].step, "none"}
    BY <1>1, <1>4, <1>9 DEF MoreRaces
  <2>2. builds[b].step = "ready" => meta.status = "ready" /\ meta.model = model
    BY <1>1, <1>9, <2>1 DEF ModelInv
  <2>3. meta.status = "none" => meta = NoMeta
    BY <1>9 DEF ModelInv
  <2>4. meta.status # "none" => meta # NoMeta
    BY DEF NoMeta
  <2>5. RightAtRest(builds[b].step)
    BY <1>1, <2>1, <2>2, <2>3, <2>4 DEF RightAtRest, Rest
  <2>6. RightAtRest(events[Len(events)])' <=> RightAtRest(events'[Len(events')])
    BY <1>1 DEF RightAtRest, Rest
  <2>. QED BY <1>5, <2>5, <2>6
<1>. QED BY <1>6, <1>7, <1>8, <1>10, <1>12, <1>13 DEF IndexIInv

LEMMA DropTokenPreserves ==
  ASSUME IndexIInv, NEW b \in BuildIds, DropToken(b)
  PROVE  IndexIInv'
<1>1. /\ builds[b].on /\ builds[b].step = "over" /\ token' = NoBuild
      /\ races' = IF token \in {b, NoBuild} THEN races ELSE races \cup {"lost"}
      /\ builds' = [builds EXCEPT ![b] = Ended]
      /\ UNCHANGED <<life, mapped, count, meta, frontend, model, calls, events, stray>>
  BY DEF DropToken
<1>2. /\ builds \in [BuildIds -> BuildType]
      /\ meta \in [status : {"none", "building", "ready", "error"}, model : Models \cup {NoModel}]
      /\ events \in Seq({"building", "ready", "error"}) /\ races \subseteq Races
      /\ \A x \in BuildIds : builds[x].on => builds[x].step # "none"
  BY <1>1, BuildIs
<1>3. /\ builds' \in [BuildIds -> BuildType]
      /\ \A x \in BuildIds : x # b => builds'[x] = builds[x]
      /\ ~builds'[b].on /\ ~builds'[b].live /\ ~builds'[b].partial
  BY <1>1, <1>2 DEF Ended, BuildType
<1>4. MoreRaces
  BY <1>1, <1>2 DEF MoreRaces, Races
<1>5. TypesInv' /\ CountIsExact' /\ CloseInv' /\ MappedInv' /\ RegisterInv'
  <2>1. \A x \in BuildIds : builds'[x].on => builds'[x].step # "none"
    BY <1>2, <1>3
  <2>. QED BY <1>1, <1>2, <1>3, <1>4, <2>1, TaskFrame
<1>6. TokenInv'
  <2>1. TokenInv
    BY DEF IndexIInv
  <2>2. races' \cap {"lost", "twice"} = {} =>
          \A x \in BuildIds : builds'[x].live /\ ~builds'[x].partial => FALSE
    <3>1. races' \cap {"lost", "twice"} = {} => races \cap {"lost", "twice"} = {} /\ token \in {b, NoBuild}
      BY <1>1
    <3>. QED BY <1>3, <2>1, <3>1, Bounds DEF TokenInv
  <2>3. "partial" \notin races' => \A x \in BuildIds : ~builds'[x].partial
    BY <1>3, <1>4, <2>1 DEF TokenInv, MoreRaces
  <2>. QED BY <1>1, <2>2, <2>3 DEF TokenInv
<1>7. SpawnInv'
  BY <1>1, <1>3, TaskSpawns
<1>8. ModelInv'
  <2>1. ModelInv
    BY DEF IndexIInv
  <2>. QED BY <1>1, <1>3, <1>4, <2>1 DEF ModelInv, MoreRaces
<1>9. /\ Working' <=> Working
      /\ EndComing' <=> EndComing
  BY <1>1, <1>3 DEF Working, EndComing
<1>10. EventsInv'
  <2>1. EventsInv
    BY DEF IndexIInv
  <2>2. RightAtRest(events[Len(events)])' <=> RightAtRest(events[Len(events)])
    BY <1>1 DEF RightAtRest, Rest
  <2>. QED BY <1>1, <1>3, <1>4, <1>9, <2>1, <2>2 DEF EventsInv, MoreRaces
<1>11. ShownInv'
  <2>1. \A s : OwnCall(s) => OwnCall(s)'
    BY <1>1 DEF OwnCall
  <2>2. ToSet(sessions) \subseteq Sessions
    BY DEF IndexIInv, TypesInv, ToSet
  <2>. QED BY <1>1, <1>4, <1>9, <2>1, <2>2, ShownFrame DEF IndexIInv, frontend
<1>. QED BY <1>5, <1>6, <1>7, <1>8, <1>10, <1>11 DEF IndexIInv

----------
(* Events. *)

LEMMA HandleEventPreserves ==
  ASSUME IndexIInv, HandleEvent
  PROVE  IndexIInv'
<1>. DEFINE told == Head(events)
<1>1. /\ events # <<>> /\ events' = Tail(events)
      /\ connections' = [s \in Sessions |-> IF s \in ToSet(sessions) THEN told ELSE connections[s]]
      /\ stray' = stray \ ToSet(sessions)
      /\ UNCHANGED <<backend, sessions, saving, asked, model, calls, races>>
  BY DEF HandleEvent, Tells
<1>2. /\ TypesInv /\ CountIsExact /\ CloseInv /\ MappedInv /\ TokenInv /\ SpawnInv
      /\ ModelInv /\ EventsInv
      /\ events \in Seq({"building", "ready", "error"}) /\ sessions \in Seq(Sessions)
      /\ connections \in [Sessions -> IndexStatuses \cup {"absent"}]
      /\ races \subseteq Races /\ stray \subseteq Sessions
  BY DEF IndexIInv, TypesInv
<1>3. Len(events) \in Nat /\ Len(events) # 0
  BY <1>1, <1>2, EmptySeq
<1>4. /\ told = events[1] /\ told \in {"building", "ready", "error"}
      /\ events' \in Seq({"building", "ready", "error"})
      /\ Len(events') = Len(events) - 1
      /\ \A i \in 1 .. Len(events') : events'[i] = events[i + 1]
  BY <1>1, <1>2, <1>3, HeadTailProperties
<1>5. events' # <<>> => Len(events) > 1 /\ events'[Len(events')] = events[Len(events)]
  <2>1. events' # <<>> => Len(events') \in Nat /\ Len(events') # 0
    BY <1>4, EmptySeq
  <2>. QED BY <1>3, <1>4, <2>1
<1>6. events' = <<>> => events[Len(events)] = told
  <2>1. SUFFICES ASSUME events' = <<>> PROVE events[Len(events)] = told
    OBVIOUS
  <2>2. Len(events) - 1 = 0
    BY <1>4, <2>1, EmptySeq
  <2>3. Len(events) = 1
    BY <1>3, <2>2
  <2>. QED BY <1>4, <2>3
<1>. HIDE DEF told
<1>7. ToSet(sessions) \subseteq Sessions
  BY <1>2 DEF ToSet
<1>8. /\ \A s \in ToSet(sessions) : connections'[s] = told
      /\ \A s \in Sessions \ ToSet(sessions) : connections'[s] = connections[s]
  BY <1>1, <1>7
<1>9. TypesInv'
  <2>1. connections' \in [Sessions -> IndexStatuses \cup {"absent"}]
    BY <1>1, <1>2, <1>4 DEF IndexStatuses
  <2>2. CallsTyped'
    BY <1>1, <1>2 DEF TypesInv, CallsTyped, Typed
  <2>. QED BY <1>1, <1>2, <1>4, <2>1, <2>2 DEF TypesInv, backend
<1>10. CountIsExact' /\ Pending' = Pending
  <2>1. Pending' = Pending /\ MoreRaces
    BY <1>1, <1>2 DEF Pending, MoreRaces
  <2>. QED BY <1>1, <1>2, <2>1, CountFrame DEF backend
<1>11. CloseInv'
  <2>1. \A s \in ToSet(sessions) : connections[s] # "absent"
    BY <1>2, <1>7 DEF CloseInv
  <2>2. SameCloses /\ MoreRaces
    BY <1>1, <1>2 DEF SameCloses, Closes, MoreRaces, backend
  <2>. QED BY <1>1, <1>2, <1>4, <1>8, <2>1, <2>2, CloseFrame
<1>12. MappedInv' /\ RegisterInv' /\ TokenInv' /\ SpawnInv'
  <2>1. MoreRaces
    BY <1>1, <1>2 DEF MoreRaces
  <2>2. MappedInv' /\ RegisterInv'
    <3>1. SameCloses
      BY <1>1 DEF SameCloses, Closes, backend
    <3>. QED BY <1>1, <1>2, <2>1, <3>1, MappedFrame DEF IndexIInv, backend
  <2>3. TokenInv'
    BY <1>1, <1>2, <1>10, <2>1, TokenFrame DEF backend
  <2>4. SpawnInv'
    BY <1>1, <1>2, SpawnFrame DEF backend
  <2>. QED BY <2>2, <2>3, <2>4
<1>13. ModelInv'
  <2>1. MoreRaces
    BY <1>1, <1>2 DEF MoreRaces
  <2>. QED BY <1>1, <1>2, <2>1, ModelFrame DEF backend
<1>14. \A v : RightAtRest(v)' <=> RightAtRest(v)
  BY <1>1 DEF RightAtRest, Rest, backend
<1>15. RightAtRest(events[Len(events)])' <=> RightAtRest(events'[Len(events')])
  BY <1>1 DEF RightAtRest, Rest, backend
<1>16. EventsInv'
  <2>1. Working' <=> Working
    BY <1>1 DEF Working, backend
  <2>. SUFFICES ASSUME races \cap {"model", "crossed", "partial"} = {}, events' # <<>>
                PROVE  /\ events'[Len(events')] = "building" =>
                            \E b \in BuildIds : builds[b].on /\ ~builds[b].partial
                                                /\ builds[b].step \in {"work", "ready", "error"}
                       /\ ~Working => RightAtRest(events'[Len(events')])
    BY <1>1, <1>14, <1>15, <2>1 DEF EventsInv, backend
  <2>. QED BY <1>1, <1>2, <1>5 DEF EventsInv
<1>17. ShownInv'
  <2>. SUFFICES ASSUME races \cap {"model", "crossed", "partial"} = {}, ~EndComing',
                       NEW s \in ToSet(sessions)' \ stray'
                PROVE  RightAtRest(connections[s])'
    BY <1>1 DEF ShownInv
  <2>1. s \in ToSet(sessions)
    BY <1>1 DEF ToSet
  <2>2. ~Working /\ \A i \in DOMAIN events' : events'[i] = "building"
    BY <1>1 DEF Working, EndComing, backend
  <2>3. events' = <<>>
    <3>1. SUFFICES ASSUME events' # <<>> PROVE FALSE
      OBVIOUS
    <3>2. Len(events') \in DOMAIN events'
      <4>1. Len(events') \in Nat /\ Len(events') # 0 /\ DOMAIN events' = 1 .. Len(events')
        BY <1>4, <3>1, EmptySeq
      <4>. QED BY <4>1
    <3>3. events[Len(events)] = "building"
      BY <1>5, <2>2, <3>1, <3>2
    <3>4. Working
      BY <1>1, <1>2, <3>3 DEF EventsInv, Working
    <3>. QED BY <2>2, <3>4
  <2>4. RightAtRest(told)
    BY <1>1, <1>2, <1>6, <2>2, <2>3 DEF EventsInv
  <2>5. RightAtRest(connections[s])' <=> RightAtRest(connections'[s])
    BY <1>1 DEF RightAtRest, Rest, backend
  <2>. QED BY <1>8, <2>1, <2>4, <2>5
<1>. QED BY <1>9, <1>10, <1>11, <1>12, <1>13, <1>16, <1>17 DEF IndexIInv

----------
(* The invariant holds from the start, and after every step. *)

LEMMA IndexStarts == IndexInit => IndexIInv
<1>. SUFFICES ASSUME IndexInit PROVE IndexIInv
  OBVIOUS
<1>1. /\ life = [s \in Sessions |-> "new"] /\ mapped = {} /\ count = NoCount /\ token = NoBuild
      /\ meta = NoMeta /\ model \in Models
      /\ builds = [b \in BuildIds |-> Ended] /\ calls = {}
      /\ connections = [s \in Sessions |-> "absent"] /\ sessions = <<>> /\ saving = FALSE
      /\ events = <<>> /\ asked = 0 /\ stray = {} /\ races = {}
  BY DEF IndexInit
<1>2. ToSet(sessions) = {}
  BY <1>1 DEF ToSet
<1>3. \A b \in BuildIds : ~builds[b].on /\ ~builds[b].live /\ ~builds[b].partial
  BY <1>1 DEF Ended
<1>4. CallsTyped
  BY <1>1, FS_EmptySet, Bounds DEF CallsTyped
<1>5. TypesInv
  <2>1. builds \in [BuildIds -> BuildType]
    BY <1>1 DEF Ended, BuildType
  <2>2. sessions \in Seq(Sessions) /\ IsInjective(sessions)
    BY <1>1 DEF IsInjective
  <2>3. events \in Seq({"building", "ready", "error"}) /\ asked \in 0 .. MaxAsked
    BY <1>1, Bounds
  <2>4. /\ life \in [Sessions -> {"new", "open", "closed"}]
        /\ connections \in [Sessions -> IndexStatuses \cup {"absent"}]
    BY <1>1
  <2>5. /\ count \in Nat \cup {NoCount} /\ model \in Models
        /\ meta \in [status : {"none", "building", "ready", "error"}, model : Models \cup {NoModel}]
    BY <1>1 DEF NoCount, NoMeta
  <2>. QED BY <1>1, <1>3, <1>4, <2>1, <2>2, <2>3, <2>4, <2>5 DEF TypesInv
<1>6. CountIsExact
  BY <1>1, FS_EmptySet DEF CountIsExact, CountedSessions
<1>7. CloseInv /\ MappedInv /\ RegisterInv /\ SpawnInv
  BY <1>1, <1>2 DEF CloseInv, MappedInv, Unmaps, RegisterInv, SpawnInv
<1>8. TokenInv /\ ModelInv
  BY <1>1, <1>3 DEF TokenInv, ModelInv
<1>9. EventsInv /\ ShownInv
  BY <1>1, <1>2 DEF EventsInv, ShownInv
<1>. QED BY <1>5, <1>6, <1>7, <1>8, <1>9 DEF IndexIInv

LEMMA IndexStutters ==
  ASSUME IndexIInv, UNCHANGED indexVars
  PROVE  IndexIInv'
<1>1. /\ UNCHANGED <<life, mapped, count, token, meta, builds, connections, sessions, saving, asked>>
      /\ UNCHANGED <<model, calls, events, stray, races>>
  BY DEF indexVars, backend, frontend
<1>2. TypesInv' /\ CountIsExact'
  BY <1>1 DEF IndexIInv, TypesInv, CallsTyped, Typed, CountIsExact, CountedSessions
<1>3. CloseInv' /\ MappedInv' /\ RegisterInv' /\ TokenInv' /\ SpawnInv'
  <2>1. SameCloses /\ MoreRaces /\ Pending' = Pending
    BY <1>1 DEF SameCloses, Closes, MoreRaces, Pending, IndexIInv, TypesInv
  <2>2. MappedInv' /\ RegisterInv'
    BY <1>1, <2>1, MappedFrame DEF IndexIInv
  <2>3. TokenInv'
    BY <1>1, <2>1, TokenFrame DEF IndexIInv
  <2>. QED BY <1>1, <2>2, <2>3 DEF IndexIInv, CloseInv, SpawnInv
<1>4. ModelInv'
  BY <1>1 DEF IndexIInv, ModelInv
<1>5. EventsInv'
  BY <1>1 DEF IndexIInv, EventsInv, Working, RightAtRest, Rest
<1>6. ShownInv'
  BY <1>1 DEF IndexIInv, ShownInv, EndComing, OwnCall, RightAtRest, Rest
<1>. QED BY <1>2, <1>3, <1>4, <1>5, <1>6 DEF IndexIInv

LEMMA IndexStepPreserves ==
  ASSUME IndexIInv, [IndexNext]_indexVars
  PROVE  IndexIInv'
<1>1. CASE UNCHANGED indexVars
  BY <1>1, IndexStutters
<1>2. CASE \E s \in Sessions : \/ \E asks \in BOOLEAN : Open(s, asks)
                               \/ \E kind \in {"invalidate", "quiet"} : ChangeSchema(s, kind)
                               \/ CloseConnection(s)
  BY <1>2, OpenPreserves, ChangeSchemaPreserves, CloseConnectionPreserves
<1>3. CASE \E m \in Models \cup {NoModel} : SaveModel(m)
  BY <1>3, SaveModelPreserves
<1>4. CASE ModelSaved \/ ForceReindex \/ HandleEvent
  BY <1>4, ModelSavedPreserves, ForceReindexPreserves, HandleEventPreserves
<1>5. ASSUME NEW c \in calls, CallStep(c) PROVE IndexIInv'
  <2>1. CASE \/ FindProfile(c) \/ LookUp(c) \/ MapSession(c) \/ CountSession(c)
             \/ CheckRunning(c) \/ CancelRunning(c) \/ InsertToken(c) \/ SpawnBuild(c) \/ SpawnPartial(c)
    BY <2>1, FindProfilePreserves, LookUpPreserves, MapSessionPreserves, CountSessionPreserves,
       CheckRunningPreserves, CancelRunningPreserves, InsertTokenPreserves, SpawnBuildPreserves,
       SpawnPartialPreserves
  <2>2. CASE \/ LookUpClosing(c) \/ Uncount(c) \/ Unmap(c) \/ StopBuild(c) \/ ForgetCount(c)
             \/ RemoveConnection(c)
    BY <2>2, LookUpClosingPreserves, UncountPreserves, UnmapPreserves, StopBuildPreserves,
       ForgetCountPreserves, RemoveConnectionPreserves
  <2>3. CASE ReadStatus(c) \/ StatusReply(c) \/ CallReply(c) \/ CallFails(c) \/ QuietBuild(c)
    BY <2>3, ReadStatusPreserves, StatusReplyPreserves, CallReplyPreserves, CallFailsPreserves,
       QuietBuildPreserves
  <2>. QED BY <1>5, <2>1, <2>2, <2>3 DEF CallStep
<1>6. ASSUME NEW b \in BuildIds, BuildStep(b) PROVE IndexIInv'
  BY <1>6, BuildBeginsPreserves, BuildSucceedsPreserves, BuildFailsPreserves, TellEndPreserves,
     DropTokenPreserves DEF BuildStep
<1>. QED BY <1>1, <1>2, <1>3, <1>4, <1>5, <1>6 DEF IndexNext, Step

LEMMA IndexInvariant == IndexSpec => []IndexIInv
<1>1. IndexIInv /\ [IndexNext]_indexVars => IndexIInv'
  BY IndexStepPreserves
<1>. QED BY <1>1, IndexStarts, PTL DEF IndexSpec

----------
(* What it says of the counts, the builds and the statuses. *)

LEMMA BuildsFit == IndexIInv => BuildsInv
<1>. SUFFICES ASSUME IndexIInv PROVE BuildsInv
  OBVIOUS
<1>1. TypesInv /\ CountIsExact /\ CloseInv /\ MappedInv /\ TokenInv
  BY DEF IndexIInv
<1>2. IndexTypeOK
  <2>3. ToSet(sessions) \subseteq Sessions
    BY <1>1 DEF TypesInv, ToSet
  <2>4. "revived" \notin races =>
          \A s \in Sessions : (connections[s] # "absent") <=> s \in ToSet(sessions)
    BY <1>1 DEF CloseInv
  <2>5. DOMAIN builds = BuildIds /\ Cardinality(calls) <= MaxCalls
    BY <1>1 DEF TypesInv, CallsTyped
  <2>. QED BY <1>1, <2>3, <2>4, <2>5 DEF IndexTypeOK, TypesInv
<1>3. LastCloseStopsBuilds
  <2>. SUFFICES ASSUME races \cap {"double", "late", "lost", "twice", "reset", "leak", "partial"} = {},
                       \A s \in Sessions : life[s] # "open", calls = {}
                PROVE  token = NoBuild /\ \A b \in BuildIds : builds[b].on => ~builds[b].live
    BY DEF LastCloseStopsBuilds
  <2>1. mapped = {}
    <3>1. \A s \in mapped : s \in Sessions /\ life[s] # "new" /\ life[s] # "closed"
      BY <1>1 DEF TypesInv, MappedInv, ClosePast, Unmaps
    <3>. QED BY <1>1, <3>1 DEF TypesInv
  <2>2. token = NoBuild
    BY <1>1, <2>1 DEF TokenInv, SessionStays
  <2>. QED BY <1>1, <2>2, Bounds DEF TokenInv
<1>4. OneLiveBuild
  <2>. DEFINE running == {b \in BuildIds : builds[b].on /\ builds[b].live /\ ~builds[b].partial
                                           /\ builds[b].step # "over"}
  <2>. SUFFICES ASSUME races \cap {"lost", "twice"} = {} PROVE Cardinality(running) <= 1
    BY DEF OneLiveBuild
  <2>1. running \subseteq {token}
    BY <1>1 DEF TokenInv
  <2>. HIDE DEF running
  <2>2. IsFiniteSet({token}) /\ Cardinality({token}) = 1
    BY FS_Singleton
  <2>. QED BY <2>1, <2>2, FS_Subset
<1>. QED BY <1>1, <1>2, <1>3, <1>4 DEF BuildsInv

LEMMA ShownFits == IndexIInv => ShownIsTrue
<1>. SUFFICES ASSUME IndexIInv, Quiet, races \cap {"crossed", "model", "partial", "leak"} = {},
                     NEW s \in ToSet(sessions) \ stray
              PROVE  connections[s] \in {get_index_status(s)}
                       \cup (IF get_index_status(s) = "stale" THEN {"error"} ELSE {})
  BY DEF ShownIsTrue
<1>1. TypesInv /\ CloseInv /\ TokenInv /\ ShownInv
  BY DEF IndexIInv
<1>2. events = <<>> /\ ~saving /\ calls = {} /\ \A b \in BuildIds : ~builds[b].on
  BY DEF Quiet
<1>3. life[s] = "open"
  BY <1>1, <1>2 DEF CloseInv
<1>4. token = NoBuild
  BY <1>1, <1>2 DEF TypesInv, TokenInv
<1>5. get_index_status(s) = Rest
  BY <1>3, <1>4 DEF get_index_status, Rest
<1>6. ~EndComing
  BY <1>2 DEF EndComing
<1>7. RightAtRest(connections[s])
  BY <1>1, <1>2, <1>3, <1>6 DEF ShownInv, OwnCall
<1>. QED BY <1>5, <1>7 DEF RightAtRest

(* A profile's count is that of its mapped sessions no call has still to   *)
(* count or to unmap, a profile with no open session has no token and no   *)
(* build that goes on, and no two builds of one go on together:            *)
(* register_session, build_schema_index, cleanup_schema_index_session and  *)
(* build_index, one lock region at a time and in whatever order, but for   *)
(* the races each part names.                                              *)
THEOREM BuildsSafe == IndexSpec => []BuildsInv
BY IndexInvariant, BuildsFit, PTL

(* With no call, build or event left, every session of the store shows the *)
(* status get_index_status would answer, or the error of a build that left *)
(* the index stale: the store's replies and its handling of the profile's  *)
(* events, in whatever order they come.                                    *)
THEOREM ShownStaysTrue == IndexSpec => []ShownIsTrue
BY IndexInvariant, ShownFits, PTL
=============================================================================
