--------------------------- MODULE TransferJobs ---------------------------
(***************************************************************************)
(* A background job that moves whole tables: a SQL dump, a SQL import or a *)
(* copy to another host, its dialog, and the pool of MySQL connections it  *)
(* shares with the rest of the program, here one edit of a row.            *)
(*                                                                         *)
(* A step is what the code does up to the next answer of the server or the *)
(* next lock on the job map. Rows, file and statements are reduced to what *)
(* tells a whole transfer from a torn one. Errors of the file system, the  *)
(* text of statements and views, which have no data phase, are left out.   *)
(***************************************************************************)
EXTENDS Integers, Sequences

CONSTANTS Kinds,      \* the kinds of job: a subset of {"dump", "import", "copy"}
          LastTable,  \* tables 1 .. LastTable are transferred
          MaxRows,    \* bound on the rows of a table
          BatchSize,  \* INSERT_BATCH_SIZE and COPY_BATCH_ROW_CAP
          PoolSize,   \* max_connections
          MaxEdits,   \* bound on the edits of rows
          MaxFaults   \* bound on refused statements and lost connections

ASSUME KindsAssumption == Kinds # {} /\ Kinds \subseteq {"dump", "import", "copy"}
ASSUME BoundsAssumption ==
  /\ {LastTable, MaxRows, BatchSize} \subseteq Nat \ {0}
  /\ {MaxEdits, MaxFaults} \subseteq Nat
  /\ PoolSize \in Nat /\ PoolSize >= 3

VARIABLES job,     \* DumpJobProgress, ImportJobProgress or CopyJobProgress and its task
          input,   \* StartDumpInput, StartImportInput or CopyToHostParams
          output,  \* the dump file, or the target's tables
          conns,   \* the session of each pooled connection, on the server
          idle,    \* the pool's idle queue
          free,    \* connections on their way back to the pool
          opened,  \* MySQL threads so far
          edit,    \* the row edit that uses the pool as well
          saved,   \* the rows the server has committed
          cancel,  \* the cancel_dump call in flight
          dialog,  \* SqlDumpDialog, SqlImportDialog or CopyToHostDialog
          poll,    \* the progress reply on its way to the dialog
          faults,  \* statements refused and connections lost
          gaps     \* ghost: the races, named at Gaps, met so far

pool == <<conns, idle, free, opened>>
user == <<edit, cancel, dialog, poll>>
vars == <<job, input, output, pool, user, saved, faults, gaps>>

Tables   == 1 .. LastTable
Conns    == 1 .. PoolSize
Terminal == {"Completed", "Failed", "Cancelled"}
Statuses == Terminal \cup {"Running"}

(* What an import runs: a dump of one table with and without use_transaction, *)
(* or a file of another program.                                           *)
Locked  == <<"lock", "insert", "unlock">>
Scripts == {Locked, <<"autocommit0", "lock", "insert", "unlock", "commit">>,
            <<"autocommit0", "insert", "commit">>}

(* scattered: two statements of an import ran on different connections;    *)
(* leftover:  a failed first fetch leaves the dump's thread id behind;     *)
(* panicked:  the preview of an import's statement ends inside a character; *)
(* slept:     five minutes pass between the job's end and the next poll;   *)
(* unrestored: the server refused a copy's last SET FOREIGN_KEY_CHECKS.    *)
Gaps == {"scattered", "leftover", "panicked", "slept", "unrestored"}

DumpSteps   == {"version", "create", "acquire", "connid", "first", "stream", "finish"}
CopySteps   == {"pin", "prepare", "checks", "count", "structure", "rows", "flush", "last",
                "restore"}
ImportSteps == {"read", "check", "send", "wait", "dead"}
Steps       == {"none", "status", "ended"} \cup DumpSteps \cup CopySteps \cup ImportSteps

Fresh(thread) == [thread |-> thread, autocommit |-> TRUE, checks |-> TRUE, lock |-> FALSE,
                  killed |-> FALSE, pending |-> {}]

JobType ==
  [kind : Kinds, pc : Steps, at : Nat, conn : 0 .. PoolSize, status : Statuses,
   cancel_requested : BOOLEAN, mysql_thread_id : Nat, result : {"ok", "err", "cancelled"},
   read : 0 .. MaxRows, batch : 0 .. BatchSize, errors : Nat, last : Nat, stale : BOOLEAN]

InputType ==
  [data : BOOLEAN, transaction : BOOLEAN, stop : BOOLEAN, script : Scripts, torn : Nat]

OutputType ==
  [part : [Tables -> {"absent", "structure", "part", "whole"}], transaction : BOOLEAN,
   lock : BOOLEAN, header : BOOLEAN, footer : BOOLEAN]

SessionType ==
  [thread : Nat, autocommit : BOOLEAN, checks : BOOLEAN, lock : BOOLEAN, killed : BOOLEAN,
   pending : SUBSET {"row", "edit"}]

EditType ==
  [pc : {"idle", "running"}, conn : 0 .. PoolSize, number : 0 .. MaxEdits,
   reply : {"none", "ok", "error"}]

DialogType == [busy : BOOLEAN, polling : BOOLEAN, cancelPending : BOOLEAN]

TypeOK ==
  /\ job \in JobType /\ input \in InputType /\ output \in OutputType
  /\ conns \in [Conns -> SessionType]
  /\ idle \in Seq(Conns) /\ free \subseteq Conns /\ opened \in Nat
  /\ edit \in EditType
  /\ saved \subseteq {"row", "edit"}
  /\ cancel \in [pc : {"none", "read", "kill"}, thread : Nat]
  /\ dialog \in DialogType
  /\ poll \in {"none", "missing"} \cup Statuses
  /\ faults \in 0 .. MaxFaults /\ gaps \subseteq Gaps

Init ==
  /\ \E kind \in Kinds :
       job = [kind |-> kind, pc |-> "none", at |-> 1, conn |-> 0, status |-> "Running",
              cancel_requested |-> FALSE, mysql_thread_id |-> 0, result |-> "ok", read |-> 0,
              batch |-> 0, errors |-> 0, last |-> 0, stale |-> FALSE]
  /\ \E data, transaction, stop \in BOOLEAN, script \in Scripts, torn \in 0 .. 1 :
       /\ input = [data |-> data, transaction |-> transaction, stop |-> stop,
                   script |-> script, torn |-> torn]
       /\ job.kind # "import" => stop /\ script = Locked /\ torn = 0
       /\ job.kind = "import" => data /\ transaction
       /\ job.kind = "copy" => transaction
  /\ output = [part |-> [t \in Tables |-> "absent"], transaction |-> FALSE, lock |-> FALSE,
               header |-> FALSE, footer |-> FALSE]
  /\ conns = [c \in Conns |-> IF c = 1 THEN Fresh(1) ELSE Fresh(0)]
  /\ idle = <<1>> /\ free = {} /\ opened = 1
  /\ edit = [pc |-> "idle", conn |-> 0, number |-> 0, reply |-> "none"]
  /\ saved = {}
  /\ cancel = [pc |-> "none", thread |-> 0]
  /\ dialog = [busy |-> FALSE, polling |-> FALSE, cancelPending |-> FALSE]
  /\ poll = "none" /\ faults = 0 /\ gaps = {}

-----------------------------------------------------------------------------
(* The pool and the server. *)

Fault == faults < MaxFaults /\ faults' = faults + 1

(* acquire: the connection idle for longest, or else a new one. Its ping   *)
(* uses up a KILL that found the connection idle.                          *)
Take(c) ==
  \/ idle # <<>> /\ c = Head(idle) /\ idle' = Tail(idle) /\ UNCHANGED <<conns, opened>>
  \/ /\ idle = <<>> /\ conns[c].thread = 0 /\ \A d \in 1 .. c - 1 : conns[d].thread # 0
     /\ opened' = opened + 1 /\ conns' = [conns EXCEPT ![c] = Fresh(opened + 1)]
     /\ UNCHANGED idle

Acquire(c) == Take(c) /\ UNCHANGED free

(* A statement on a connection taken and given back for it alone.          *)
Passing == \E c \in Conns : Take(c) /\ free' = free \cup {c}

(* A dropped connection is tested and goes back in a task of its own.      *)
GiveBack(c) ==
  /\ conns' = [conns EXCEPT ![c].killed = FALSE] /\ free' = free \cup {c}
  /\ UNCHANGED <<idle, opened>>

Discard(c) == conns' = [conns EXCEPT ![c] = Fresh(0)] /\ UNCHANGED <<idle, free, opened>>

Returned(c) ==
  /\ c \in free /\ free' = free \ {c} /\ idle' = Append(idle, c)
  /\ UNCHANGED <<job, input, output, conns, opened, user, saved, faults, gaps>>

(* A statement fails: it is killed or refused, or the connection breaks.   *)
Fails(c) ==
  \/ conns[c].killed /\ GiveBack(c) /\ UNCHANGED faults
  \/ Fault /\ (GiveBack(c) \/ Discard(c))

Succeeds(c) == ~conns[c].killed /\ UNCHANGED faults

UpdateStatus(status) == [job EXCEPT !.status = status, !.pc = "ended"]

-----------------------------------------------------------------------------
(* execute_dump. *)

DumpServerVersion ==
  /\ job.pc = "version"
  /\ \/ /\ Passing /\ UNCHANGED faults
        /\ job' = [job EXCEPT !.pc = "create"]
        /\ output' = [output EXCEPT !.header = TRUE, !.transaction = input.transaction]
     \/ /\ Fault /\ job' = [job EXCEPT !.pc = "status", !.result = "err"]
        /\ UNCHANGED <<pool, output>>
  /\ UNCHANGED <<input, user, saved, gaps>>

DumpFails == [job EXCEPT !.pc = "finish", !.result = "err", !.conn = 0]

(* The end of a table: the flag is looked at before the next one.          *)
NextTable(j) ==
  CASE j.cancel_requested -> [j EXCEPT !.pc = "finish", !.result = "cancelled", !.conn = 0]
    [] ~j.cancel_requested /\ j.at = LastTable -> [j EXCEPT !.pc = "finish", !.conn = 0]
    [] OTHER -> [j EXCEPT !.pc = "create", !.at = j.at + 1, !.conn = 0]

DumpStructure ==
  /\ job.pc = "create"
  /\ \/ /\ Passing /\ UNCHANGED faults
        /\ output' = [output EXCEPT !.part[job.at] = IF input.data THEN "structure" ELSE "whole"]
        /\ job' = IF job.cancel_requested \/ ~input.data THEN NextTable(job)
                  ELSE [job EXCEPT !.pc = "acquire"]
     \/ Fault /\ job' = DumpFails /\ UNCHANGED <<pool, output>>
  /\ UNCHANGED <<input, user, saved, gaps>>

DumpAcquire ==
  /\ job.pc = "acquire"
  /\ \/ \E c \in Conns : /\ Acquire(c)
                         /\ job' = [job EXCEPT !.pc = "connid", !.conn = c, !.read = 0, !.batch = 0]
                         /\ UNCHANGED faults
     \/ Fault /\ job' = DumpFails /\ UNCHANGED pool
  /\ UNCHANGED <<input, output, user, saved, gaps>>

DumpConnectionId ==
  /\ job.pc = "connid"
  /\ \/ /\ Succeeds(job.conn) /\ UNCHANGED pool
        /\ job' = [job EXCEPT !.pc = "first", !.mysql_thread_id = conns[job.conn].thread]
     \/ Fails(job.conn) /\ job' = DumpFails
  /\ UNCHANGED <<input, output, user, saved, gaps>>

DumpFirstRow ==
  /\ job.pc = "first"
  /\ \/ /\ Succeeds(job.conn) /\ UNCHANGED <<pool, output, gaps>>
        /\ job' = [job EXCEPT !.pc = "stream", !.read = 1, !.batch = 1]
     \/ /\ Succeeds(job.conn) /\ GiveBack(job.conn)
        /\ output' = [output EXCEPT !.part[job.at] = "whole"]
        /\ job' = NextTable([job EXCEPT !.mysql_thread_id = 0]) /\ UNCHANGED gaps
     \/ /\ Fails(job.conn) /\ job' = DumpFails /\ gaps' = gaps \cup {"leftover"}
        /\ UNCHANGED output
  /\ UNCHANGED <<input, user, saved>>

(* stream_to_dump: a full batch is written and the flag looked at, and the *)
(* table is locked from the first batch to the last.                       *)
DumpFlush ==
  /\ job.pc = "stream" /\ job.batch = BatchSize /\ ~job.cancel_requested
  /\ output' = [output EXCEPT !.lock = TRUE, !.part[job.at] = "part"]
  /\ job' = [job EXCEPT !.batch = 0]
  /\ UNCHANGED <<input, pool, user, saved, faults, gaps>>

DumpRow ==
  /\ job.pc = "stream" /\ job.batch < BatchSize /\ job.read < MaxRows
  /\ Succeeds(job.conn)
  /\ job' = [job EXCEPT !.read = job.read + 1, !.batch = job.batch + 1]
  /\ UNCHANGED <<input, output, pool, user, saved, gaps>>

(* Faulty variant: the thread stays registered after the last row.         *)
DumpStreamEndsRegistered ==
  /\ job.pc = "stream" /\ job.batch < BatchSize /\ Succeeds(job.conn) /\ GiveBack(job.conn)
  /\ output' = [output EXCEPT !.lock = FALSE, !.part[job.at] = "whole"]
  /\ job' = NextTable(job)
  /\ UNCHANGED <<input, user, saved, gaps>>

DumpStreamEnds ==
  /\ job.pc = "stream" /\ job.batch < BatchSize /\ Succeeds(job.conn) /\ GiveBack(job.conn)
  /\ output' = [output EXCEPT !.lock = FALSE, !.part[job.at] = "whole"]
  /\ job' = NextTable([job EXCEPT !.mysql_thread_id = 0])
  /\ UNCHANGED <<input, user, saved, gaps>>

(* A connection whose stream was cut off and killed fails its test.        *)
DumpStreamBreaks ==
  /\ job.pc = "stream" /\ job.batch = BatchSize /\ job.cancel_requested
  /\ IF conns[job.conn].killed THEN Discard(job.conn) ELSE GiveBack(job.conn)
  /\ output' = [output EXCEPT !.lock = FALSE, !.part[job.at] = "part"]
  /\ job' = NextTable([job EXCEPT !.mysql_thread_id = 0])
  /\ UNCHANGED <<input, user, saved, faults, gaps>>

(* Faulty variant: an error skips the UNLOCK.                              *)
DumpStreamFailsLocked ==
  /\ job.pc = "stream" /\ job.batch < BatchSize /\ Fails(job.conn)
  /\ job' = [DumpFails EXCEPT !.mysql_thread_id = 0]
  /\ UNCHANGED <<input, output, user, saved, gaps>>

DumpStreamFails ==
  /\ job.pc = "stream" /\ job.batch < BatchSize /\ Fails(job.conn)
  /\ output' = [output EXCEPT !.lock = FALSE]
  /\ job' = [DumpFails EXCEPT !.mysql_thread_id = 0]
  /\ UNCHANGED <<input, user, saved, gaps>>

DumpFinish ==
  /\ job.pc = "finish"
  /\ output' = [output EXCEPT !.transaction = FALSE, !.footer = TRUE]
  /\ job' = [job EXCEPT !.pc = "status",
                        !.cancel_requested = job.cancel_requested \/ job.result = "cancelled"]
  /\ UNCHANGED <<input, pool, user, saved, faults, gaps>>

(* Faulty variant: only an error keeps a dump from being complete.         *)
DumpStatusByError ==
  /\ job.kind = "dump" /\ job.pc = "status"
  /\ job' = UpdateStatus(IF job.result = "err" THEN "Failed" ELSE "Completed")
  /\ UNCHANGED <<input, output, pool, user, saved, faults, gaps>>

DumpStatus ==
  /\ job.kind = "dump" /\ job.pc = "status"
  /\ job' = UpdateStatus(CASE job.cancel_requested -> "Cancelled"
                           [] job.result = "err" -> "Failed"
                           [] OTHER -> "Completed")
  /\ UNCHANGED <<input, output, pool, user, saved, faults, gaps>>

-----------------------------------------------------------------------------
(* run_copy. The target's pool is the one of a live session; the source is *)
(* another host.                                                           *)

CopyStays == UNCHANGED <<input, user, saved, gaps>>

(* A statement on the pinned connection fails; the error ends the body.    *)
CopyFails(step) ==
  /\ Fault
  /\ \/ UNCHANGED pool /\ job' = [job EXCEPT !.pc = step, !.result = "err"]
     \/ Discard(job.conn) /\ job' = [job EXCEPT !.pc = step, !.result = "err", !.conn = 0]

CopyGivesUp ==
  /\ Fault /\ job' = [job EXCEPT !.pc = "status", !.result = "err", !.conn = 0]
  /\ IF job.conn = 0 THEN UNCHANGED pool ELSE GiveBack(job.conn) \/ Discard(job.conn)

CopyPins ==
  /\ job.pc = "pin"
  /\ \/ \E c \in Conns : Acquire(c) /\ job' = [job EXCEPT !.pc = "prepare", !.conn = c]
                         /\ UNCHANGED faults
     \/ CopyGivesUp
  /\ UNCHANGED output /\ CopyStays

CopyEnsuresDatabase ==
  /\ job.pc = "prepare"
  /\ \/ job' = [job EXCEPT !.pc = "checks"] /\ UNCHANGED <<pool, faults>>
     \/ CopyGivesUp
  /\ UNCHANGED output /\ CopyStays

CopyDisablesChecks ==
  /\ job.pc = "checks"
  /\ \/ /\ conns' = [conns EXCEPT ![job.conn].checks = FALSE]
        /\ job' = [job EXCEPT !.pc = "count"] /\ UNCHANGED <<idle, free, opened, faults>>
     \/ /\ Fault /\ Discard(job.conn)
        /\ job' = [job EXCEPT !.pc = "status", !.result = "err", !.conn = 0]
  /\ UNCHANGED output /\ CopyStays

mark_cancelled == [job EXCEPT !.pc = "restore", !.status = "Cancelled", !.result = "cancelled"]

(* The rows are counted, then the flag is looked at.                       *)
CopyObject ==
  /\ job.pc = "count"
  /\ \/ /\ job' = IF job.cancel_requested THEN mark_cancelled ELSE [job EXCEPT !.pc = "structure"]
        /\ UNCHANGED faults
     \/ Fault /\ job' = [job EXCEPT !.pc = "restore", !.result = "err"]
  /\ UNCHANGED <<pool, output>> /\ CopyStays

NextObject ==
  IF job.at = LastTable THEN [job EXCEPT !.pc = "restore"]
  ELSE [job EXCEPT !.pc = "count", !.at = job.at + 1]

CopyStructure ==
  /\ job.pc = "structure"
  /\ \/ /\ output' = [output EXCEPT !.part[job.at] = IF input.data THEN "structure" ELSE "whole"]
        /\ job' = IF input.data THEN [job EXCEPT !.pc = "rows", !.read = 0, !.batch = 0]
                  ELSE NextObject
        /\ UNCHANGED <<pool, faults>>
     \/ CopyFails("restore") /\ UNCHANGED output
  /\ CopyStays

(* copy_table_data: the flag is looked at before every row. A row that no  *)
(* longer fits has the batch sent first.                                   *)
CopyRow ==
  /\ job.pc = "rows" /\ ~job.cancel_requested /\ job.read < MaxRows
  /\ job' = IF job.batch = BatchSize THEN [job EXCEPT !.read = job.read + 1, !.pc = "flush"]
            ELSE [job EXCEPT !.read = job.read + 1, !.batch = job.batch + 1]
  /\ UNCHANGED <<output, pool, faults>> /\ CopyStays

(* Faulty variant: the last, partial batch is not sent.                    *)
CopyRowsEndUnsent ==
  /\ job.pc = "rows" /\ ~job.cancel_requested
  /\ job' = NextObject
  /\ output' = IF job.batch > 0 THEN output ELSE [output EXCEPT !.part[job.at] = "whole"]
  /\ UNCHANGED <<pool, faults>> /\ CopyStays

CopyRowsEnd ==
  /\ job.pc = "rows" /\ ~job.cancel_requested
  /\ IF job.batch > 0 THEN job' = [job EXCEPT !.pc = "last"] /\ UNCHANGED output
     ELSE job' = NextObject /\ output' = [output EXCEPT !.part[job.at] = "whole"]
  /\ UNCHANGED <<pool, faults>> /\ CopyStays

CopyRowsCancelled ==
  /\ job.pc = "rows" /\ job.cancel_requested /\ job' = mark_cancelled
  /\ UNCHANGED <<output, pool, faults>> /\ CopyStays

(* Faulty variant: an error of the source leaves at once.                  *)
CopyReadFailsAtOnce ==
  /\ job.pc = "rows" /\ ~job.cancel_requested /\ GiveBack(job.conn)
  /\ Fault /\ job' = [job EXCEPT !.pc = "status", !.result = "err", !.conn = 0]
  /\ UNCHANGED output /\ CopyStays

CopyReadFails ==
  /\ job.pc = "rows" /\ ~job.cancel_requested
  /\ Fault /\ job' = [job EXCEPT !.pc = "restore", !.result = "err"]
  /\ UNCHANGED <<output, pool>> /\ CopyStays

CopyFlush ==
  /\ job.pc = "flush"
  /\ \/ /\ output' = [output EXCEPT !.part[job.at] = "part"]
        /\ job' = [job EXCEPT !.pc = "rows", !.batch = 1] /\ UNCHANGED <<pool, faults>>
     \/ CopyFails("restore") /\ UNCHANGED output
  /\ CopyStays

CopyFlushLast ==
  /\ job.pc = "last"
  /\ \/ /\ output' = [output EXCEPT !.part[job.at] = "whole"]
        /\ job' = NextObject /\ UNCHANGED <<pool, faults>>
     \/ CopyFails("restore") /\ UNCHANGED output
  /\ CopyStays

(* The checks are put back whatever the body returned. A refusal is an     *)
(* error of the job, and the connection goes back to the pool as it is.    *)
CopyRestoresChecks ==
  /\ job.pc = "restore"
  /\ \/ /\ job.conn # 0 /\ free' = free \cup {job.conn} /\ UNCHANGED <<idle, opened, faults, gaps>>
        /\ conns' = [conns EXCEPT ![job.conn].checks = TRUE]
        /\ job' = [job EXCEPT !.pc = "status", !.conn = 0]
     \/ job.conn = 0 /\ job' = [job EXCEPT !.pc = "status"] /\ UNCHANGED <<pool, faults, gaps>>
     \/ /\ job.conn # 0 /\ Fault /\ job' = [job EXCEPT !.pc = "status", !.conn = 0, !.result = "err"]
        /\ \/ Discard(job.conn) /\ UNCHANGED gaps
           \/ GiveBack(job.conn) /\ gaps' = gaps \cup {"unrestored"}
  /\ UNCHANGED <<input, output, user, saved>>

(* Faulty variant: the end of the task overwrites the status.              *)
CopyStatusAlways ==
  /\ job.kind = "copy" /\ job.pc = "status"
  /\ job' = UpdateStatus(CASE job.result = "ok" -> "Completed"
                           [] job.result = "cancelled" -> "Cancelled"
                           [] OTHER -> "Failed")
  /\ UNCHANGED <<output, pool, faults>> /\ CopyStays

CopyStatus ==
  /\ job.kind = "copy" /\ job.pc = "status"
  /\ job' = IF job.status # "Running" THEN [job EXCEPT !.pc = "ended"]
            ELSE UpdateStatus(CASE job.result = "ok" -> "Completed"
                                [] job.result = "cancelled" -> "Cancelled"
                                [] OTHER -> "Failed")
  /\ UNCHANGED <<output, pool, faults>> /\ CopyStays

-----------------------------------------------------------------------------
(* execute_sql_import: every statement on a connection of its own. *)

(* What statement s makes of session r, the rows it commits, and when it   *)
(* waits for another session (external).                                   *)
Session(r, s) ==
  CASE s = "autocommit0" -> [r EXCEPT !.autocommit = FALSE]
    [] s = "lock"        -> [r EXCEPT !.lock = TRUE, !.pending = {}]
    [] s = "unlock"      -> [r EXCEPT !.lock = FALSE, !.pending = IF r.lock THEN {} ELSE @]
    [] s = "commit"      -> [r EXCEPT !.pending = {}]
    [] s = "insert"      -> [r EXCEPT !.pending = IF r.autocommit THEN @ ELSE @ \cup {"row"}]

Commits(r, s) ==
  CASE s \in {"lock", "commit"} -> r.pending
    [] s = "unlock" -> IF r.lock THEN r.pending ELSE {}
    [] s = "insert" -> IF r.autocommit THEN {"row"} ELSE {}
    [] OTHER -> {}

Waits(c, s) ==
  \E d \in Conns \ {c} : \/ s \in {"lock", "insert"} /\ conns[d].lock
                         \/ s = "lock" /\ "row" \in conns[d].pending

(* Faulty variant: a file that cannot be read ends the task silently.      *)
ImportReadsQuietly ==
  /\ job.pc = "read"
  /\ \/ job' = [job EXCEPT !.pc = "check"] /\ UNCHANGED faults
     \/ Fault /\ job' = [job EXCEPT !.pc = "dead"]
  /\ UNCHANGED <<input, output, pool, user, saved, gaps>>

ImportReads ==
  /\ job.pc = "read"
  /\ \/ job' = [job EXCEPT !.pc = "check"] /\ UNCHANGED faults
     \/ Fault /\ job' = UpdateStatus("Failed")
  /\ UNCHANGED <<input, output, pool, user, saved, gaps>>

(* The preview of a statement is cut at a byte; inside a character the     *)
(* task panics.                                                            *)
ImportChecks ==
  /\ job.pc = "check"
  /\ job' = CASE job.at > Len(input.script) -> UpdateStatus("Completed")
              [] job.at <= Len(input.script) /\ job.cancel_requested -> UpdateStatus("Cancelled")
              [] OTHER -> [job EXCEPT !.pc = IF input.torn = job.at THEN "dead" ELSE "send"]
  /\ gaps' = IF job'.pc = "dead" THEN gaps \cup {"panicked"} ELSE gaps
  /\ UNCHANGED <<input, output, pool, user, saved, faults>>

(* Faulty variant: stop_on_error is not looked at.                         *)
ImportGoesOn == [job EXCEPT !.pc = "check", !.at = job.at + 1, !.errors = job.errors + 1, !.conn = 0]

ImportStatementFails ==
  IF input.stop THEN [UpdateStatus("Failed") EXCEPT !.errors = job.errors + 1, !.conn = 0]
  ELSE [job EXCEPT !.pc = "check", !.at = job.at + 1, !.errors = job.errors + 1, !.conn = 0]

ImportAcquires ==
  /\ job.pc = "send"
  /\ \/ /\ \E c \in Conns :
             /\ Acquire(c) /\ job' = [job EXCEPT !.pc = "wait", !.conn = c, !.last = conns'[c].thread]
             /\ gaps' = IF job.last \in {0, conns'[c].thread} THEN gaps ELSE gaps \cup {"scattered"}
        /\ UNCHANGED faults
     \/ Fault /\ job' = ImportStatementFails /\ UNCHANGED <<pool, gaps>>
  /\ UNCHANGED <<input, output, user, saved>>

ImportExecutes ==
  /\ job.pc = "wait"
  /\ LET c == job.conn
         s == input.script[job.at]
     IN \/ /\ ~Waits(c, s) /\ Succeeds(c)
           /\ conns' = [conns EXCEPT ![c] = Session(conns[c], s)]
           /\ saved' = saved \cup Commits(conns[c], s)
           /\ free' = free \cup {c} /\ UNCHANGED <<idle, opened, gaps>>
           /\ job' = [job EXCEPT !.pc = "check", !.at = job.at + 1, !.conn = 0]
        \/ /\ Fails(c) /\ job' = ImportStatementFails /\ UNCHANGED saved
           /\ UNCHANGED gaps
  /\ UNCHANGED <<input, output, user>>

-----------------------------------------------------------------------------
(* The row edit, of a table no job works on. *)

EditStarts ==
  /\ edit.pc = "idle" /\ edit.number < MaxEdits
  /\ \E c \in Conns : Acquire(c) /\ edit' = [edit EXCEPT !.pc = "running", !.conn = c]
  /\ UNCHANGED <<job, input, output, cancel, dialog, poll, saved, faults, gaps>>

EditEnds(reply) ==
  edit' = [pc |-> "idle", conn |-> 0, number |-> edit.number + 1, reply |-> reply]

EditSucceeds ==
  /\ edit.pc = "running" /\ Succeeds(edit.conn) /\ ~conns[edit.conn].lock
  /\ conns' = [conns EXCEPT ![edit.conn].pending =
                 IF conns[edit.conn].autocommit THEN @ ELSE @ \cup {"edit"}]
  /\ saved' = IF conns[edit.conn].autocommit THEN saved \cup {"edit"} ELSE saved
  /\ free' = free \cup {edit.conn} /\ EditEnds("ok")
  /\ UNCHANGED <<job, input, output, idle, opened, cancel, dialog, poll, gaps>>

EditFails ==
  /\ edit.pc = "running" /\ EditEnds("error")
  /\ \/ Fails(edit.conn)
     \/ conns[edit.conn].lock /\ GiveBack(edit.conn) /\ UNCHANGED faults
  /\ UNCHANGED <<job, input, output, cancel, dialog, poll, saved, gaps>>

-----------------------------------------------------------------------------
(* The dialog. It stays open while the job runs, and nothing else can be   *)
(* started from the window meanwhile.                                      *)

FirstStep == [dump |-> "version", copy |-> "pin", import |-> "read"]

StartJob ==
  /\ job.pc = "none" /\ job' = [job EXCEPT !.pc = FirstStep[job.kind]]
  /\ dialog' = [dialog EXCEPT !.busy = TRUE, !.polling = TRUE]
  /\ UNCHANGED <<input, output, pool, edit, cancel, poll, saved, faults, gaps>>

(* cancel_dump reads the thread, looks the pool up, reads the thread again *)
(* and sends KILL QUERY; the other two set the flag. An entry that was     *)
(* cleaned up is an error.                                                 *)
CancelPressed ==
  /\ dialog.busy /\ job.pc # "none" /\ (job.kind = "import" \/ ~dialog.cancelPending)
  /\ IF poll = "missing" THEN UNCHANGED <<job, dialog, cancel>>
     ELSE /\ job' = [job EXCEPT !.cancel_requested = TRUE]
          /\ dialog' = [dialog EXCEPT !.cancelPending = job.kind # "import"]
          /\ cancel' = IF job.mysql_thread_id = 0 THEN cancel
                       ELSE [pc |-> "read", thread |-> job.mysql_thread_id]
  /\ UNCHANGED <<input, output, pool, edit, poll, saved, faults, gaps>>

CancelRechecks ==
  /\ cancel.pc = "read"
  /\ cancel' = IF job.mysql_thread_id = cancel.thread THEN [cancel EXCEPT !.pc = "kill"]
               ELSE [pc |-> "none", thread |-> 0]
  /\ UNCHANGED <<job, input, output, pool, edit, dialog, poll, saved, faults, gaps>>

(* A KILL that finds its connection idle does nothing.                     *)
KillArrives ==
  /\ cancel.pc = "kill" /\ cancel' = [pc |-> "none", thread |-> 0]
  /\ conns' = [c \in Conns |->
                 IF conns[c].thread = cancel.thread /\ c \in {job.conn, edit.conn}
                   THEN [conns[c] EXCEPT !.killed = TRUE] ELSE conns[c]]
  /\ UNCHANGED <<job, input, output, idle, free, opened, edit, dialog, poll, saved, faults, gaps>>

(* The machine sleeps for five minutes or longer.                          *)
Sleep ==
  /\ job.status # "Running" /\ dialog.polling /\ ~job.stale
  /\ job' = [job EXCEPT !.stale = TRUE] /\ gaps' = gaps \cup {"slept"}
  /\ UNCHANGED <<input, output, pool, user, saved, faults>>

(* The cleanup comes before the look-up.                                   *)
GetProgress ==
  /\ dialog.polling /\ poll = "none"
  /\ poll' = IF job.stale THEN "missing" ELSE job.status
  /\ UNCHANGED <<job, input, output, pool, edit, cancel, dialog, saved, faults, gaps>>

ProgressReply ==
  /\ poll \notin {"none", "missing"}
  /\ poll' = "none"
  /\ dialog' = CASE poll = "Running" -> dialog
                 [] poll = "Cancelled" -> [busy |-> FALSE, polling |-> FALSE, cancelPending |-> FALSE]
                 [] OTHER -> [dialog EXCEPT !.busy = FALSE, !.polling = FALSE]
  /\ UNCHANGED <<job, input, output, pool, edit, cancel, saved, faults, gaps>>

-----------------------------------------------------------------------------
Dump == \/ DumpServerVersion \/ DumpStructure \/ DumpAcquire \/ DumpConnectionId
        \/ DumpFirstRow \/ DumpFlush \/ DumpRow \/ DumpStreamEnds \/ DumpStreamBreaks
        \/ DumpStreamFails \/ DumpFinish \/ DumpStatus

Copy == \/ CopyPins \/ CopyEnsuresDatabase \/ CopyDisablesChecks \/ CopyObject
        \/ CopyStructure \/ CopyRow \/ CopyRowsEnd \/ CopyRowsCancelled \/ CopyReadFails
        \/ CopyFlush \/ CopyFlushLast \/ CopyRestoresChecks \/ CopyStatus

Import == ImportReads \/ ImportChecks \/ ImportAcquires \/ ImportExecutes

Edit == EditStarts \/ EditSucceeds \/ EditFails

Dialog == \/ StartJob \/ CancelPressed \/ CancelRechecks \/ KillArrives \/ Sleep
          \/ GetProgress \/ ProgressReply

Next == Dump \/ Copy \/ Import \/ Edit \/ Dialog \/ \E c \in Conns : Returned(c)

(* Tokio runs the job and gives connections back, the server answers, and  *)
(* the interval of the dialog fires. Nobody has to press cancel, edit a    *)
(* row or let the machine sleep.                                           *)
Fairness ==
  /\ WF_vars(Dump) /\ WF_vars(Copy) /\ WF_vars(Import)
  /\ WF_vars(EditSucceeds \/ EditFails)
  /\ WF_vars(GetProgress) /\ WF_vars(ProgressReply)
  /\ \A c \in Conns : WF_vars(Returned(c))

Spec == Init /\ [][Next]_vars /\ Fairness

-----------------------------------------------------------------------------
(* Properties. *)

Whole == \A t \in Tables : output.part[t] = "whole"

(* A dump or a copy that is reported as completed transferred every table  *)
(* to its last row, and an import that reports no error committed its      *)
(* rows, as long as its statements met on one connection.                  *)
CompletedIsWhole ==
  job.status = "Completed" =>
    IF job.kind = "import"
      THEN /\ input.stop => job.errors = 0
           /\ job.errors = 0 /\ "scattered" \notin gaps => "row" \in saved
      ELSE Whole

(* A dump file that got its header ends with its footer when the job ends, *)
(* however it ends, with no table locked and no transaction left open.     *)
DumpIsWellFormed ==
  job.kind = "dump" /\ job.pc = "ended" /\ output.header =>
    output.footer /\ ~output.lock /\ ~output.transaction

(* The thread a cancel would kill is the one the dump streams from, except *)
(* after a first fetch that failed.                                        *)
ThreadIsOwn ==
  job.mysql_thread_id # 0 /\ "leftover" \notin gaps =>
    job.conn # 0 /\ conns[job.conn].thread = job.mysql_thread_id

(* A copy leaves the foreign-key checks on in the session it borrowed from *)
(* the target's pool, on every way out, or else the server refused to turn *)
(* them on and the copy is not reported as completed.                      *)
ChecksRestored ==
  job.kind = "copy" =>
    \A c \in Conns \ {job.conn} :
       conns[c].checks \/ ("unrestored" \in gaps /\ job.status # "Completed")

TransferInv ==
  TypeOK /\ CompletedIsWhole /\ DumpIsWellFormed /\ ThreadIsOwn /\ ChecksRestored

(* Once a job is reported as ended, its outcome does not change, whatever  *)
(* cancel, failed clean-up or late step follows.                           *)
EndedTransferIsFinal == [][job.status # "Running" => job'.status = job.status]_vars

(* An import's statement waits for a lock that an earlier statement left   *)
(* in another session of the pool.                                         *)
LockedOut == job.pc = "wait" /\ Waits(job.conn, input.script[job.at])

(* A job that was started ends, and its dialog, which cannot be dismissed, *)
(* lets go of the window, unless an import has locked itself out or        *)
(* panicked, or the machine slept at the wrong time.                       *)
TransferEnds ==
  (job.pc # "none") ~> (~dialog.busy \/ LockedOut \/ gaps \cap {"panicked", "slept"} # {})

(* A job ends, and stays as it ended.                                      *)
TransferSettles == EndedTransferIsFinal /\ TransferEnds

-----------------------------------------------------------------------------
(* What does not hold; each has a configuration that shows how.            *)

(* A KILL QUERY of a dump's cancel meets the dump, as the comment on the   *)
(* second look at the thread id wants.                                     *)
KillSparesOthers == \A c \in Conns : conns[c].killed => c = job.conn

(* An edit that the server accepted is committed.                          *)
EditIsCommitted == edit.reply = "ok" => "edit" \in saved

(* An import never waits for itself.                                       *)
NeverLockedOut == ~LockedOut
=============================================================================
