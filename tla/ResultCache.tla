----------------------------- MODULE ResultCache -----------------------------
(***************************************************************************)
(* GenericCache of mysql/result_cache.rs: the results of one tab in a moka *)
(* cache, their spill file on disk and the worker thread that writes it.   *)
(*                                                                         *)
(* No lock spans an operation: every field has its own, so an operation is *)
(* a sequence of steps and any other one may run between two of them.  The *)
(* model follows one key (connection, tab); other keys only delay the      *)
(* worker.  A value is the number of the run that produced it and the      *)
(* number of cell edits applied to it.                                     *)
(*                                                                         *)
(* The moka cache (external) calls the eviction listener for an entry that *)
(* leaves it before the next write of that key.  Steps next to each other  *)
(* that no other operation can tell apart are one action.                  *)
(***************************************************************************)
EXTENDS Integers, Sequences

CONSTANTS Clients,    \* backend tasks that work on the tab's results
          Operations, \* what they do: "store", "fetch", "edit", "reexecute", "close"
          MaxRuns,    \* bound: results stored
          MaxEdits,   \* bound: cell edits of one result
          MaxGen,     \* bound: generation tokens handed out
          None

ASSUME BoundsAssumption ==
    /\ MaxRuns \in Nat /\ MaxEdits \in Nat /\ MaxGen \in Nat
    /\ Operations \subseteq {"store", "fetch", "edit", "reexecute", "close"}

VARIABLES
    entry,               \* the moka entry of the key, or None
    known,               \* known_keys contains the key
    generation,          \* generations entry of the key, 0 when absent
    invalidation,        \* invalidation_versions entry of the key
    cleaned,             \* cleaned_keys contains the key
    next_generation,
    spill_file,          \* what the spill file holds, or None
    spillable,           \* generations in spillable_removals
    jobs,                \* queue of the spill worker
    writing,             \* job that passed the worker's checks, or None
    pressure,            \* generation marked by RAM-pressure eviction, or 0
    client,              \* per client: where it is and its local variables
    runs,                \* results produced so far
    newest,              \* history: the value a reader should get, or None
    raced,               \* history: unlocked gaps in which something went wrong
    timely               \* history: the job was right when the worker checked it

cacheVars  == <<entry, known, generation, invalidation, cleaned, next_generation>>
spillVars  == <<spill_file, spillable, jobs, writing, pressure>>
clientVars == <<client, runs>>
ghostVars  == <<newest, raced, timely>>
vars == <<cacheVars, spillVars, clientVars, ghostVars>>

Gens   == 1 .. MaxGen
Value  == [run : 1 .. MaxRuns, edits : 0 .. MaxEdits]
Entry  == [val : Value, gen : Gens, expired : BOOLEAN]
Job    == [val : Value, gen : Gens]

ASSUME NoneAssumption ==
    None \notin Value /\ None \notin Entry /\ None \notin Job

Labels == {"idle", "check", "clear", "put", "record", "get", "read", "rewarm",
           "rewarm_put", "rewarm_record", "modify", "write", "invalidate", "forget"}

\* held: the value it works with; gen: the token it took; base: the run whose
\* result the user works on; expected: the invalidation version it read;
\* fresh (history): what it relies on was true when it looked.
Client == [pc : Labels, op : {"store", "fetch", "edit", "reexecute", "close"},
           held : Value \cup {None}, gen : 0 .. MaxGen, base : 0 .. MaxRuns,
           expected : 0 .. MaxGen, fresh : BOOLEAN]

Idle == [pc |-> "idle", op |-> "fetch", held |-> None, gen |-> 0, base |-> 0,
         expected |-> 0, fresh |-> TRUE]

Init ==
    /\ entry = None /\ known = FALSE /\ generation = 0
    /\ invalidation = 0 /\ cleaned = FALSE /\ next_generation = 1
    /\ spill_file = None /\ spillable = {} /\ jobs = << >> /\ writing = None /\ pressure = 0
    /\ client = [c \in Clients |-> Idle] /\ runs = 0
    /\ newest = None /\ raced = {} /\ timely = TRUE

Goto(c, label) == client' = [client EXCEPT ![c].pc = label]
Finish(c)      == client' = [client EXCEPT ![c] = Idle]
AtStep(c, label) == client[c].pc = label
Unrecorded == {"record", "forget"}  \* the generation of an old entry is still there
At(labels)     == {c \in Clients : client[c].pc \in labels}

\* History: something went wrong in gap g.
Mark(g, wrong) == raced' = IF wrong THEN raced \cup {g} ELSE raced

NewGeneration == /\ next_generation <= MaxGen
                 /\ next_generation' = next_generation + 1

(***************************************************************************)
(* The moka cache and its eviction listener.                               *)
(***************************************************************************)
Live == entry # None /\ ~entry.expired

\* The entry leaves the cache: an expired one is spilled, an invalidated one
\* only if it was marked, none of a cleaned key.
Drop(explicit) ==
    /\ entry' = None
    /\ IF cleaned \/ (explicit /\ entry.gen \notin spillable)
       THEN UNCHANGED <<spillable, jobs>>
       ELSE /\ spillable' = spillable \cup {entry.gen}
            /\ jobs' = Append(jobs, [val |-> entry.val, gen |-> entry.gen])

\* The entry was not used for the time-to-idle; readers no longer see it.  An
\* entry outlives the rest of the operation that stored it.
Expire ==
    /\ Live
    /\ At({"record", "rewarm_record"}) = {}
    /\ entry' = [entry EXCEPT !.expired = TRUE]
    /\ UNCHANGED <<known, generation, invalidation, cleaned, next_generation, spillVars,
                   clientVars, ghostVars>>

\* Pending moka tasks run: the expired entry is dropped.
Evict ==
    /\ entry # None /\ entry.expired
    /\ Drop(FALSE)
    /\ UNCHANGED <<known, generation, invalidation, cleaned, next_generation, spill_file,
                   writing, pressure, clientVars, ghostVars>>

(***************************************************************************)
(* run_maintenance under RAM pressure: mark the generation, then drop.     *)
(***************************************************************************)
\* Faulty variant: the generation is not marked before the entry is dropped.
DropsUnmarked ==
    /\ pressure = 0 /\ generation # 0
    /\ pressure' = generation
    /\ UNCHANGED <<cacheVars, spill_file, spillable, jobs, writing, clientVars, ghostVars>>

PressureMark ==
    /\ pressure = 0 /\ generation # 0
    /\ pressure' = generation
    /\ spillable' = spillable \cup {generation}
    /\ UNCHANGED <<cacheVars, spill_file, jobs, writing, clientVars, ghostVars>>

PressureDrop ==
    /\ pressure # 0
    /\ pressure' = 0
    /\ IF entry = None THEN UNCHANGED <<entry, spillable, jobs, raced>>
       ELSE Drop(TRUE) /\ Mark("pressure", ~cleaned /\ entry.gen # pressure)
    /\ UNCHANGED <<known, generation, invalidation, cleaned, next_generation, spill_file,
                   writing, clientVars, newest, timely>>

(***************************************************************************)
(* The spill worker.                                                       *)
(***************************************************************************)
\* Faulty variant: the worker writes every job it gets.
WritesEveryJob(job) == TRUE

StillSpillable(job) == job.gen \in spillable /\ job.gen = generation

\* The worker checks marker and generation of the next job, each under its lock.
TakeJob ==
    /\ writing = None /\ jobs # << >>
    /\ jobs' = Tail(jobs)
    /\ LET job == Head(jobs)
       IN  IF StillSpillable(job)
           THEN /\ writing' = job
                /\ timely' = (job.val = newest)
                /\ Mark("spill", job.val # newest /\ At(Unrecorded) # {})
                /\ UNCHANGED spillable
           ELSE /\ spillable' = spillable \ {job.gen}
                /\ UNCHANGED <<writing, raced, timely>>
    /\ UNCHANGED <<cacheVars, spill_file, pressure, clientVars, newest>>

\* The file is written, without another look at the key.
WriteSpill ==
    /\ writing # None
    /\ spill_file' = writing.val
    /\ spillable' = spillable \ {writing.gen}
    /\ writing' = None
    /\ Mark("spill", timely /\ (writing.val # newest \/ At({"clear", "put"}) # {}))
    /\ timely' = TRUE
    /\ UNCHANGED <<cacheVars, jobs, pressure, clientVars, newest>>

(***************************************************************************)
(* insert_if_current: the result of a run or a table page is stored.       *)
(***************************************************************************)
BeginStore(c) ==
    /\ AtStep(c, "idle")
    /\ client' = [client EXCEPT ![c].pc = "check", ![c].op = "store",
                                ![c].expected = invalidation]
    /\ UNCHANGED <<cacheVars, spillVars, runs, ghostVars>>

VersionMatches(c) == client[c].expected = invalidation

CheckRefuses(c) ==
    /\ AtStep(c, "check")
    /\ ~VersionMatches(c)
    /\ Finish(c)
    /\ UNCHANGED <<cacheVars, spillVars, runs, ghostVars>>

\* The version still matches: take a generation, delete the spill file.
CheckVersion(c) ==
    /\ AtStep(c, "check")
    /\ VersionMatches(c)
    /\ runs < MaxRuns /\ NewGeneration
    /\ runs' = runs + 1
    /\ spill_file' = None
    /\ client' = [client EXCEPT ![c].pc = "clear", ![c].gen = next_generation,
                                ![c].held = [run |-> runs + 1, edits |-> 0],
                                ![c].fresh = (client[c].expected = invalidation)]
    /\ UNCHANGED <<entry, known, generation, invalidation, cleaned, spillable, jobs,
                   writing, pressure, ghostVars>>

ClearMarkers(c) ==
    /\ AtStep(c, "clear")
    /\ spillable' = {}
    /\ cleaned' = FALSE
    /\ Goto(c, "put")
    /\ UNCHANGED <<entry, known, generation, invalidation, next_generation, spill_file,
                   jobs, writing, pressure, runs, ghostVars>>

\* cache.insert; the entry it replaces is not spilled.
Put(c) ==
    /\ AtStep(c, "put")
    /\ entry' = [val |-> client[c].held, gen |-> client[c].gen, expired |-> FALSE]
    /\ newest' = IF client[c].expected = invalidation THEN client[c].held ELSE newest
    /\ Mark("late", client[c].fresh /\ client[c].expected # invalidation)
    /\ Goto(c, "record")
    /\ UNCHANGED <<known, generation, invalidation, cleaned, next_generation, spillVars,
                   runs, timely>>

\* History: another operation took the entry away before its generation is recorded.
Overtaken(c) == entry = None \/ entry.gen # client[c].gen

Record(c) ==
    /\ AtStep(c, "record")
    /\ known' = TRUE
    /\ generation' = client[c].gen
    /\ Mark("overlap", Overtaken(c))
    /\ Finish(c)
    /\ UNCHANGED <<entry, invalidation, cleaned, next_generation, spillVars, runs, newest,
                   timely>>

(***************************************************************************)
(* get: the entry, or the spill file brought back into the cache.          *)
(***************************************************************************)
BeginGet(c, o, run) ==
    /\ AtStep(c, "idle")
    /\ client' = [client EXCEPT ![c].pc = "get", ![c].op = o, ![c].base = run,
                                ![c].expected = invalidation]
    /\ UNCHANGED <<cacheVars, spillVars, runs, ghostVars>>

\* What the caller does with the result: it reads rows, goes on to edit a cell,
\* or, its query id still matching, to insert the result of a re-execution.
Got(c, val) ==
    \/ client[c].op = "fetch" /\ Finish(c)
    \/ client[c].op = "edit" /\ Goto(c, "modify")
    \/ /\ client[c].op = "reexecute" /\ val.run = client[c].base
       /\ client' = [client EXCEPT ![c].pc = "check", ![c].expected = invalidation]
    \/ client[c].op = "reexecute" /\ val.run # client[c].base /\ Finish(c)

\* Without an entry only a key of known_keys has its spill file looked for.
Lookup(c) ==
    /\ AtStep(c, "get")
    /\ \/ Live /\ Got(c, entry.val)
       \/ ~Live /\ known /\ Goto(c, "read")
       \/ ~Live /\ ~known /\ Finish(c)
    /\ UNCHANGED <<cacheVars, spillVars, runs, ghostVars>>

\* Faulty variant: a missing file is read like an empty one.
ReadsMissingFile(c) ==
    /\ AtStep(c, "read")
    /\ client' = [client EXCEPT ![c].pc = "rewarm", ![c].held = spill_file]
    /\ UNCHANGED <<cacheVars, spillVars, runs, ghostVars>>

ReadSpill(c) ==
    /\ AtStep(c, "read")
    /\ IF spill_file = None THEN Finish(c)
       ELSE client' = [client EXCEPT ![c].pc = "rewarm", ![c].held = spill_file,
                           ![c].fresh = (spill_file = newest \/ At({"forget"}) # {})]
    /\ UNCHANGED <<cacheVars, spillVars, runs, ghostVars>>

\* The file is removed and a generation taken.
Rewarm(c) ==
    /\ AtStep(c, "rewarm")
    /\ NewGeneration
    /\ spill_file' = None
    /\ client' = [client EXCEPT ![c].pc = "rewarm_put", ![c].gen = next_generation]
    /\ Mark("rewarm", client[c].fresh /\ {spill_file, newest} # {client[c].held})
    /\ UNCHANGED <<entry, known, generation, invalidation, cleaned, spillable, jobs,
                   writing, pressure, runs, newest, timely>>

RewarmPut(c) ==
    /\ AtStep(c, "rewarm_put")
    /\ entry' = [val |-> client[c].held, gen |-> client[c].gen, expired |-> FALSE]
    /\ Mark("rewarm", client[c].fresh /\ client[c].held # newest)
    /\ Goto(c, "rewarm_record")
    /\ UNCHANGED <<known, generation, invalidation, cleaned, next_generation, spillVars,
                   runs, newest, timely>>

RewarmRecord(c) ==
    /\ AtStep(c, "rewarm_record")
    /\ generation' = client[c].gen
    /\ Mark("overlap", Overtaken(c))
    /\ Got(c, client[c].held)
    /\ UNCHANGED <<entry, known, invalidation, cleaned, next_generation, spillVars, runs,
                   newest, timely>>

(***************************************************************************)
(* modify_slot_in_place_if_current under in_place_write_lock.              *)
(***************************************************************************)
WriteLockFree == At({"write"}) = {}

Editable(c) == VersionMatches(c) /\ Live /\ entry.val.run = client[c].base

Modify(c) ==
    /\ AtStep(c, "modify")
    /\ WriteLockFree
    /\ IF ~Editable(c) THEN Finish(c)
       ELSE /\ entry.val.edits < MaxEdits
            /\ client' = [client EXCEPT ![c].pc = "write", ![c].held = entry.val,
                              ![c].gen = entry.gen, ![c].fresh = (entry.val = newest)]
    /\ UNCHANGED <<cacheVars, spillVars, runs, ghostVars>>

\* The edited clone replaces whatever the cache holds by now.
WriteBack(c) ==
    /\ AtStep(c, "write")
    /\ LET edited == [client[c].held EXCEPT !.edits = @ + 1]
           same   == newest # None /\ newest.run = edited.run
       IN  /\ entry' = [val |-> edited, gen |-> client[c].gen, expired |-> FALSE]
           /\ newest' = IF same /\ newest.edits < MaxEdits
                        THEN [newest EXCEPT !.edits = @ + 1] ELSE newest
    /\ Mark("edit", client[c].fresh /\ Overtaken(c))
    /\ Finish(c)
    /\ UNCHANGED <<known, generation, invalidation, cleaned, next_generation, spillVars,
                   runs, timely>>

(***************************************************************************)
(* remove_with_spill_cleanup: the tab is closed.                           *)
(***************************************************************************)
BeginClose(c) ==
    /\ AtStep(c, "idle")
    /\ NewGeneration
    /\ invalidation' = next_generation
    /\ cleaned' = TRUE
    /\ client' = [client EXCEPT ![c].pc = "invalidate", ![c].op = "close"]
    /\ UNCHANGED <<entry, known, generation, spillVars, runs, ghostVars>>

Invalidate(c) ==
    /\ AtStep(c, "invalidate")
    /\ IF entry = None THEN UNCHANGED <<entry, spillable, jobs>> ELSE Drop(TRUE)
    /\ newest' = None
    /\ Goto(c, "forget")
    /\ UNCHANGED <<known, generation, invalidation, cleaned, next_generation, spill_file,
                   writing, pressure, runs, raced, timely>>

\* Faulty variant: the spill file is left behind.
LeavesSpillFile(c) ==
    /\ AtStep(c, "forget")
    /\ known' = FALSE
    /\ generation' = 0
    /\ spillable' = {}
    /\ Mark("late", {entry, newest} # {None})
    /\ Finish(c)
    /\ UNCHANGED <<entry, invalidation, cleaned, next_generation, spill_file, jobs, writing,
                   pressure, runs, newest, timely>>

Forget(c) ==
    /\ AtStep(c, "forget")
    /\ spill_file' = None
    /\ known' = FALSE
    /\ generation' = 0
    /\ spillable' = {}
    /\ Mark("late", {entry, newest} # {None})
    /\ Finish(c)
    /\ UNCHANGED <<entry, invalidation, cleaned, next_generation, jobs, writing, pressure,
                   runs, newest, timely>>

Begin(c) ==
    \/ "store" \in Operations /\ BeginStore(c)
    \/ "fetch" \in Operations /\ BeginGet(c, "fetch", 0)
    \/ \E o \in Operations \cap {"edit", "reexecute"}, run \in 1 .. runs : BeginGet(c, o, run)
    \/ "close" \in Operations /\ BeginClose(c)

Step(c) ==
    \/ CheckRefuses(c) \/ CheckVersion(c) \/ ClearMarkers(c) \/ Put(c) \/ Record(c)
    \/ Lookup(c) \/ ReadSpill(c) \/ Rewarm(c) \/ RewarmPut(c) \/ RewarmRecord(c)
    \/ Modify(c) \/ WriteBack(c) \/ Invalidate(c) \/ Forget(c)

Next ==
    \/ \E c \in Clients : Begin(c) \/ Step(c)
    \/ Expire \/ Evict \/ PressureMark \/ PressureDrop \/ TakeJob \/ WriteSpill

Spec == Init /\ [][Next]_vars

(***************************************************************************)
(* Properties.                                                             *)
(***************************************************************************)
TypeOK ==
    /\ entry \in Entry \cup {None}
    /\ {spill_file, newest} \subseteq Value \cup {None}
    /\ known \in BOOLEAN /\ cleaned \in BOOLEAN /\ timely \in BOOLEAN
    /\ {generation, invalidation, pressure} \subseteq 0 .. MaxGen
    /\ spillable \subseteq Gens
    /\ next_generation \in 1 .. MaxGen + 1
    /\ jobs \in Seq(Job) /\ writing \in Job \cup {None}
    /\ runs \in 0 .. MaxRuns
    /\ client \in [Clients -> Client]

\* Unless one of the unlocked gaps was hit, nothing but the newest state of the
\* tab's result is in the cache, in its spill file, or in a spill job that the
\* worker would still write.
OnlyNewestIsKept ==
    raced = {} =>
        /\ entry # None => entry.val = newest
        /\ spill_file # None => spill_file = newest \/ At({"forget"}) # {}
        /\ \A i \in DOMAIN jobs :
               StillSpillable(jobs[i])
                   => jobs[i].val = newest \/ At(Unrecorded) # {}

\* Unless one of the unlocked gaps was hit, the newest state of the result is
\* somewhere a reader will find it: in the cache, in the file, on the way to the
\* file, or in the hands of the reader that brings it back; or it is being
\* replaced or closed.
NewestIsKept ==
    raced = {} /\ newest # None =>
        \/ entry # None /\ entry.val = newest
        \/ spill_file = newest
        \/ writing # None /\ writing.val = newest
        \/ \E i \in DOMAIN jobs : StillSpillable(jobs[i]) /\ jobs[i].val = newest
        \/ \E c \in At({"rewarm_put"}) : client[c].held = newest
        \/ At({"clear", "put", "invalidate"}) # {}

\* Unless one of the unlocked gaps was hit, a closed tab leaves nothing behind
\* once the operations that were under way have ended.
ClosedTabIsForgotten ==
    raced = {} /\ newest = None /\ writing = None /\ At(Labels \ {"idle"}) = {} =>
        /\ entry = None /\ spill_file = None /\ ~known
        /\ \A i \in DOMAIN jobs : ~StillSpillable(jobs[i])

\* The newest state of the result is kept, no other, and none of a closed tab.
CacheInv == TypeOK /\ OnlyNewestIsKept /\ NewestIsKept /\ ClosedTabIsForgotten

\* A re-execution replaces only the result it was started from.
ReexecutionKeepsNewerRun ==
    [][\A c \in Clients : Put(c) /\ client[c].op = "reexecute"
                             => newest = None \/ newest.run = client[c].base]_vars
=============================================================================
