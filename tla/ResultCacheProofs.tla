------------------------- MODULE ResultCacheProofs -------------------------
(***************************************************************************)
(* Proofs about ResultCache, for any number of clients, runs, edits and    *)
(* generation tokens.                                                      *)
(*                                                                         *)
(* IInv holds whatever happens in the unlocked gaps: which tokens and runs *)
(* were handed out, and that the generation of an entry that is not yet    *)
(* recorded is nobody else's.  CInv is what holds as long as no gap was    *)
(* hit; it has the properties of ResultCache as parts.                     *)
(***************************************************************************)
EXTENDS ResultCache, TLAPS

----------
(* Where a client is. *)

\* It took a generation and its value is not in the cache yet.
Holds(c) == client[c].pc \in {"clear", "put", "rewarm_put"}

\* Its generation is not recorded yet.
Pending(c) == Holds(c) \/ client[c].pc \in {"record", "rewarm_record"}

\* It works with a value.
Carries(c) == Pending(c) \/ client[c].pc \in {"rewarm", "write"}

\* It brings a new result.
Stores(c) == client[c].pc \in {"clear", "put"}

Some(labels) == \E c \in Clients : client[c].pc \in labels

----------
(* What holds whatever happens in the gaps. *)

HandsInv ==
  \A c \in Clients :
    /\ Carries(c) => client[c].held \in Value
    /\ Pending(c) => client[c].gen \in Gens
    /\ client[c].pc = "write" => client[c].gen \in Gens
    /\ Stores(c) => client[c].fresh = TRUE

\* Every token in use was handed out.
IssuedInv ==
  /\ invalidation < next_generation /\ generation < next_generation
  /\ pressure < next_generation
  /\ \A g \in spillable : g < next_generation
  /\ entry # None => entry.gen < next_generation
  /\ writing # None => writing.gen < next_generation
  /\ \A i \in DOMAIN jobs : jobs[i].gen < next_generation
  /\ \A c \in Clients : client[c].expected < next_generation
                        /\ client[c].gen < next_generation

\* A generation that is not recorded yet is in the hands of one client, and in the cache
\* at most; its entry did not expire.
PendingInv ==
  \A c \in Clients : Pending(c) =>
    /\ client[c].gen # generation /\ client[c].gen # pressure
    /\ client[c].gen \notin spillable
    /\ writing # None => writing.gen # client[c].gen
    /\ \A i \in DOMAIN jobs : jobs[i].gen # client[c].gen
    /\ \A d \in Clients : d # c /\ Pending(d) => client[d].gen # client[c].gen
    /\ Holds(c) => /\ entry # None => entry.gen # client[c].gen
                   /\ \A d \in Clients : client[d].pc = "write" => client[d].gen # client[c].gen
    /\ ~Holds(c) => entry = None \/ entry.expired = FALSE

\* Every result known has the number of a run that ended; that of one about to be stored
\* is nowhere else.
RunsInv ==
  /\ entry # None => entry.val.run <= runs
  /\ writing # None => writing.val.run <= runs
  /\ spill_file # None => spill_file.run <= runs
  /\ newest # None => newest.run <= runs
  /\ \A i \in DOMAIN jobs : jobs[i].val.run <= runs
  /\ \A c \in Clients : Carries(c) => client[c].held.run <= runs
  /\ \A c \in Clients : Stores(c) =>
       /\ entry # None => entry.val.run # client[c].held.run
       /\ writing # None => writing.val.run # client[c].held.run
       /\ newest # None => newest.run # client[c].held.run
       /\ spill_file # None => spill_file.run # client[c].held.run
       /\ \A i \in DOMAIN jobs : jobs[i].val.run # client[c].held.run
       /\ \A d \in Clients : d # c /\ Carries(d) => client[d].held.run # client[c].held.run

\* One client writes back at a time, and the entry it read is the one of its generation.
LockInv ==
  \A c \in Clients : client[c].pc = "write" =>
    /\ \A d \in Clients : client[d].pc = "write" => d = c
    /\ client[c].held.edits < MaxEdits
    /\ entry # None /\ entry.gen = client[c].gen => entry.val = client[c].held

IInv == TypeOK /\ HandsInv /\ IssuedInv /\ PendingInv /\ RunsInv /\ LockInv

----------
(* What holds as long as no gap was hit. *)

Calm    == raced = {}
Closing == Some({"forget"})

\* The value is not the newest and will not become it.
Stale(v) == newest = None \/ v.run # newest.run \/ v.edits < newest.edits

\* A generation belongs to one entry: in the cache, in one job, or being written.
MovesInv ==
  /\ \A i, j \in DOMAIN jobs : jobs[i].gen = jobs[j].gen => i = j
  /\ writing # None => \A i \in DOMAIN jobs : jobs[i].gen # writing.gen
  /\ entry # None => \A i \in DOMAIN jobs : jobs[i].gen # entry.gen
  /\ entry # None /\ writing # None => writing.gen # entry.gen

\* The entry is the newest value, its generation is recorded or about to be, and marked
\* while it is to be dropped for RAM pressure.
EntryInv ==
  entry # None =>
    /\ entry.val = newest
    /\ \/ entry.gen = generation
       \/ \E c \in Clients : client[c].pc \in {"record", "rewarm_record"}
                             /\ client[c].gen = entry.gen
    /\ pressure = entry.gen => pressure \in spillable \/ Some({"put"})

\* File and jobs of the recorded generation hold the newest value.
SpillInv ==
  /\ spill_file # None => spill_file = newest \/ Closing
  /\ \A i \in DOMAIN jobs : jobs[i].gen = generation =>
       jobs[i].val = newest \/ Some({"record", "forget"})
  /\ Some({"clear", "put"}) => spill_file = None
  /\ writing # None => timely = TRUE
  /\ \A c \in Clients : client[c].pc \in {"rewarm", "rewarm_put", "write"}
                          => client[c].fresh = TRUE

\* The newest value is somewhere.
KeptInv ==
  newest # None =>
    \/ entry # None
    \/ spill_file = newest
    \/ writing # None /\ writing.val = newest
    \/ \E i \in DOMAIN jobs : StillSpillable(jobs[i]) /\ jobs[i].val = newest
    \/ \E c \in Clients : client[c].pc = "rewarm_put" /\ client[c].held = newest
    \/ Some({"clear", "put", "invalidate"})

ClosedInv ==
  /\ cleaned = TRUE => newest = None \/ Some({"invalidate"})
  /\ \A c \in Clients : client[c].pc = "put" /\ client[c].expected = invalidation
                          => cleaned = FALSE
  /\ known = TRUE /\ newest = None => Closing

\* One copy of the newest value exists, unless the tab is being closed.
EntryAlone ==
  entry # None => /\ spill_file = None
                  /\ writing # None => Stale(writing.val)
                  /\ \A i \in DOMAIN jobs : Stale(jobs[i].val)
                  /\ \A c \in Clients : client[c].pc = "rewarm_put" => Stale(client[c].held)

FileAlone ==
  spill_file # None => /\ writing # None => Stale(writing.val)
                       /\ \A i \in DOMAIN jobs : Stale(jobs[i].val)
                       /\ \A c \in Clients : client[c].pc = "rewarm_put" => Stale(client[c].held)

WritingAlone ==
  writing # None /\ ~Stale(writing.val) =>
    /\ \A i \in DOMAIN jobs : Stale(jobs[i].val)
    /\ \A c \in Clients : client[c].pc = "rewarm_put" => Stale(client[c].held)

JobAlone ==
  \A i \in DOMAIN jobs : ~Stale(jobs[i].val) =>
    /\ \A j \in DOMAIN jobs : j # i => Stale(jobs[j].val)
    /\ \A c \in Clients : client[c].pc = "rewarm_put" => Stale(client[c].held)

ReaderAlone ==
  \A c, d \in Clients : c # d /\ client[c].pc = "rewarm_put" /\ client[d].pc = "rewarm_put"
    => Stale(client[c].held) \/ Stale(client[d].held)

OneCopy == EntryAlone /\ FileAlone /\ WritingAlone /\ JobAlone /\ ReaderAlone

CalmInv == /\ MovesInv /\ EntryInv /\ SpillInv /\ KeptInv /\ ClosedInv
           /\ Closing \/ OneCopy

CInv == Calm => CalmInv

----------
(* Types. *)

LEMMA ValueFacts ==
  ASSUME NEW v \in Value
  PROVE  v # None /\ v.run \in Nat /\ v.edits \in Nat /\ v.run # 0
BY NoneAssumption, BoundsAssumption DEF Value

LEMMA GenFacts ==
  ASSUME NEW g \in Gens
  PROVE  g \in Nat /\ g # 0
BY BoundsAssumption DEF Gens

IsValue(v) == v \in Value /\ v # None /\ v.run \in Nat /\ v.edits \in Nat

IsGen(g) == g \in Gens /\ g \in Nat /\ g # 0

\* The types of what the places hold.
Typed ==
  /\ entry # None => entry \in Entry /\ IsValue(entry.val) /\ IsGen(entry.gen)
  /\ writing # None => writing \in Job /\ IsValue(writing.val) /\ IsGen(writing.gen)
  /\ spill_file # None => IsValue(spill_file)
  /\ newest # None => IsValue(newest)
  /\ \A i \in DOMAIN jobs : jobs[i] \in Job /\ IsValue(jobs[i].val) /\ IsGen(jobs[i].gen)
  /\ jobs \in Seq(Job) /\ spillable \subseteq Gens /\ \A g \in spillable : IsGen(g)
  /\ runs \in Nat /\ next_generation \in Nat /\ generation \in Nat /\ invalidation \in Nat
  /\ pressure \in Nat /\ next_generation # 0
  /\ \A c \in Clients : client[c] \in Client /\ client[c].gen \in Nat
                        /\ client[c].expected \in Nat
  /\ \A c \in Clients : Carries(c) => IsValue(client[c].held)
  /\ \A c \in Clients : Pending(c) \/ client[c].pc = "write" => IsGen(client[c].gen)

LEMMA TypedFacts ==
  ASSUME TypeOK, HandsInv
  PROVE  Typed
<1>1. \A v \in Value : IsValue(v)
  BY ValueFacts DEF IsValue
<1>2. \A g \in Gens : IsGen(g)
  BY GenFacts DEF IsGen
<1>3. /\ entry # None => entry \in Entry /\ IsValue(entry.val) /\ IsGen(entry.gen)
      /\ writing # None => writing \in Job /\ IsValue(writing.val) /\ IsGen(writing.gen)
  BY <1>1, <1>2 DEF TypeOK, Entry, Job
<1>4. /\ spill_file # None => IsValue(spill_file)
      /\ newest # None => IsValue(newest)
  BY <1>1 DEF TypeOK
<1>5. /\ jobs \in Seq(Job) /\ spillable \subseteq Gens /\ \A g \in spillable : IsGen(g)
      /\ \A i \in DOMAIN jobs : jobs[i] \in Job /\ IsValue(jobs[i].val) /\ IsGen(jobs[i].gen)
  <2>1. jobs \in Seq(Job) /\ spillable \subseteq Gens
    BY DEF TypeOK
  <2>2. \A i \in DOMAIN jobs : jobs[i] \in Job
    BY <2>1
  <2> QED BY <1>1, <1>2, <2>1, <2>2 DEF Job
<1>6. /\ runs \in Nat /\ next_generation \in Nat /\ generation \in Nat /\ invalidation \in Nat
      /\ pressure \in Nat /\ next_generation # 0
  BY BoundsAssumption DEF TypeOK
<1>7. ASSUME NEW c \in Clients
      PROVE  client[c] \in Client /\ client[c].gen \in Nat /\ client[c].expected \in Nat
  <2>1. client[c] \in Client
    BY DEF TypeOK
  <2>2. client[c].gen \in 0 .. MaxGen /\ client[c].expected \in 0 .. MaxGen
    BY <2>1 DEF Client
  <2> QED BY <2>1, <2>2, BoundsAssumption
<1>8. /\ \A c \in Clients : Carries(c) => IsValue(client[c].held)
      /\ \A c \in Clients : Pending(c) \/ client[c].pc = "write" => IsGen(client[c].gen)
  BY <1>1, <1>2 DEF HandsInv
<1> QED BY <1>3, <1>4, <1>5, <1>6, <1>7, <1>8 DEF Typed

----------
(* A client moves, the others stay. *)

Others(c) == \A d \in Clients : d # c => client'[d] = client[d]

\* The client goes on with what it has.
Goes(c, label) ==
  /\ client'[c].pc = label /\ client'[c].op = client[c].op
  /\ client'[c].held = client[c].held /\ client'[c].gen = client[c].gen
  /\ client'[c].base = client[c].base /\ client'[c].expected = client[c].expected
  /\ client'[c].fresh = client[c].fresh

LEMMA GotoFacts ==
  ASSUME TypeOK, NEW c \in Clients, NEW label \in Labels, Goto(c, label)
  PROVE  client' \in [Clients -> Client] /\ Others(c) /\ Goes(c, label)
<1>1. client \in [Clients -> Client] /\ client[c] \in Client
  BY DEF TypeOK
<1>2. client' = [client EXCEPT ![c] = [client[c] EXCEPT !.pc = label]]
  BY DEF Goto
<1>3. [client[c] EXCEPT !.pc = label] \in Client
  BY <1>1 DEF Client
<1> QED BY <1>1, <1>2, <1>3 DEF Others, Goes, Client

LEMMA FinishFacts ==
  ASSUME TypeOK, NEW c \in Clients, Finish(c)
  PROVE  client' \in [Clients -> Client] /\ Others(c) /\ client'[c] = Idle
<1>1. Idle \in Client
  BY BoundsAssumption DEF Idle, Client, Labels
<1> QED BY <1>1 DEF TypeOK, Finish, Others

\* A client that does not carry a value moves: nobody's tokens or values change.
LEMMA IdleMoves ==
  ASSUME IInv, NEW c \in Clients, ~Carries(c), Others(c), client' \in [Clients -> Client],
         client'[c].pc \notin {"clear", "put", "record", "rewarm", "rewarm_put",
                               "rewarm_record", "write"},
         client'[c].expected < next_generation, client'[c].gen < next_generation,
         UNCHANGED <<cacheVars, spillVars, runs, newest>>, timely' \in BOOLEAN
  PROVE  IInv'
<1> USE DEF IInv, cacheVars, spillVars
<1>1. TypeOK'
  BY DEF TypeOK
<1>2. \A d \in Clients : (Carries(d)' => Carries(d)) /\ (Carries(d)' => client'[d] = client[d])
  BY DEF Others, Carries, Pending, Holds
<1>3. \A d \in Clients : (Pending(d)' => Pending(d)) /\ (Stores(d)' => Stores(d))
                         /\ (Holds(d)' => Holds(d))
                         /\ (Pending(d)' => Carries(d)') /\ (Stores(d)' => Carries(d)')
  BY DEF Others, Carries, Pending, Holds, Stores
<1>4. HandsInv'
  BY DEF HandsInv, Others, Carries, Pending, Holds, Stores
<1>5. IssuedInv'
  BY DEF IssuedInv, Others
<1>6. PendingInv'
  BY DEF PendingInv, Others, Pending, Holds
<1>7. RunsInv'
  BY <1>2, <1>3 DEF RunsInv
<1>8. LockInv'
  BY DEF LockInv, Others
<1> QED BY <1>1, <1>4, <1>5, <1>6, <1>7, <1>8

\* A token that was not handed out yet is nobody's.
LEMMA NewToken ==
  ASSUME IInv, Typed
  PROVE  /\ next_generation # generation /\ next_generation # pressure
         /\ next_generation # invalidation
         /\ next_generation \notin spillable
         /\ writing # None => writing.gen # next_generation
         /\ entry # None => entry.gen # next_generation
         /\ \A i \in DOMAIN jobs : jobs[i].gen # next_generation
         /\ \A d \in Clients : /\ client[d].gen # next_generation
                               /\ client[d].expected # next_generation
BY DEF IInv, IssuedInv, Typed, IsGen

\* A client takes a value in hand, or a value and its generation.
Takes(c, label, value, flag) ==
  /\ client'[c].pc = label /\ client'[c].held = value /\ client'[c].fresh = flag
  /\ client'[c].op = client[c].op /\ client'[c].expected = client[c].expected
  /\ client'[c].base = client[c].base

----------
(* insert_if_current. *)

CheckVersionEffect(c) ==
  /\ client[c].pc = "check" /\ client[c].expected = invalidation
  /\ client' \in [Clients -> Client] /\ Others(c)
  /\ client'[c].pc = "clear" /\ client'[c].gen = next_generation
  /\ client'[c].held = [run |-> runs + 1, edits |-> 0]
  /\ client'[c].held \in Value /\ client'[c].held.run = runs + 1
  /\ client'[c].expected = client[c].expected /\ client'[c].fresh = TRUE
  /\ next_generation \in Gens /\ next_generation' = next_generation + 1
  /\ runs < MaxRuns /\ runs' = runs + 1 /\ spill_file' = None
  /\ UNCHANGED <<entry, known, generation, invalidation, cleaned, spillable, jobs,
                 writing, pressure, newest, raced, timely>>

LEMMA CheckVersionFacts ==
  ASSUME TypeOK, NEW c \in Clients, CheckVersion(c)
  PROVE  CheckVersionEffect(c)
<1> DEFINE new == [run |-> runs + 1, edits |-> 0]
           f == client[c].expected = invalidation
<1>1. /\ next_generation \in 1 .. MaxGen + 1 /\ next_generation <= MaxGen
      /\ runs \in 0 .. MaxRuns /\ runs < MaxRuns /\ client[c].expected = invalidation
  BY DEF CheckVersion, TypeOK, NewGeneration, VersionMatches
<1>2. new \in Value /\ new.run = runs + 1 /\ next_generation \in Gens /\ "clear" \in Labels
  BY <1>1, BoundsAssumption DEF Value, Gens, Labels
<1>3. f \in BOOLEAN /\ f = TRUE
  BY <1>1
<1>4. client' = [client EXCEPT ![c].pc = "clear", ![c].gen = next_generation,
                               ![c].held = new, ![c].fresh = f]
  BY DEF CheckVersion
<1> HIDE DEF new, f
<1>5. /\ client' \in [Clients -> Client] /\ Others(c)
      /\ Takes(c, "clear", new, f) /\ client'[c].gen = next_generation
  <2> DEFINE moved == [client[c] EXCEPT !.pc = "clear", !.gen = next_generation,
                         !.held = new, !.fresh = f]
  <2>1. client \in [Clients -> Client] /\ client[c] \in Client /\ next_generation \in 0 .. MaxGen
    BY <1>2, BoundsAssumption DEF TypeOK, Gens
  <2>2. moved \in Client
    BY <1>2, <1>3, <2>1 DEF Client
  <2>3. client' = [client EXCEPT ![c] = moved]
    BY <1>4
  <2>4. client'[c] = moved /\ client' \in [Clients -> Client] /\ Others(c)
    BY <2>1, <2>2, <2>3 DEF Others
  <2> QED BY <2>1, <2>4 DEF Takes, Client
<1> QED BY <1>1, <1>2, <1>3, <1>5 DEF CheckVersion, CheckVersionEffect, AtStep, NewGeneration, ghostVars, Takes, new

LEMMA CheckVersionPreserves ==
  ASSUME IInv, NEW c \in Clients, CheckVersion(c)
  PROVE  IInv'
<1>1. CheckVersionEffect(c)
  BY CheckVersionFacts DEF IInv
<1>2. Typed
  BY TypedFacts DEF IInv
<1>3. TypeOK'
  BY <1>1, <1>2, BoundsAssumption DEF CheckVersionEffect, IInv, TypeOK, Gens
<1>4. HandsInv'
  BY <1>1 DEF CheckVersionEffect, IInv, HandsInv, Others, Carries, Pending, Holds, Stores
<1>5. IssuedInv'
  <2>1. \A n \in Nat : n < next_generation => n < next_generation'
    BY <1>1, <1>2 DEF CheckVersionEffect, Typed
  <2> QED BY <1>1, <1>2, <2>1 DEF CheckVersionEffect, IInv, IssuedInv, Others, Typed, IsGen
<1>6. PendingInv'
  <2>1. \A d \in Clients : (Pending(d)' => Pending(d) \/ d = c) /\ (d # c => (Holds(d)' <=> Holds(d)))
    BY <1>1 DEF CheckVersionEffect, Others, Pending, Holds
  <2>4. /\ next_generation # generation /\ next_generation # pressure
        /\ next_generation \notin spillable
        /\ writing # None => writing.gen # next_generation
        /\ entry # None => entry.gen # next_generation
        /\ \A i \in DOMAIN jobs : jobs[i].gen # next_generation
        /\ \A e \in Clients : client[e].gen # next_generation
    BY <1>2, NewToken
  <2>3. ASSUME NEW d \in Clients, Pending(d), d # c
        PROVE  /\ client[d].gen # client'[c].gen
               /\ Holds(d)' => \A e \in Clients : client'[e].pc = "write" => client'[e].gen # client'[d].gen
    BY <1>1, <2>1, <2>4, <2>3 DEF CheckVersionEffect, IInv, PendingInv, Others
  <2>5. ASSUME NEW d \in Clients, Pending(d)', d # c
        PROVE  /\ client'[d] = client[d] /\ Pending(d) /\ (Holds(d)' <=> Holds(d))
    BY <1>1, <2>1, <2>5 DEF CheckVersionEffect, Others
  <2> QED BY <1>1, <2>3, <2>4, <2>5 DEF CheckVersionEffect, IInv, PendingInv, Others, Holds
<1>7. RunsInv'
  <2>1. \A d \in Clients : /\ Carries(d)' => Carries(d) \/ d = c
                           /\ Stores(d)' => Stores(d) \/ d = c
                           /\ d # c => client'[d] = client[d]
    BY <1>1 DEF CheckVersionEffect, Others, Carries, Stores, Pending, Holds
  <2>2. \A d \in Clients : Carries(d) => client[d].held.run < runs + 1
    BY <1>2 DEF IInv, RunsInv, Typed, IsValue
  <2>3. \A d \in Clients : Stores(d) => Carries(d)
    BY DEF Stores, Carries, Pending, Holds
  <2>4. /\ entry # None => entry.val.run < runs + 1
        /\ writing # None => writing.val.run < runs + 1
        /\ newest # None => newest.run < runs + 1
        /\ \A i \in DOMAIN jobs : jobs[i].val.run < runs + 1
    BY <1>2 DEF IInv, RunsInv, Typed, IsValue
  <2>5. /\ client'[c].held.run = runs + 1 /\ runs' = runs + 1 /\ spill_file' = None
        /\ entry' = entry /\ writing' = writing /\ newest' = newest /\ jobs' = jobs
    BY <1>1 DEF CheckVersionEffect
  <2>6. \A d \in Clients : Carries(d)' => client'[d].held.run <= runs'
    BY <1>2, <2>1, <2>2, <2>5 DEF IInv, RunsInv, Typed, IsValue
  <2>7. ASSUME NEW d \in Clients, Stores(d)', d = c
        PROVE  /\ entry # None => entry.val.run # client'[d].held.run
               /\ writing # None => writing.val.run # client'[d].held.run
               /\ newest # None => newest.run # client'[d].held.run
               /\ \A i \in DOMAIN jobs : jobs[i].val.run # client'[d].held.run
               /\ \A e \in Clients : e # d /\ Carries(e)' => client'[e].held.run # client'[d].held.run
    <3>1. \A e \in Clients : e # d /\ Carries(e)' => client'[e].held.run < runs + 1
      BY <2>1, <2>2, <2>7
    <3> QED BY <1>2, <2>4, <2>5, <2>7, <3>1 DEF Typed, IsValue
  <2>8. ASSUME NEW d \in Clients, Stores(d)', d # c
        PROVE  /\ entry # None => entry.val.run # client'[d].held.run
               /\ writing # None => writing.val.run # client'[d].held.run
               /\ newest # None => newest.run # client'[d].held.run
               /\ \A i \in DOMAIN jobs : jobs[i].val.run # client'[d].held.run
               /\ \A e \in Clients : e # d /\ Carries(e)' => client'[e].held.run # client'[d].held.run
    <3>1. Stores(d) /\ client'[d] = client[d] /\ client[d].held.run < runs + 1
      BY <2>1, <2>2, <2>3, <2>8
    <3>2. \A e \in Clients : e # d /\ Carries(e)' =>
            e = c \/ (Carries(e) /\ client'[e] = client[e])
      BY <2>1
    <3> QED BY <1>2, <2>5, <3>1, <3>2 DEF IInv, RunsInv, Typed, IsValue
  <2> QED BY <2>4, <2>5, <2>6, <2>7, <2>8, <1>2 DEF IInv, RunsInv, Typed, IsValue
<1>8. LockInv'
  BY <1>1 DEF CheckVersionEffect, IInv, LockInv, Others
<1> QED BY <1>3, <1>4, <1>5, <1>6, <1>7, <1>8 DEF IInv

ClearMarkersEffect(c) ==
  /\ client[c].pc = "clear" /\ client' \in [Clients -> Client] /\ Others(c) /\ Goes(c, "put")
  /\ spillable' = {} /\ cleaned' = FALSE
  /\ UNCHANGED <<entry, known, generation, invalidation, next_generation, spill_file,
                 jobs, writing, pressure, runs, newest, raced, timely>>

LEMMA ClearMarkersFacts ==
  ASSUME TypeOK, NEW c \in Clients, ClearMarkers(c)
  PROVE  ClearMarkersEffect(c)
<1>1. "put" \in Labels /\ Goto(c, "put")
  BY DEF ClearMarkers, Labels
<1>2. client' \in [Clients -> Client] /\ Others(c) /\ Goes(c, "put")
  BY <1>1, GotoFacts
<1> QED BY <1>2 DEF ClearMarkers, ClearMarkersEffect, AtStep, ghostVars

LEMMA ClearMarkersPreserves ==
  ASSUME IInv, NEW c \in Clients, ClearMarkers(c)
  PROVE  IInv'
<1>1. ClearMarkersEffect(c)
  BY ClearMarkersFacts DEF IInv
<1>2. TypeOK'
  BY <1>1 DEF ClearMarkersEffect, IInv, TypeOK
<1>3. \A d \in Clients : /\ Carries(d)' <=> Carries(d)
                         /\ Pending(d)' <=> Pending(d)
                         /\ Stores(d)' <=> Stores(d)
                         /\ Holds(d)' <=> Holds(d)
                         /\ client'[d].pc = "write" <=> client[d].pc = "write"
                         /\ client'[d].gen = client[d].gen /\ client'[d].held = client[d].held
                         /\ client'[d].fresh = client[d].fresh
                         /\ client'[d].expected = client[d].expected
  BY <1>1 DEF ClearMarkersEffect, Others, Goes, Carries, Pending, Stores, Holds
<1>4. HandsInv'
  BY <1>3 DEF IInv, HandsInv
<1>5. IssuedInv'
  BY <1>1, <1>3 DEF ClearMarkersEffect, IInv, IssuedInv
<1>6. PendingInv'
  BY <1>1, <1>3 DEF ClearMarkersEffect, IInv, PendingInv
<1>7. RunsInv'
  BY <1>1, <1>3 DEF ClearMarkersEffect, IInv, RunsInv
<1>8. LockInv'
  BY <1>1, <1>3 DEF ClearMarkersEffect, IInv, LockInv
<1> QED BY <1>2, <1>4, <1>5, <1>6, <1>7, <1>8 DEF IInv

PutEffect(c) ==
  /\ client[c].pc = "put" /\ client' \in [Clients -> Client] /\ Others(c) /\ Goes(c, "record")
  /\ client[c].held \in Value
  /\ entry' = [val |-> client[c].held, gen |-> client[c].gen, expired |-> FALSE]
  /\ entry' \in Entry /\ entry' # None
  /\ entry'.val = client[c].held /\ entry'.gen = client[c].gen /\ entry'.expired = FALSE
  /\ newest' = IF client[c].expected = invalidation THEN client[c].held ELSE newest
  /\ Mark("late", client[c].fresh /\ client[c].expected # invalidation)
  /\ UNCHANGED <<known, generation, invalidation, cleaned, next_generation, spill_file,
                 spillable, jobs, writing, pressure, runs, timely>>

LEMMA PutFacts ==
  ASSUME TypeOK, HandsInv, NEW c \in Clients, Put(c)
  PROVE  PutEffect(c)
<1>1. "record" \in Labels /\ Goto(c, "record") /\ client[c].pc = "put"
  BY DEF Put, Labels, AtStep
<1>2. client' \in [Clients -> Client] /\ Others(c) /\ Goes(c, "record")
  BY <1>1, GotoFacts
<1>3. client[c].held \in Value /\ client[c].gen \in Gens
  BY <1>1 DEF HandsInv, Carries, Pending, Holds
<1>4. entry' = [val |-> client[c].held, gen |-> client[c].gen, expired |-> FALSE]
  BY DEF Put
<1>5. entry' \in Entry /\ entry' # None
      /\ entry'.val = client[c].held /\ entry'.gen = client[c].gen /\ entry'.expired = FALSE
  <2>1. entry' \in Entry
    BY <1>3, <1>4 DEF Entry
  <2> QED BY <1>4, <2>1, NoneAssumption
<1> QED BY <1>1, <1>2, <1>3, <1>4, <1>5 DEF Put, PutEffect, spillVars

LEMMA PutPreserves ==
  ASSUME IInv, NEW c \in Clients, Put(c)
  PROVE  IInv'
<1>1. PutEffect(c)
  BY PutFacts DEF IInv
<1>2. TypeOK'
  BY <1>1 DEF PutEffect, IInv, TypeOK
<1>3. \A d \in Clients : /\ Carries(d)' <=> Carries(d)
                         /\ Pending(d)' <=> Pending(d)
                         /\ Stores(d)' <=> Stores(d) /\ d # c
                         /\ Holds(d)' <=> Holds(d) /\ d # c
                         /\ client'[d].pc = "write" <=> client[d].pc = "write"
                         /\ client'[d].gen = client[d].gen /\ client'[d].held = client[d].held
                         /\ client'[d].fresh = client[d].fresh
                         /\ client'[d].expected = client[d].expected
  BY <1>1 DEF PutEffect, Others, Goes, Carries, Pending, Stores, Holds
<1>4. /\ Stores(c) /\ Holds(c) /\ Pending(c) /\ Carries(c) /\ client[c].pc # "write"
      /\ \A d \in Clients : (Stores(d) => Carries(d)) /\ (Pending(d) => Carries(d))
      /\ \A d \in Clients : client[d].pc = "write" => Carries(d)
  BY <1>1 DEF PutEffect, Carries, Pending, Stores, Holds
<1>5. HandsInv'
  BY <1>3 DEF IInv, HandsInv
<1>6. IssuedInv'
  BY <1>1, <1>3 DEF PutEffect, IInv, IssuedInv
<1>7. PendingInv'
  BY <1>1, <1>3, <1>4 DEF PutEffect, IInv, PendingInv
<1>8. RunsInv'
  BY <1>1, <1>3, <1>4 DEF PutEffect, IInv, RunsInv
<1>9. LockInv'
  BY <1>1, <1>3, <1>4 DEF PutEffect, IInv, LockInv, PendingInv
<1> QED BY <1>2, <1>5, <1>6, <1>7, <1>8, <1>9 DEF IInv

RecordEffect(c) ==
  /\ client[c].pc = "record" /\ client' \in [Clients -> Client] /\ Others(c)
  /\ client'[c] = Idle
  /\ known' = TRUE /\ generation' = client[c].gen
  /\ Mark("overlap", Overtaken(c))
  /\ UNCHANGED <<entry, invalidation, cleaned, next_generation, spill_file, spillable, jobs,
                 writing, pressure, runs, newest, timely>>

LEMMA RecordFacts ==
  ASSUME TypeOK, NEW c \in Clients, Record(c)
  PROVE  RecordEffect(c)
<1>1. client' \in [Clients -> Client] /\ Others(c) /\ client'[c] = Idle
  BY FinishFacts DEF Record
<1> QED BY <1>1 DEF Record, RecordEffect, AtStep, spillVars

\* Client c ends its operation, the others go on.
LEMMA Leaves ==
  ASSUME NEW c \in Clients, Others(c), client'[c] = Idle
  PROVE  /\ \A d \in Clients : /\ Carries(d)' <=> Carries(d) /\ d # c
                               /\ Pending(d)' <=> Pending(d) /\ d # c
                               /\ Stores(d)' <=> Stores(d) /\ d # c
                               /\ Holds(d)' <=> Holds(d) /\ d # c
                               /\ client'[d].pc = "write" <=> client[d].pc = "write" /\ d # c
                               /\ d # c => client'[d] = client[d]
         /\ client'[c].expected = 0 /\ client'[c].gen = 0 /\ client'[c].pc = "idle"
BY DEF Others, Idle, Carries, Pending, Stores, Holds

LEMMA RecordPreserves ==
  ASSUME IInv, NEW c \in Clients, Record(c)
  PROVE  IInv'
<1>1. RecordEffect(c)
  BY RecordFacts DEF IInv
<1>2. Typed
  BY TypedFacts DEF IInv
<1>3. /\ Pending(c) /\ client[c].gen \in 0 .. MaxGen
      /\ \A d \in Clients : Stores(d) => Carries(d)
  BY <1>1, BoundsAssumption DEF RecordEffect, IInv, HandsInv, Stores, Carries, Pending, Holds, Gens
<1>4. TypeOK'
  BY <1>1, <1>3 DEF RecordEffect, IInv, TypeOK
<1>5. /\ \A d \in Clients : /\ Carries(d)' <=> Carries(d) /\ d # c
                            /\ Pending(d)' <=> Pending(d) /\ d # c
                            /\ Stores(d)' <=> Stores(d) /\ d # c
                            /\ Holds(d)' <=> Holds(d) /\ d # c
                            /\ client'[d].pc = "write" <=> client[d].pc = "write" /\ d # c
                            /\ d # c => client'[d] = client[d]
      /\ client'[c].expected = 0 /\ client'[c].gen = 0 /\ client'[c].pc = "idle"
  BY <1>1, Leaves DEF RecordEffect
<1>6. HandsInv'
  BY <1>5 DEF IInv, HandsInv
<1>7. IssuedInv'
  BY <1>1, <1>2, <1>5 DEF RecordEffect, IInv, IssuedInv, Typed
<1>8. PendingInv'
  BY <1>1, <1>3, <1>5 DEF RecordEffect, IInv, PendingInv
<1>9. RunsInv'
  BY <1>1, <1>3, <1>5 DEF RecordEffect, IInv, RunsInv
<1>10. LockInv'
  BY <1>1, <1>5 DEF RecordEffect, IInv, LockInv
<1> QED BY <1>4, <1>6, <1>7, <1>8, <1>9, <1>10 DEF IInv

----------
(* Steps of a client that carries no value, before and after. *)

LooksEffect(c) ==
  /\ ~Carries(c) /\ client[c].pc \notin {"invalidate", "forget"}
  /\ client' \in [Clients -> Client] /\ Others(c)
  /\ client'[c].pc \in {"idle", "check", "get", "read", "modify"}
  /\ client'[c].expected \in {0, client[c].expected, invalidation}
  /\ client'[c].gen \in {0, client[c].gen}
  /\ UNCHANGED <<cacheVars, spillVars, runs, ghostVars>>

\* A caller goes on after get.
GotEffect(c) ==
  /\ client' \in [Clients -> Client] /\ Others(c)
  /\ client'[c].pc \in {"idle", "check", "modify"}
  /\ client'[c].expected \in {0, client[c].expected, invalidation}
  /\ client'[c].gen \in {0, client[c].gen}

LEMMA GotFacts ==
  ASSUME TypeOK, NEW c \in Clients, NEW v, Got(c, v)
  PROVE  GotEffect(c)
<1>1. CASE Finish(c)
  BY <1>1, FinishFacts DEF Idle, GotEffect
<1>2. CASE Goto(c, "modify")
  <2>1. "modify" \in Labels
    BY DEF Labels
  <2> QED BY <1>2, <2>1, GotoFacts DEF Goes, GotEffect
<1>3. CASE client' = [client EXCEPT ![c].pc = "check", ![c].expected = invalidation]
  <2> DEFINE moved == [client[c] EXCEPT !.pc = "check", !.expected = invalidation]
  <2>1. client \in [Clients -> Client] /\ client[c] \in Client /\ invalidation \in 0 .. MaxGen
    BY DEF TypeOK
  <2>2. moved \in Client /\ moved.pc = "check" /\ moved.expected = invalidation
        /\ moved.gen = client[c].gen
    BY <2>1 DEF Client, Labels
  <2>3. client' = [client EXCEPT ![c] = moved]
    BY <1>3
  <2>4. client'[c] = moved /\ client' \in [Clients -> Client] /\ Others(c)
    BY <2>1, <2>2, <2>3 DEF Others
  <2> QED BY <2>2, <2>4 DEF GotEffect
<1> QED BY <1>1, <1>2, <1>3 DEF Got

LEMMA BeginStoreFacts ==
  ASSUME TypeOK, NEW c \in Clients, BeginStore(c)
  PROVE  LooksEffect(c)
<1> DEFINE moved == [client[c] EXCEPT !.pc = "check", !.op = "store", !.expected = invalidation]
<1>1. client \in [Clients -> Client] /\ client[c] \in Client /\ invalidation \in 0 .. MaxGen
  BY DEF TypeOK
<1>2. moved \in Client /\ moved.pc = "check" /\ moved.expected = invalidation
      /\ moved.gen = client[c].gen
  BY <1>1 DEF Client, Labels
<1>3. client' = [client EXCEPT ![c] = moved]
  BY DEF BeginStore
<1>4. client'[c] = moved /\ client' \in [Clients -> Client] /\ Others(c)
  BY <1>1, <1>2, <1>3 DEF Others
<1> QED BY <1>2, <1>4 DEF BeginStore, AtStep, LooksEffect, Carries, Pending, Holds

LEMMA BeginGetFacts ==
  ASSUME TypeOK, NEW c \in Clients, NEW o \in {"fetch", "edit", "reexecute"},
         NEW r \in 0 .. MaxRuns, BeginGet(c, o, r)
  PROVE  LooksEffect(c)
<1> DEFINE moved == [client[c] EXCEPT !.pc = "get", !.op = o, !.base = r,
                                      !.expected = invalidation]
<1>1. client \in [Clients -> Client] /\ client[c] \in Client /\ invalidation \in 0 .. MaxGen
  BY DEF TypeOK
<1>2. moved \in Client /\ moved.pc = "get" /\ moved.expected = invalidation
      /\ moved.gen = client[c].gen
  BY <1>1 DEF Client, Labels
<1>3. client' = [client EXCEPT ![c] = moved]
  BY DEF BeginGet
<1>4. client'[c] = moved /\ client' \in [Clients -> Client] /\ Others(c)
  BY <1>1, <1>2, <1>3 DEF Others
<1> QED BY <1>2, <1>4 DEF BeginGet, AtStep, LooksEffect, Carries, Pending, Holds

LEMMA CheckRefusesFacts ==
  ASSUME TypeOK, NEW c \in Clients, CheckRefuses(c)
  PROVE  LooksEffect(c)
BY FinishFacts DEF CheckRefuses, AtStep, Idle, LooksEffect, Carries, Pending, Holds

LEMMA LookupFacts ==
  ASSUME TypeOK, NEW c \in Clients, Lookup(c)
  PROVE  LooksEffect(c)
<1>1. /\ client[c].pc = "get" /\ ~Carries(c) /\ UNCHANGED <<cacheVars, spillVars, runs, ghostVars>>
  BY DEF Lookup, AtStep, Carries, Pending, Holds
<1>2. CASE Got(c, entry.val)
  <2>1. GotEffect(c)
    BY <1>2, GotFacts
  <2> QED BY <1>1, <2>1 DEF GotEffect, LooksEffect
<1>3. CASE Goto(c, "read")
  <2>1. "read" \in Labels
    BY DEF Labels
  <2>2. client' \in [Clients -> Client] /\ Others(c) /\ Goes(c, "read")
    BY <1>3, <2>1, GotoFacts
  <2> QED BY <1>1, <2>2 DEF LooksEffect, Goes
<1>4. CASE Finish(c)
  BY <1>1, <1>4, FinishFacts DEF LooksEffect, Idle
<1> QED BY <1>2, <1>3, <1>4 DEF Lookup

LEMMA LooksPreserves ==
  ASSUME IInv, NEW c \in Clients, LooksEffect(c)
  PROVE  IInv'
<1>1. client'[c].expected < next_generation /\ client'[c].gen < next_generation
  <2>1. Typed
    BY TypedFacts DEF IInv
  <2> QED BY <2>1 DEF LooksEffect, IInv, IssuedInv, Typed
<1>2. /\ UNCHANGED <<cacheVars, spillVars, runs, newest>> /\ timely' \in BOOLEAN
  BY DEF LooksEffect, ghostVars, IInv, TypeOK
<1> QED BY <1>1, <1>2, IdleMoves DEF LooksEffect

----------
(* get. *)

ReadsEffect(c) ==
  /\ client[c].pc = "read" /\ client' \in [Clients -> Client] /\ Others(c)
  /\ spill_file # None /\ client'[c].pc = "rewarm" /\ client'[c].held = spill_file
  /\ client'[c].fresh = (spill_file = newest \/ At({"forget"}) # {})
  /\ client'[c].gen = client[c].gen /\ client'[c].expected = client[c].expected
  /\ UNCHANGED <<cacheVars, spillVars, runs, ghostVars>>

LEMMA ReadSpillFacts ==
  ASSUME TypeOK, NEW c \in Clients, ReadSpill(c)
  PROVE  LooksEffect(c) \/ ReadsEffect(c)
<1>1. /\ client[c].pc = "read" /\ ~Carries(c) /\ UNCHANGED <<cacheVars, spillVars, runs, ghostVars>>
  BY DEF ReadSpill, AtStep, Carries, Pending, Holds
<1>2. CASE spill_file = None
  BY <1>1, <1>2, FinishFacts DEF ReadSpill, LooksEffect, Idle
<1>3. CASE spill_file # None
  <2> DEFINE f == spill_file = newest \/ At({"forget"}) # {}
             moved == [client[c] EXCEPT !.pc = "rewarm", !.held = spill_file, !.fresh = f]
  <2>1. client \in [Clients -> Client] /\ client[c] \in Client /\ spill_file \in Value
        /\ f \in BOOLEAN
    BY <1>3 DEF TypeOK
  <2>2. client' = [client EXCEPT ![c] = moved]
    BY <1>3 DEF ReadSpill
  <2>3. f = (spill_file = newest \/ At({"forget"}) # {})
    OBVIOUS
  <2> HIDE DEF f
  <2>4. moved \in Client /\ moved.pc = "rewarm" /\ moved.held = spill_file /\ moved.fresh = f
        /\ moved.gen = client[c].gen /\ moved.expected = client[c].expected
    BY <2>1 DEF Client, Labels
  <2>5. client'[c] = moved /\ client' \in [Clients -> Client] /\ Others(c)
    BY <2>1, <2>2, <2>4 DEF Others
  <2> HIDE DEF moved
  <2> QED BY <1>1, <1>3, <2>3, <2>4, <2>5 DEF ReadsEffect
<1> QED BY <1>2, <1>3

LEMMA ReadsPreserves ==
  ASSUME IInv, NEW c \in Clients, ReadsEffect(c)
  PROVE  IInv'
<1> USE DEF cacheVars, spillVars, ghostVars
<1>1. TypeOK'
  BY DEF ReadsEffect, IInv, TypeOK
<1>2. /\ \A d \in Clients : /\ Carries(d)' <=> Carries(d) \/ d = c
                            /\ Pending(d)' <=> Pending(d)
                            /\ Stores(d)' <=> Stores(d)
                            /\ Holds(d)' <=> Holds(d)
                            /\ client'[d].pc = "write" <=> client[d].pc = "write"
                            /\ d # c => client'[d] = client[d]
      /\ ~Stores(c) /\ ~Pending(c) /\ ~Holds(c) /\ client[c].pc # "write"
  BY DEF ReadsEffect, Others, Carries, Pending, Stores, Holds
<1>3. HandsInv'
  BY <1>2 DEF ReadsEffect, IInv, HandsInv, TypeOK
<1>4. IssuedInv'
  BY <1>2 DEF ReadsEffect, IInv, IssuedInv
<1>5. PendingInv'
  BY <1>2 DEF ReadsEffect, IInv, PendingInv
<1>6. RunsInv'
  BY <1>2 DEF ReadsEffect, IInv, RunsInv
<1>7. LockInv'
  BY <1>2 DEF ReadsEffect, IInv, LockInv
<1> QED BY <1>1, <1>3, <1>4, <1>5, <1>6, <1>7 DEF IInv

RewarmEffect(c) ==
  /\ client[c].pc = "rewarm" /\ client' \in [Clients -> Client] /\ Others(c)
  /\ client'[c].pc = "rewarm_put" /\ client'[c].gen = next_generation
  /\ client'[c].held = client[c].held /\ client'[c].fresh = client[c].fresh
  /\ client'[c].expected = client[c].expected
  /\ next_generation \in Gens /\ next_generation' = next_generation + 1
  /\ spill_file' = None
  /\ Mark("rewarm", client[c].fresh /\ {spill_file, newest} # {client[c].held})
  /\ UNCHANGED <<entry, known, generation, invalidation, cleaned, spillable, jobs,
                 writing, pressure, runs, newest, timely>>

LEMMA RewarmFacts ==
  ASSUME TypeOK, NEW c \in Clients, Rewarm(c)
  PROVE  RewarmEffect(c)
<1> DEFINE moved == [client[c] EXCEPT !.pc = "rewarm_put", !.gen = next_generation]
<1>1. client \in [Clients -> Client] /\ client[c] \in Client
      /\ next_generation \in 1 .. MaxGen + 1 /\ next_generation <= MaxGen
  BY DEF TypeOK, Rewarm, NewGeneration
<1>2. next_generation \in Gens /\ next_generation \in 0 .. MaxGen
  BY <1>1, BoundsAssumption DEF Gens
<1>3. moved \in Client /\ moved.pc = "rewarm_put" /\ moved.gen = next_generation
      /\ moved.held = client[c].held /\ moved.fresh = client[c].fresh
      /\ moved.expected = client[c].expected
  BY <1>1, <1>2 DEF Client, Labels
<1>4. client' = [client EXCEPT ![c] = moved]
  BY DEF Rewarm
<1>5. client'[c] = moved /\ client' \in [Clients -> Client] /\ Others(c)
  BY <1>1, <1>3, <1>4 DEF Others
<1> HIDE DEF moved
<1> QED BY <1>2, <1>3, <1>5 DEF Rewarm, RewarmEffect, AtStep, NewGeneration

LEMMA RewarmPreserves ==
  ASSUME IInv, NEW c \in Clients, Rewarm(c)
  PROVE  IInv'
<1>1. RewarmEffect(c)
  BY RewarmFacts DEF IInv
<1>2. Typed
  BY TypedFacts DEF IInv
<1>3. /\ next_generation # generation /\ next_generation # pressure
      /\ next_generation \notin spillable
      /\ writing # None => writing.gen # next_generation
      /\ entry # None => entry.gen # next_generation
      /\ \A i \in DOMAIN jobs : jobs[i].gen # next_generation
      /\ \A d \in Clients : client[d].gen # next_generation
  BY <1>2, NewToken
<1>4. TypeOK'
  BY <1>1, <1>2, BoundsAssumption DEF RewarmEffect, IInv, TypeOK, Gens
<1>5. /\ \A d \in Clients : /\ Carries(d)' <=> Carries(d)
                            /\ Pending(d)' <=> Pending(d) \/ d = c
                            /\ Stores(d)' <=> Stores(d)
                            /\ Holds(d)' <=> Holds(d) \/ d = c
                            /\ client'[d].pc = "write" <=> client[d].pc = "write"
                            /\ client'[d].held = client[d].held /\ client'[d].fresh = client[d].fresh
                            /\ client'[d].expected = client[d].expected
                            /\ d # c => client'[d] = client[d]
      /\ ~Stores(c) /\ ~Pending(c) /\ ~Holds(c) /\ client[c].pc # "write" /\ Carries(c)
  BY <1>1 DEF RewarmEffect, Others, Carries, Pending, Stores, Holds
<1>6. HandsInv'
  BY <1>1, <1>5 DEF RewarmEffect, IInv, HandsInv
<1>7. IssuedInv'
  <2>1. \A n \in Nat : n < next_generation => n < next_generation'
    BY <1>1, <1>2 DEF RewarmEffect, Typed
  <2>2. \A d \in Clients : client'[d].expected < next_generation' /\ client'[d].gen < next_generation'
    BY <1>1, <1>2, <1>5, <2>1 DEF RewarmEffect, IInv, IssuedInv, Typed
  <2> QED BY SMTT(20), <1>1, <1>2, <2>1, <2>2 DEF RewarmEffect, IInv, IssuedInv, Typed, IsGen
<1>8. PendingInv'
  BY <1>1, <1>3, <1>5 DEF RewarmEffect, IInv, PendingInv
<1>9. RunsInv'
  BY <1>1, <1>5 DEF RewarmEffect, IInv, RunsInv
<1>10. LockInv'
  BY <1>1, <1>5 DEF RewarmEffect, IInv, LockInv
<1> QED BY <1>4, <1>6, <1>7, <1>8, <1>9, <1>10 DEF IInv

RewarmPutEffect(c) ==
  /\ client[c].pc = "rewarm_put" /\ client' \in [Clients -> Client] /\ Others(c)
  /\ Goes(c, "rewarm_record")
  /\ entry' \in Entry /\ entry' # None
  /\ entry'.val = client[c].held /\ entry'.gen = client[c].gen /\ entry'.expired = FALSE
  /\ Mark("rewarm", client[c].fresh /\ client[c].held # newest)
  /\ UNCHANGED <<known, generation, invalidation, cleaned, next_generation, spill_file,
                 spillable, jobs, writing, pressure, runs, newest, timely>>

LEMMA RewarmPutFacts ==
  ASSUME TypeOK, HandsInv, NEW c \in Clients, RewarmPut(c)
  PROVE  RewarmPutEffect(c)
<1>1. "rewarm_record" \in Labels /\ Goto(c, "rewarm_record") /\ client[c].pc = "rewarm_put"
  BY DEF RewarmPut, Labels, AtStep
<1>2. client' \in [Clients -> Client] /\ Others(c) /\ Goes(c, "rewarm_record")
  BY <1>1, GotoFacts
<1>3. client[c].held \in Value /\ client[c].gen \in Gens
  BY <1>1 DEF HandsInv, Carries, Pending, Holds
<1>4. entry' = [val |-> client[c].held, gen |-> client[c].gen, expired |-> FALSE]
  BY DEF RewarmPut
<1>5. entry' \in Entry
  BY <1>3, <1>4 DEF Entry
<1>6. entry' # None /\ entry'.val = client[c].held /\ entry'.gen = client[c].gen
      /\ entry'.expired = FALSE
  BY <1>4, <1>5, NoneAssumption
<1> QED BY <1>1, <1>2, <1>5, <1>6 DEF RewarmPut, RewarmPutEffect, spillVars

LEMMA RewarmPutPreserves ==
  ASSUME IInv, NEW c \in Clients, RewarmPut(c)
  PROVE  IInv'
<1>1. RewarmPutEffect(c)
  BY RewarmPutFacts DEF IInv
<1>2. TypeOK'
  BY <1>1 DEF RewarmPutEffect, IInv, TypeOK
<1>3. \A d \in Clients : /\ Carries(d)' <=> Carries(d)
                         /\ Pending(d)' <=> Pending(d)
                         /\ Stores(d)' <=> Stores(d)
                         /\ Holds(d)' <=> Holds(d) /\ d # c
                         /\ client'[d].pc = "write" <=> client[d].pc = "write"
                         /\ client'[d].gen = client[d].gen /\ client'[d].held = client[d].held
                         /\ client'[d].fresh = client[d].fresh
                         /\ client'[d].expected = client[d].expected
  BY <1>1 DEF RewarmPutEffect, Others, Goes, Carries, Pending, Stores, Holds
<1>4. /\ ~Stores(c) /\ Holds(c) /\ Pending(c) /\ Carries(c) /\ client[c].pc # "write"
      /\ \A d \in Clients : (Stores(d) => Carries(d)) /\ (Pending(d) => Carries(d))
      /\ \A d \in Clients : client[d].pc = "write" => Carries(d)
  BY <1>1 DEF RewarmPutEffect, Carries, Pending, Stores, Holds
<1>5. HandsInv'
  BY <1>3 DEF IInv, HandsInv
<1>6. IssuedInv'
  BY <1>1, <1>3 DEF RewarmPutEffect, IInv, IssuedInv
<1>7. PendingInv'
  BY <1>1, <1>3, <1>4 DEF RewarmPutEffect, IInv, PendingInv
<1>8. RunsInv'
  BY <1>1, <1>3, <1>4 DEF RewarmPutEffect, IInv, RunsInv
<1>9. LockInv'
  BY <1>1, <1>3, <1>4 DEF RewarmPutEffect, IInv, LockInv, PendingInv
<1> QED BY <1>2, <1>5, <1>6, <1>7, <1>8, <1>9 DEF IInv

RewarmRecordEffect(c) ==
  /\ client[c].pc = "rewarm_record" /\ GotEffect(c)
  /\ generation' = client[c].gen
  /\ Mark("overlap", Overtaken(c))
  /\ UNCHANGED <<entry, known, invalidation, cleaned, next_generation, spill_file, spillable,
                 jobs, writing, pressure, runs, newest, timely>>

LEMMA RewarmRecordFacts ==
  ASSUME TypeOK, NEW c \in Clients, RewarmRecord(c)
  PROVE  RewarmRecordEffect(c)
<1>1. GotEffect(c)
  BY GotFacts DEF RewarmRecord
<1> QED BY <1>1 DEF RewarmRecord, RewarmRecordEffect, AtStep, spillVars

LEMMA RewarmRecordPreserves ==
  ASSUME IInv, NEW c \in Clients, RewarmRecord(c)
  PROVE  IInv'
<1>1. RewarmRecordEffect(c)
  BY RewarmRecordFacts DEF IInv
<1>2. Typed
  BY TypedFacts DEF IInv
<1>3. /\ Pending(c) /\ client[c].gen \in 0 .. MaxGen
      /\ \A d \in Clients : Stores(d) => Carries(d)
  BY <1>1, BoundsAssumption DEF RewarmRecordEffect, IInv, HandsInv, Stores, Carries, Pending, Holds, Gens
<1>4. TypeOK'
  BY <1>1, <1>3 DEF RewarmRecordEffect, GotEffect, IInv, TypeOK
<1>5. /\ \A d \in Clients : /\ Carries(d)' <=> Carries(d) /\ d # c
                            /\ Pending(d)' <=> Pending(d) /\ d # c
                            /\ Stores(d)' <=> Stores(d) /\ d # c
                            /\ Holds(d)' <=> Holds(d) /\ d # c
                            /\ client'[d].pc = "write" <=> client[d].pc = "write" /\ d # c
                            /\ d # c => client'[d] = client[d]
  BY <1>1 DEF RewarmRecordEffect, GotEffect, Others, Carries, Pending, Stores, Holds
<1>6. HandsInv'
  BY <1>5 DEF IInv, HandsInv
<1>7. IssuedInv'
  BY <1>1, <1>2, <1>5 DEF RewarmRecordEffect, GotEffect, IInv, IssuedInv, Typed
<1>8. PendingInv'
  BY <1>1, <1>3, <1>5 DEF RewarmRecordEffect, IInv, PendingInv
<1>9. RunsInv'
  BY <1>1, <1>3, <1>5 DEF RewarmRecordEffect, IInv, RunsInv
<1>10. LockInv'
  BY <1>1, <1>5 DEF RewarmRecordEffect, IInv, LockInv
<1> QED BY <1>4, <1>6, <1>7, <1>8, <1>9, <1>10 DEF IInv

----------
(* modify_slot_in_place_if_current. *)

ModifyEffect(c) ==
  /\ client[c].pc = "modify" /\ client' \in [Clients -> Client] /\ Others(c)
  /\ client'[c].pc = "write" /\ client'[c].held = entry.val /\ client'[c].gen = entry.gen
  /\ client'[c].fresh = (entry.val = newest) /\ client'[c].expected = client[c].expected
  /\ entry # None /\ entry.val.edits < MaxEdits
  /\ \A d \in Clients : client[d].pc # "write"
  /\ UNCHANGED <<cacheVars, spillVars, runs, ghostVars>>

LEMMA ModifyFacts ==
  ASSUME TypeOK, NEW c \in Clients, Modify(c)
  PROVE  LooksEffect(c) \/ ModifyEffect(c)
<1>1. /\ client[c].pc = "modify" /\ ~Carries(c) /\ UNCHANGED <<cacheVars, spillVars, runs, ghostVars>>
  BY DEF Modify, AtStep, Carries, Pending, Holds
<1>2. CASE ~Editable(c)
  BY <1>1, <1>2, FinishFacts DEF Modify, LooksEffect, Idle
<1>3. CASE Editable(c)
  <2> DEFINE f == entry.val = newest
             moved == [client[c] EXCEPT !.pc = "write", !.held = entry.val,
                                        !.gen = entry.gen, !.fresh = f]
  <2>1. client \in [Clients -> Client] /\ client[c] \in Client /\ entry # None
    BY <1>3 DEF TypeOK, Editable, Live
  <2>2. entry.val \in Value \cup {None} /\ entry.gen \in 0 .. MaxGen /\ f \in BOOLEAN
    BY <2>1, BoundsAssumption DEF TypeOK, Entry, Gens
  <2>3. client' = [client EXCEPT ![c] = moved] /\ entry.val.edits < MaxEdits
    BY <1>3 DEF Modify
  <2>4. f = (entry.val = newest)
    OBVIOUS
  <2> HIDE DEF f
  <2>5. moved \in Client /\ moved.pc = "write" /\ moved.held = entry.val /\ moved.fresh = f
        /\ moved.gen = entry.gen /\ moved.expected = client[c].expected
    BY <2>1, <2>2 DEF Client, Labels
  <2>6. client'[c] = moved /\ client' \in [Clients -> Client] /\ Others(c)
    BY <2>1, <2>3, <2>5 DEF Others
  <2>7. \A d \in Clients : client[d].pc # "write"
    BY DEF Modify, WriteLockFree, At
  <2> HIDE DEF moved
  <2> QED BY <1>1, <2>1, <2>3, <2>4, <2>5, <2>6, <2>7 DEF ModifyEffect
<1> QED BY <1>2, <1>3

LEMMA ModifyPreserves ==
  ASSUME IInv, NEW c \in Clients, ModifyEffect(c)
  PROVE  IInv'
<1> USE DEF cacheVars, spillVars, ghostVars
<1>1. TypeOK'
  BY DEF ModifyEffect, IInv, TypeOK
<1>2. Typed
  BY TypedFacts DEF IInv
<1>3. /\ \A d \in Clients : /\ Carries(d)' <=> Carries(d) \/ d = c
                            /\ Pending(d)' <=> Pending(d)
                            /\ Stores(d)' <=> Stores(d)
                            /\ Holds(d)' <=> Holds(d)
                            /\ client'[d].pc = "write" <=> d = c
                            /\ d # c => client'[d] = client[d]
      /\ ~Stores(c) /\ ~Pending(c) /\ ~Holds(c) /\ client[c].pc # "write"
  BY DEF ModifyEffect, Others, Carries, Pending, Stores, Holds
<1>4. HandsInv'
  BY <1>2, <1>3 DEF ModifyEffect, IInv, HandsInv, Typed, IsGen, IsValue
<1>5. IssuedInv'
  BY <1>3 DEF ModifyEffect, IInv, IssuedInv
<1>6. PendingInv'
  BY <1>3 DEF ModifyEffect, IInv, PendingInv
<1>7. RunsInv'
  BY <1>3 DEF ModifyEffect, IInv, RunsInv
<1>8. LockInv'
  BY <1>3 DEF ModifyEffect, IInv, LockInv
<1> QED BY <1>1, <1>4, <1>5, <1>6, <1>7, <1>8 DEF IInv

WriteBackEffect(c) ==
  /\ client[c].pc = "write" /\ client' \in [Clients -> Client] /\ Others(c)
  /\ client'[c] = Idle
  /\ entry' \in Entry /\ entry' # None /\ entry'.gen = client[c].gen /\ entry'.expired = FALSE
  /\ entry'.val \in Value /\ entry'.val = [run |-> client[c].held.run, edits |-> client[c].held.edits + 1]
  /\ entry'.val.run = client[c].held.run /\ entry'.val.edits = client[c].held.edits + 1
  /\ \/ /\ newest # None /\ newest.run = client[c].held.run /\ newest.edits < MaxEdits
        /\ newest' = [run |-> newest.run, edits |-> newest.edits + 1]
        /\ newest' \in Value /\ newest' # None
        /\ newest'.run = newest.run /\ newest'.edits = newest.edits + 1
     \/ newest' = newest /\ (newest # None => newest.run # client[c].held.run
                                              \/ ~(newest.edits < MaxEdits))
  /\ Mark("edit", client[c].fresh /\ Overtaken(c))
  /\ UNCHANGED <<known, generation, invalidation, cleaned, next_generation, spill_file,
                 spillable, jobs, writing, pressure, runs, timely>>

LEMMA Incremented ==
  ASSUME NEW v \in Value, v.edits < MaxEdits
  PROVE  /\ [v EXCEPT !.edits = @ + 1] = [run |-> v.run, edits |-> v.edits + 1]
         /\ [run |-> v.run, edits |-> v.edits + 1] \in Value
BY BoundsAssumption DEF Value

LEMMA WriteBackFacts ==
  ASSUME IInv, NEW c \in Clients, WriteBack(c)
  PROVE  WriteBackEffect(c)
<1>1. client[c].pc = "write" /\ client' \in [Clients -> Client] /\ Others(c) /\ client'[c] = Idle
  BY FinishFacts DEF WriteBack, AtStep, IInv
<1>2. client[c].held \in Value /\ client[c].gen \in Gens /\ client[c].held.edits < MaxEdits
  BY <1>1 DEF IInv, HandsInv, LockInv, Carries
<1> DEFINE edited == [run |-> client[c].held.run, edits |-> client[c].held.edits + 1]
<1>3. edited \in Value /\ [client[c].held EXCEPT !.edits = @ + 1] = edited
  BY <1>2, Incremented
<1>4. entry' = [val |-> edited, gen |-> client[c].gen, expired |-> FALSE]
  BY <1>3 DEF WriteBack
<1>5. newest' = IF newest # None /\ newest.run = client[c].held.run /\ newest.edits < MaxEdits
                THEN [newest EXCEPT !.edits = @ + 1] ELSE newest
  <2>1. edited.run = client[c].held.run
    OBVIOUS
  <2> QED BY <1>3, <2>1 DEF WriteBack
<1>6. edited.run = client[c].held.run /\ edited.edits = client[c].held.edits + 1
      /\ edited = [run |-> client[c].held.run, edits |-> client[c].held.edits + 1]
  OBVIOUS
<1> HIDE DEF edited
<1>7. entry' \in Entry
  BY <1>2, <1>3, <1>4 DEF Entry
<1>8. entry' # None /\ entry'.gen = client[c].gen /\ entry'.expired = FALSE /\ entry'.val = edited
  BY <1>4, <1>7, NoneAssumption
<1>9. CASE newest # None /\ newest.run = client[c].held.run /\ newest.edits < MaxEdits
  <2>1. newest \in Value
    BY <1>9 DEF IInv, TypeOK
  <2>2. newest' = [run |-> newest.run, edits |-> newest.edits + 1] /\ newest' \in Value
    BY <1>5, <1>9, <2>1, Incremented
  <2>3. newest' # None /\ newest'.run = newest.run /\ newest'.edits = newest.edits + 1
    BY <2>2, NoneAssumption
  <2> QED BY <1>1, <1>3, <1>6, <1>7, <1>8, <1>9, <2>2, <2>3 DEF WriteBack, WriteBackEffect, spillVars
<1>10. CASE ~(newest # None /\ newest.run = client[c].held.run /\ newest.edits < MaxEdits)
  <2>1. newest' = newest
    BY <1>5, <1>10
  <2> QED BY <1>1, <1>3, <1>6, <1>7, <1>8, <1>10, <2>1 DEF WriteBack, WriteBackEffect, spillVars
<1> QED BY <1>9, <1>10

LEMMA WriteBackPreserves ==
  ASSUME IInv, NEW c \in Clients, WriteBack(c)
  PROVE  IInv'
<1>1. WriteBackEffect(c)
  BY WriteBackFacts
<1>2. Typed
  BY TypedFacts DEF IInv
<1>3. Carries(c) /\ ~Stores(c) /\ ~Pending(c) /\ \A d \in Clients : Stores(d) => Carries(d)
  BY <1>1 DEF WriteBackEffect, Stores, Carries, Pending, Holds
<1>4. TypeOK'
  BY <1>1 DEF WriteBackEffect, IInv, TypeOK
<1>5. /\ \A d \in Clients : /\ Carries(d)' <=> Carries(d) /\ d # c
                            /\ Pending(d)' <=> Pending(d) /\ d # c
                            /\ Stores(d)' <=> Stores(d) /\ d # c
                            /\ Holds(d)' <=> Holds(d) /\ d # c
                            /\ client'[d].pc = "write" <=> client[d].pc = "write" /\ d # c
                            /\ d # c => client'[d] = client[d]
      /\ client'[c].expected = 0 /\ client'[c].gen = 0 /\ client'[c].pc = "idle"
  BY <1>1, Leaves DEF WriteBackEffect
<1>6. HandsInv'
  BY <1>5 DEF IInv, HandsInv
<1>7. IssuedInv'
  BY <1>1, <1>2, <1>5 DEF WriteBackEffect, IInv, IssuedInv, Typed
<1>8. PendingInv'
  BY <1>1, <1>3, <1>5 DEF WriteBackEffect, IInv, PendingInv
<1>9. RunsInv'
  BY <1>1, <1>3, <1>5 DEF WriteBackEffect, IInv, RunsInv
<1>10. LockInv'
  BY <1>1, <1>5 DEF WriteBackEffect, IInv, LockInv
<1> QED BY <1>4, <1>6, <1>7, <1>8, <1>9, <1>10 DEF IInv

----------
(* The queue of the spill worker, and an entry that leaves the cache. *)

\* The entry, if there is one, is gone; the job it may have become is the last.
Dropped(explicit) ==
  /\ entry' = None /\ jobs' \in Seq(Job)
  /\ \/ /\ entry # None => cleaned \/ (explicit /\ entry.gen \notin spillable)
        /\ UNCHANGED <<spillable, jobs>>
     \/ /\ entry # None /\ ~(cleaned \/ (explicit /\ entry.gen \notin spillable))
        /\ spillable' = spillable \cup {entry.gen}
        /\ \A i \in DOMAIN jobs : i \in DOMAIN jobs' /\ jobs'[i] = jobs[i]
        /\ \A i \in DOMAIN jobs' : i \in DOMAIN jobs \/ i = Len(jobs) + 1
        /\ Len(jobs) + 1 \in DOMAIN jobs' /\ Len(jobs) + 1 \notin DOMAIN jobs
        /\ jobs'[Len(jobs) + 1].val = entry.val /\ jobs'[Len(jobs) + 1].gen = entry.gen

LEMMA AppendFacts ==
  ASSUME NEW q \in Seq(Job), NEW j \in Job
  PROVE  /\ Append(q, j) \in Seq(Job)
         /\ \A i \in DOMAIN q : i \in DOMAIN Append(q, j) /\ Append(q, j)[i] = q[i]
         /\ \A i \in DOMAIN Append(q, j) : i \in DOMAIN q \/ i = Len(q) + 1
         /\ Len(q) + 1 \in DOMAIN Append(q, j) /\ Len(q) + 1 \notin DOMAIN q
         /\ Append(q, j)[Len(q) + 1] = j
<1>1. /\ Append(q, j) \in Seq(Job) /\ Len(q) \in Nat /\ Len(Append(q, j)) = Len(q) + 1
      /\ DOMAIN q = 1 .. Len(q) /\ DOMAIN Append(q, j) = 1 .. Len(q) + 1
  OBVIOUS
<1>2. /\ \A i \in 1 .. Len(q) : Append(q, j)[i] = q[i]
      /\ Append(q, j)[Len(q) + 1] = j
  OBVIOUS
<1> QED BY <1>1, <1>2

LEMMA TailFacts ==
  ASSUME NEW q \in Seq(Job), q # << >>
  PROVE  /\ Tail(q) \in Seq(Job) /\ Head(q) = q[1] /\ 1 \in DOMAIN q
         /\ \A i \in DOMAIN Tail(q) : i + 1 \in DOMAIN q /\ Tail(q)[i] = q[i + 1] /\ i + 1 # 1
                                      /\ i \in Nat
         /\ \A i \in DOMAIN q : i # 1 => \E k \in DOMAIN Tail(q) : k + 1 = i
<1>1. /\ Tail(q) \in Seq(Job) /\ Len(q) \in Nat /\ Len(q) >= 1 /\ Len(Tail(q)) = Len(q) - 1
      /\ Head(q) = q[1] /\ DOMAIN q = 1 .. Len(q) /\ DOMAIN Tail(q) = 1 .. Len(q) - 1
  OBVIOUS
<1>2. \A i \in 1 .. Len(q) - 1 : Tail(q)[i] = q[i + 1]
  OBVIOUS
<1>3. ASSUME NEW i \in DOMAIN q, i # 1
      PROVE  \E k \in DOMAIN Tail(q) : k + 1 = i
  <2>1. i - 1 \in DOMAIN Tail(q) /\ (i - 1) + 1 = i
    BY <1>1, <1>3
  <2> QED BY <2>1
<1> QED BY <1>1, <1>2, <1>3

LEMMA DropFacts ==
  ASSUME Typed, NEW explicit,
         \/ entry = None /\ UNCHANGED <<entry, spillable, jobs>>
         \/ entry # None /\ Drop(explicit)
  PROVE  Dropped(explicit)
<1>1. CASE entry = None /\ UNCHANGED <<entry, spillable, jobs>>
  BY <1>1 DEF Dropped, Typed
<1>2. CASE /\ entry # None /\ Drop(explicit)
           /\ cleaned \/ (explicit /\ entry.gen \notin spillable)
  BY <1>2 DEF Dropped, Typed, Drop
<1>3. CASE /\ entry # None /\ Drop(explicit)
           /\ ~(cleaned \/ (explicit /\ entry.gen \notin spillable))
  <2> DEFINE j == [val |-> entry.val, gen |-> entry.gen]
  <2>1. j \in Job /\ j.val = entry.val /\ j.gen = entry.gen /\ jobs \in Seq(Job)
    BY <1>3 DEF Typed, Job, IsValue, IsGen
  <2>2. entry' = None /\ spillable' = spillable \cup {entry.gen} /\ jobs' = Append(jobs, j)
    BY <1>3 DEF Drop
  <2> HIDE DEF j
  <2>3. /\ Append(jobs, j) \in Seq(Job)
        /\ \A i \in DOMAIN jobs : i \in DOMAIN Append(jobs, j) /\ Append(jobs, j)[i] = jobs[i]
        /\ \A i \in DOMAIN Append(jobs, j) : i \in DOMAIN jobs \/ i = Len(jobs) + 1
        /\ Len(jobs) + 1 \in DOMAIN Append(jobs, j) /\ Len(jobs) + 1 \notin DOMAIN jobs
        /\ Append(jobs, j)[Len(jobs) + 1] = j
    BY <2>1, AppendFacts
  <2> QED BY <1>3, <2>1, <2>2, <2>3 DEF Dropped
<1> QED BY <1>1, <1>2, <1>3

\* A drop moves a recorded generation only.
LEMMA DropKeeps ==
  ASSUME IInv, Typed, NEW explicit, Dropped(explicit),
         entry # None => explicit = TRUE \/ entry.expired = TRUE
  PROVE  /\ spillable' \subseteq Gens
         /\ \A g \in spillable' : g < next_generation
         /\ \A i \in DOMAIN jobs' : jobs'[i].gen < next_generation /\ jobs'[i].val.run <= runs
         /\ \A d \in Clients : Pending(d) =>
              /\ client[d].gen \notin spillable'
              /\ \A i \in DOMAIN jobs' : jobs'[i].gen # client[d].gen
         /\ \A d \in Clients : Stores(d) =>
              \A i \in DOMAIN jobs' : jobs'[i].val.run # client[d].held.run
<1>1. CASE UNCHANGED <<spillable, jobs>>
  BY <1>1 DEF Typed, IInv, IssuedInv, PendingInv, RunsInv
<1>2. CASE /\ entry # None /\ ~(cleaned \/ (explicit /\ entry.gen \notin spillable))
           /\ spillable' = spillable \cup {entry.gen}
           /\ \A i \in DOMAIN jobs : i \in DOMAIN jobs' /\ jobs'[i] = jobs[i]
           /\ \A i \in DOMAIN jobs' : i \in DOMAIN jobs \/ i = Len(jobs) + 1
           /\ Len(jobs) + 1 \in DOMAIN jobs'
           /\ jobs'[Len(jobs) + 1].val = entry.val /\ jobs'[Len(jobs) + 1].gen = entry.gen
  <2>1. \A d \in Clients : Pending(d) => client[d].gen # entry.gen
    BY <1>2 DEF IInv, PendingInv
  <2>2. entry.gen \in Gens /\ entry.gen < next_generation /\ entry.val.run <= runs
    BY <1>2 DEF IInv, IssuedInv, RunsInv, Typed, IsGen
  <2>3. /\ spillable' \subseteq Gens
        /\ \A g \in spillable' : g < next_generation
    BY <1>2, <2>2 DEF Typed, IInv, IssuedInv
  <2>4. \A i \in DOMAIN jobs' : jobs'[i].gen < next_generation /\ jobs'[i].val.run <= runs
    BY <1>2, <2>2 DEF IInv, IssuedInv, RunsInv
  <2>5. \A d \in Clients : Pending(d) =>
              /\ client[d].gen \notin spillable'
              /\ \A i \in DOMAIN jobs' : jobs'[i].gen # client[d].gen
    BY <1>2, <2>1 DEF IInv, PendingInv
  <2>6. \A d \in Clients : Stores(d) =>
              \A i \in DOMAIN jobs' : jobs'[i].val.run # client[d].held.run
    BY <1>2 DEF IInv, RunsInv
  <2> QED BY <2>3, <2>4, <2>5, <2>6
<1> QED BY <1>1, <1>2 DEF Dropped

----------
(* The cache and the spill worker. *)

ExpireEffect ==
  /\ entry # None /\ entry' \in Entry /\ entry' # None
  /\ entry'.val = entry.val /\ entry'.gen = entry.gen /\ entry'.expired = TRUE
  /\ \A c \in Clients : client[c].pc \notin {"record", "rewarm_record"}
  /\ UNCHANGED <<known, generation, invalidation, cleaned, next_generation, spillVars,
                 clientVars, ghostVars>>

LEMMA ExpireFacts ==
  ASSUME TypeOK, Expire
  PROVE  ExpireEffect
<1>1. entry # None /\ entry \in Entry /\ entry' = [entry EXCEPT !.expired = TRUE]
  BY DEF TypeOK, Expire, Live
<1>2. entry' \in Entry /\ entry'.val = entry.val /\ entry'.gen = entry.gen
  BY <1>1 DEF Entry
<1>3. entry'.expired = TRUE
  BY <1>1 DEF Entry
<1>4. \A c \in Clients : client[c].pc \notin {"record", "rewarm_record"}
  BY DEF Expire, At
<1> QED BY <1>1, <1>2, <1>3, <1>4, NoneAssumption DEF Expire, ExpireEffect

LEMMA ExpirePreserves ==
  ASSUME IInv, Expire
  PROVE  IInv'
<1> USE DEF spillVars, clientVars, ghostVars
<1>1. ExpireEffect
  BY ExpireFacts DEF IInv
<1>2. TypeOK'
  BY <1>1 DEF ExpireEffect, IInv, TypeOK
<1>3. \A d \in Clients : /\ Carries(d)' <=> Carries(d)
                         /\ Pending(d)' <=> Pending(d)
                         /\ Stores(d)' <=> Stores(d)
                         /\ Holds(d)' <=> Holds(d)
                         /\ Pending(d) => Holds(d)
  BY <1>1 DEF ExpireEffect, Carries, Pending, Stores, Holds
<1>4. HandsInv'
  BY <1>1, <1>3 DEF ExpireEffect, IInv, HandsInv
<1>5. IssuedInv'
  BY <1>1 DEF ExpireEffect, IInv, IssuedInv
<1>6. PendingInv'
  BY <1>1, <1>3 DEF ExpireEffect, IInv, PendingInv
<1>7. RunsInv'
  BY <1>1, <1>3 DEF ExpireEffect, IInv, RunsInv
<1>8. LockInv'
  BY <1>1 DEF ExpireEffect, IInv, LockInv
<1> QED BY <1>2, <1>4, <1>5, <1>6, <1>7, <1>8 DEF IInv

EvictEffect ==
  /\ entry # None /\ entry.expired = TRUE /\ Dropped(FALSE)
  /\ UNCHANGED <<known, generation, invalidation, cleaned, next_generation, spill_file,
                 writing, pressure, clientVars, ghostVars>>

PressureDropEffect ==
  /\ pressure # 0 /\ pressure' = 0 /\ Dropped(TRUE)
  /\ entry # None => Mark("pressure", ~cleaned /\ entry.gen # pressure)
  /\ entry = None => UNCHANGED raced
  /\ UNCHANGED <<known, generation, invalidation, cleaned, next_generation, spill_file,
                 writing, clientVars, newest, timely>>

LEMMA EvictFacts ==
  ASSUME Typed, Evict
  PROVE  EvictEffect
<1>1. Dropped(FALSE) /\ entry # None /\ entry.expired
  BY DropFacts DEF Evict
<1>2. entry.expired = TRUE
  BY <1>1 DEF Typed, Entry
<1> QED BY <1>1, <1>2 DEF Evict, EvictEffect

LEMMA PressureDropFacts ==
  ASSUME Typed, PressureDrop
  PROVE  PressureDropEffect
<1>1. Dropped(TRUE)
  BY DropFacts DEF PressureDrop
<1> QED BY <1>1 DEF PressureDrop, PressureDropEffect

LEMMA DropPreserves ==
  ASSUME IInv, EvictEffect \/ PressureDropEffect
  PROVE  IInv'
<1> USE DEF clientVars, ghostVars
<1>1. /\ \E x \in BOOLEAN : Dropped(x) /\ (entry # None => x = TRUE \/ entry.expired = TRUE)
      /\ entry' = None /\ jobs' \in Seq(Job) /\ pressure' \in {0, pressure} /\ timely' = timely
      /\ UNCHANGED <<known, generation, invalidation, cleaned, next_generation, spill_file,
                 writing, clientVars, newest>>
  BY DEF EvictEffect, PressureDropEffect, Dropped
<1>2. Typed
  BY TypedFacts DEF IInv
<1>3. /\ spillable' \subseteq Gens
      /\ \A g \in spillable' : g < next_generation
      /\ \A i \in DOMAIN jobs' : jobs'[i].gen < next_generation /\ jobs'[i].val.run <= runs
      /\ \A d \in Clients : Pending(d) =>
           /\ client[d].gen \notin spillable'
           /\ \A i \in DOMAIN jobs' : jobs'[i].gen # client[d].gen
      /\ \A d \in Clients : Stores(d) =>
              \A i \in DOMAIN jobs' : jobs'[i].val.run # client[d].held.run
  BY <1>1, <1>2, DropKeeps
<1>4. \A d \in Clients : /\ Carries(d)' <=> Carries(d)
                         /\ Pending(d)' <=> Pending(d)
                         /\ Stores(d)' <=> Stores(d)
                         /\ Holds(d)' <=> Holds(d)
                         /\ Pending(d) => client[d].gen # 0
  BY <1>1, <1>2 DEF Carries, Pending, Stores, Holds, Typed, IsGen
<1>5. TypeOK'
  BY <1>1, <1>3, BoundsAssumption DEF IInv, TypeOK
<1>6. HandsInv'
  BY <1>1, <1>4 DEF IInv, HandsInv
<1>7. IssuedInv'
  BY <1>1, <1>2, <1>3 DEF IInv, IssuedInv, Typed
<1>8. PendingInv'
  BY <1>1, <1>3, <1>4 DEF IInv, PendingInv
<1>9. RunsInv'
  BY <1>1, <1>3, <1>4 DEF IInv, RunsInv
<1>10. LockInv'
  BY <1>1 DEF IInv, LockInv
<1> QED BY <1>5, <1>6, <1>7, <1>8, <1>9, <1>10 DEF IInv

LEMMA PressureMarkPreserves ==
  ASSUME IInv, PressureMark
  PROVE  IInv'
<1> USE DEF cacheVars, clientVars, ghostVars
<1>1. /\ generation # 0 /\ pressure' = generation /\ spillable' = spillable \cup {generation}
      /\ UNCHANGED <<cacheVars, spill_file, jobs, writing, clientVars, ghostVars>>
  BY DEF PressureMark
<1>2. \A d \in Clients : /\ Carries(d)' <=> Carries(d)
                         /\ Pending(d)' <=> Pending(d)
                         /\ Stores(d)' <=> Stores(d)
                         /\ Holds(d)' <=> Holds(d)
  BY <1>1 DEF Carries, Pending, Stores, Holds
<1>3. TypeOK'
  <2>1. generation \in Gens
    BY <1>1, BoundsAssumption DEF IInv, TypeOK, Gens
  <2> QED BY <1>1, <2>1 DEF IInv, TypeOK
<1>4. HandsInv'
  BY <1>1, <1>2 DEF IInv, HandsInv
<1>5. IssuedInv'
  BY <1>1 DEF IInv, IssuedInv
<1>6. PendingInv'
  BY <1>1, <1>2 DEF IInv, PendingInv
<1>7. RunsInv'
  BY <1>1, <1>2 DEF IInv, RunsInv
<1>8. LockInv'
  BY <1>1 DEF IInv, LockInv
<1> QED BY <1>3, <1>4, <1>5, <1>6, <1>7, <1>8 DEF IInv

TakeJobEffect ==
  /\ writing = None /\ 1 \in DOMAIN jobs /\ jobs' \in Seq(Job)
  /\ \A i \in DOMAIN jobs' : i + 1 \in DOMAIN jobs /\ jobs'[i] = jobs[i + 1] /\ i + 1 # 1
                             /\ i \in Nat
  /\ \A i \in DOMAIN jobs : i # 1 => \E k \in DOMAIN jobs' : k + 1 = i
  /\ \/ /\ StillSpillable(jobs[1]) /\ writing' = jobs[1]
        /\ timely' = (jobs[1].val = newest)
        /\ Mark("spill", jobs[1].val # newest /\ At(Unrecorded) # {})
        /\ spillable' = spillable
     \/ /\ ~StillSpillable(jobs[1]) /\ spillable' = spillable \ {jobs[1].gen}
        /\ UNCHANGED <<writing, raced, timely>>
  /\ UNCHANGED <<cacheVars, spill_file, pressure, clientVars, newest>>

LEMMA TakeJobFacts ==
  ASSUME Typed, TakeJob
  PROVE  TakeJobEffect
<1>1. jobs \in Seq(Job) /\ jobs # << >> /\ jobs' = Tail(jobs)
  BY DEF Typed, TakeJob
<1>2. /\ Tail(jobs) \in Seq(Job) /\ Head(jobs) = jobs[1] /\ 1 \in DOMAIN jobs
      /\ \A i \in DOMAIN Tail(jobs) : /\ i + 1 \in DOMAIN jobs /\ Tail(jobs)[i] = jobs[i + 1]
                                      /\ i + 1 # 1 /\ i \in Nat
      /\ \A i \in DOMAIN jobs : i # 1 => \E k \in DOMAIN Tail(jobs) : k + 1 = i
  BY <1>1, TailFacts
<1>3. CASE StillSpillable(Head(jobs))
  BY <1>1, <1>2, <1>3 DEF TakeJob, TakeJobEffect
<1>4. CASE ~StillSpillable(Head(jobs))
  BY <1>1, <1>2, <1>4 DEF TakeJob, TakeJobEffect
<1> QED BY <1>3, <1>4

LEMMA TakeJobPreserves ==
  ASSUME IInv, TakeJob
  PROVE  IInv'
<1> USE DEF cacheVars, clientVars
<1>1. TakeJobEffect
  BY TypedFacts, TakeJobFacts DEF IInv
<1>2. Typed
  BY TypedFacts DEF IInv
<1>3. /\ \A i \in DOMAIN jobs' : i + 1 \in DOMAIN jobs /\ jobs'[i] = jobs[i + 1]
      /\ spillable' \subseteq spillable /\ jobs[1] \in Job /\ 1 \in DOMAIN jobs
      /\ writing' \in {writing, jobs[1]} /\ jobs' \in Seq(Job) /\ writing = None
      /\ timely' \in BOOLEAN
      /\ UNCHANGED <<cacheVars, spill_file, pressure, clientVars, newest>>
  BY <1>1, <1>2 DEF TakeJobEffect, Typed, IInv, TypeOK
<1>4. \A d \in Clients : /\ Carries(d)' <=> Carries(d)
                         /\ Pending(d)' <=> Pending(d)
                         /\ Stores(d)' <=> Stores(d)
                         /\ Holds(d)' <=> Holds(d)
  BY <1>3 DEF Carries, Pending, Stores, Holds
<1>5. TypeOK'
  BY <1>3 DEF IInv, TypeOK
<1>6. HandsInv'
  BY <1>3, <1>4 DEF IInv, HandsInv
<1>7. IssuedInv'
  BY <1>3 DEF IInv, IssuedInv
<1>8. PendingInv'
  BY <1>3, <1>4 DEF IInv, PendingInv
<1>9. RunsInv'
  BY <1>3, <1>4 DEF IInv, RunsInv
<1>10. LockInv'
  BY <1>3 DEF IInv, LockInv
<1> QED BY <1>5, <1>6, <1>7, <1>8, <1>9, <1>10 DEF IInv

LEMMA WriteSpillPreserves ==
  ASSUME IInv, WriteSpill
  PROVE  IInv'
<1> USE DEF cacheVars, clientVars
<1>1. /\ writing # None /\ spill_file' = writing.val /\ spillable' \subseteq spillable
      /\ writing' = None /\ timely' \in BOOLEAN
      /\ UNCHANGED <<cacheVars, jobs, pressure, clientVars, newest>>
  BY DEF WriteSpill
<1>2. Typed
  BY TypedFacts DEF IInv
<1>3. \A d \in Clients : /\ Carries(d)' <=> Carries(d)
                         /\ Pending(d)' <=> Pending(d)
                         /\ Stores(d)' <=> Stores(d)
                         /\ Holds(d)' <=> Holds(d)
  BY <1>1 DEF Carries, Pending, Stores, Holds
<1>4. TypeOK'
  BY <1>1, <1>2 DEF IInv, TypeOK, Typed, IsValue
<1>5. HandsInv'
  BY <1>1, <1>3 DEF IInv, HandsInv
<1>6. IssuedInv'
  BY <1>1 DEF IInv, IssuedInv
<1>7. PendingInv'
  BY <1>1, <1>3 DEF IInv, PendingInv
<1>8. RunsInv'
  BY <1>1, <1>3 DEF IInv, RunsInv
<1>9. LockInv'
  BY <1>1 DEF IInv, LockInv
<1> QED BY <1>4, <1>5, <1>6, <1>7, <1>8, <1>9 DEF IInv

----------
(* remove_with_spill_cleanup. *)

BeginCloseEffect(c) ==
  /\ ~Carries(c) /\ client[c].pc = "idle" /\ client' \in [Clients -> Client] /\ Others(c)
  /\ client'[c].pc = "invalidate"
  /\ client'[c].gen = client[c].gen /\ client'[c].expected = client[c].expected
  /\ next_generation \in Gens /\ next_generation' = next_generation + 1
  /\ invalidation' = next_generation /\ cleaned' = TRUE
  /\ UNCHANGED <<entry, known, generation, spillVars, runs, ghostVars>>

LEMMA BeginCloseFacts ==
  ASSUME TypeOK, NEW c \in Clients, BeginClose(c)
  PROVE  BeginCloseEffect(c)
<1> DEFINE moved == [client[c] EXCEPT !.pc = "invalidate", !.op = "close"]
<1>1. client \in [Clients -> Client] /\ client[c] \in Client
      /\ next_generation \in 1 .. MaxGen + 1 /\ next_generation <= MaxGen
  BY DEF TypeOK, BeginClose, NewGeneration
<1>2. moved \in Client /\ moved.pc = "invalidate" /\ moved.expected = client[c].expected
      /\ moved.gen = client[c].gen
  BY <1>1 DEF Client, Labels
<1>3. client' = [client EXCEPT ![c] = moved]
  BY DEF BeginClose
<1>4. client'[c] = moved /\ client' \in [Clients -> Client] /\ Others(c)
  BY <1>1, <1>2, <1>3 DEF Others
<1>5. next_generation \in Gens
  BY <1>1, BoundsAssumption DEF Gens
<1> QED BY <1>2, <1>4, <1>5
        DEF BeginClose, BeginCloseEffect, AtStep, NewGeneration, Carries, Pending, Holds

LEMMA BeginClosePreserves ==
  ASSUME IInv, NEW c \in Clients, BeginClose(c)
  PROVE  IInv'
<1> USE DEF spillVars, ghostVars
<1>1. BeginCloseEffect(c)
  BY BeginCloseFacts DEF IInv
<1>2. Typed
  BY TypedFacts DEF IInv
<1>3. TypeOK'
  BY <1>1, <1>2, BoundsAssumption DEF BeginCloseEffect, IInv, TypeOK, Gens
<1>4. \A d \in Clients : /\ Carries(d)' <=> Carries(d) /\ d # c
                         /\ Pending(d)' <=> Pending(d) /\ d # c
                         /\ Stores(d)' <=> Stores(d) /\ d # c
                         /\ Holds(d)' <=> Holds(d) /\ d # c
                         /\ client'[d].pc = "write" <=> client[d].pc = "write" /\ d # c
                         /\ d # c => client'[d] = client[d]
                         /\ client'[d].gen = client[d].gen
                         /\ client'[d].expected = client[d].expected
  BY <1>1 DEF BeginCloseEffect, Others, Carries, Pending, Stores, Holds
<1>5. HandsInv'
  BY <1>4 DEF IInv, HandsInv
<1>6. IssuedInv'
  <2>1. \A n \in Nat : n < next_generation => n < next_generation'
    BY <1>1, <1>2 DEF BeginCloseEffect, Typed
  <2>2. invalidation' < next_generation'
    BY <1>1, <1>2 DEF BeginCloseEffect, Typed
  <2> QED BY <1>1, <1>2, <1>4, <2>1, <2>2 DEF BeginCloseEffect, IInv, IssuedInv, Typed, IsGen
<1>7. PendingInv'
  BY <1>1, <1>4 DEF BeginCloseEffect, IInv, PendingInv
<1>8. RunsInv'
  BY <1>1, <1>4 DEF BeginCloseEffect, IInv, RunsInv
<1>9. LockInv'
  BY <1>1, <1>4 DEF BeginCloseEffect, IInv, LockInv
<1> QED BY <1>3, <1>5, <1>6, <1>7, <1>8, <1>9 DEF IInv

InvalidateEffect(c) ==
  /\ client[c].pc = "invalidate" /\ client' \in [Clients -> Client] /\ Others(c)
  /\ Goes(c, "forget")
  /\ Dropped(TRUE) /\ newest' = None
  /\ UNCHANGED <<known, generation, invalidation, cleaned, next_generation, spill_file,
                 writing, pressure, runs, raced, timely>>

LEMMA InvalidateFacts ==
  ASSUME TypeOK, Typed, NEW c \in Clients, Invalidate(c)
  PROVE  InvalidateEffect(c)
<1>1. "forget" \in Labels /\ Goto(c, "forget") /\ client[c].pc = "invalidate"
  BY DEF Invalidate, Labels, AtStep
<1>2. client' \in [Clients -> Client] /\ Others(c) /\ Goes(c, "forget")
  BY <1>1, GotoFacts
<1>3. Dropped(TRUE)
  BY DropFacts DEF Invalidate
<1> QED BY <1>1, <1>2, <1>3 DEF Invalidate, InvalidateEffect

LEMMA InvalidatePreserves ==
  ASSUME IInv, NEW c \in Clients, Invalidate(c)
  PROVE  IInv'
<1>1. Typed
  BY TypedFacts DEF IInv
<1>2. InvalidateEffect(c)
  BY <1>1, InvalidateFacts DEF IInv
<1>3. Dropped(TRUE) /\ entry' = None /\ jobs' \in Seq(Job)
  BY <1>2 DEF InvalidateEffect, Dropped
<1>4. /\ spillable' \subseteq Gens
      /\ \A g \in spillable' : g < next_generation
      /\ \A i \in DOMAIN jobs' : jobs'[i].gen < next_generation /\ jobs'[i].val.run <= runs
      /\ \A d \in Clients : Pending(d) =>
           /\ client[d].gen \notin spillable'
           /\ \A i \in DOMAIN jobs' : jobs'[i].gen # client[d].gen
      /\ \A d \in Clients : Stores(d) =>
              \A i \in DOMAIN jobs' : jobs'[i].val.run # client[d].held.run
  BY <1>1, <1>3, DropKeeps
<1>5. /\ \A d \in Clients : /\ Carries(d)' <=> Carries(d)
                            /\ Pending(d)' <=> Pending(d)
                            /\ Stores(d)' <=> Stores(d)
                            /\ Holds(d)' <=> Holds(d)
                            /\ client'[d].pc = "write" <=> client[d].pc = "write"
                            /\ client'[d].gen = client[d].gen /\ client'[d].held = client[d].held
                            /\ client'[d].fresh = client[d].fresh
                            /\ client'[d].expected = client[d].expected
  BY <1>2 DEF InvalidateEffect, Others, Goes, Carries, Pending, Stores, Holds
<1>6. TypeOK'
  BY <1>2, <1>3, <1>4 DEF InvalidateEffect, IInv, TypeOK
<1>7. HandsInv'
  BY <1>5 DEF IInv, HandsInv
<1>8. IssuedInv'
  BY <1>2, <1>3, <1>4, <1>5 DEF InvalidateEffect, IInv, IssuedInv
<1>9. PendingInv'
  BY <1>2, <1>3, <1>4, <1>5 DEF InvalidateEffect, IInv, PendingInv
<1>10. RunsInv'
  BY <1>2, <1>3, <1>4, <1>5 DEF InvalidateEffect, IInv, RunsInv
<1>11. LockInv'
  BY <1>3, <1>5 DEF IInv, LockInv
<1> QED BY <1>6, <1>7, <1>8, <1>9, <1>10, <1>11 DEF IInv

ForgetEffect(c) ==
  /\ client[c].pc = "forget" /\ client' \in [Clients -> Client] /\ Others(c)
  /\ client'[c] = Idle
  /\ spill_file' = None /\ known' = FALSE /\ generation' = 0 /\ spillable' = {}
  /\ Mark("late", {entry, newest} # {None})
  /\ UNCHANGED <<entry, invalidation, cleaned, next_generation, jobs, writing, pressure,
                 runs, newest, timely>>

LEMMA ForgetFacts ==
  ASSUME TypeOK, NEW c \in Clients, Forget(c)
  PROVE  ForgetEffect(c)
<1>1. client' \in [Clients -> Client] /\ Others(c) /\ client'[c] = Idle
  BY FinishFacts DEF Forget
<1> QED BY <1>1 DEF Forget, ForgetEffect, AtStep

LEMMA ForgetPreserves ==
  ASSUME IInv, NEW c \in Clients, Forget(c)
  PROVE  IInv'
<1>1. ForgetEffect(c)
  BY ForgetFacts DEF IInv
<1>2. Typed
  BY TypedFacts DEF IInv
<1>3. TypeOK'
  <2>1. 0 \in 0 .. MaxGen
    BY BoundsAssumption
  <2> QED BY <1>1, <2>1 DEF ForgetEffect, IInv, TypeOK
<1>4. /\ \A d \in Clients : /\ Carries(d)' <=> Carries(d) /\ d # c
                            /\ Pending(d)' <=> Pending(d) /\ d # c
                            /\ Stores(d)' <=> Stores(d) /\ d # c
                            /\ Holds(d)' <=> Holds(d) /\ d # c
                            /\ client'[d].pc = "write" <=> client[d].pc = "write" /\ d # c
                            /\ d # c => client'[d] = client[d]
      /\ client'[c].expected = 0 /\ client'[c].gen = 0 /\ client'[c].pc = "idle"
  BY <1>1, Leaves DEF ForgetEffect
<1>5. \A d \in Clients : Pending(d) => client[d].gen # 0
  BY <1>2 DEF Typed, IsGen
<1>6. HandsInv'
  BY <1>4 DEF IInv, HandsInv
<1>7. IssuedInv'
  BY <1>1, <1>2, <1>4 DEF ForgetEffect, IInv, IssuedInv, Typed
<1>8. PendingInv'
  BY <1>1, <1>4, <1>5 DEF ForgetEffect, IInv, PendingInv
<1>9. RunsInv'
  BY <1>1, <1>4 DEF ForgetEffect, IInv, RunsInv
<1>10. LockInv'
  BY <1>1, <1>4 DEF ForgetEffect, IInv, LockInv
<1> QED BY <1>3, <1>6, <1>7, <1>8, <1>9, <1>10 DEF IInv

----------
(* IInv is inductive. *)

LEMMA InitIInv ==
  ASSUME Init
  PROVE  IInv
<1>1. \A c \in Clients : client[c] = Idle /\ ~Carries(c) /\ ~Pending(c) /\ ~Stores(c)
                         /\ client[c].pc # "write"
  BY DEF Init, Idle, Carries, Pending, Holds, Stores
<1>2. Idle \in Client
  BY BoundsAssumption DEF Idle, Client, Labels
<1>3. TypeOK
  <2>1. 0 \in 0 .. MaxGen /\ 1 \in 1 .. MaxGen + 1 /\ 0 \in 0 .. MaxRuns
    BY BoundsAssumption
  <2>2. client \in [Clients -> Client] /\ jobs \in Seq(Job)
    BY <1>2 DEF Init
  <2> QED BY <2>1, <2>2 DEF Init, TypeOK
<1>4. HandsInv
  BY <1>1 DEF HandsInv
<1>5. IssuedInv
  BY <1>1 DEF IssuedInv, Init, Idle
<1>6. PendingInv
  BY <1>1 DEF PendingInv
<1>7. RunsInv
  BY <1>1 DEF RunsInv, Init
<1>8. LockInv
  BY <1>1 DEF LockInv
<1> QED BY <1>3, <1>4, <1>5, <1>6, <1>7, <1>8 DEF IInv

\* Begin is a look or a close.
LEMMA BeginCases ==
  ASSUME TypeOK, NEW c \in Clients, Begin(c)
  PROVE  LooksEffect(c) \/ BeginClose(c)
<1>1. CASE BeginStore(c)
  BY <1>1, BeginStoreFacts
<1>2. CASE BeginGet(c, "fetch", 0)
  <2>1. 0 \in 0 .. MaxRuns
    BY BoundsAssumption
  <2> QED BY <1>2, <2>1, BeginGetFacts
<1>3. CASE \E o \in Operations \cap {"edit", "reexecute"}, r \in 1 .. runs : BeginGet(c, o, r)
  <2>1. PICK o \in {"edit", "reexecute"}, r \in 1 .. runs : BeginGet(c, o, r)
    BY <1>3
  <2>2. r \in 0 .. MaxRuns
    BY BoundsAssumption DEF TypeOK
  <2> QED BY <2>1, <2>2, BeginGetFacts
<1> QED BY <1>1, <1>2, <1>3 DEF Begin

LEMMA NextIInv ==
  ASSUME IInv, [Next]_vars
  PROVE  IInv'
<1>1. ASSUME NEW c \in Clients, Begin(c)
      PROVE  IInv'
  BY <1>1, BeginCases, LooksPreserves, BeginClosePreserves DEF IInv
<1>2. ASSUME NEW c \in Clients, Step(c)
      PROVE  IInv'
  <2>1. CASE CheckRefuses(c) \/ Lookup(c)
    BY <2>1, CheckRefusesFacts, LookupFacts, LooksPreserves DEF IInv
  <2>2. CASE ReadSpill(c)
    BY <2>2, ReadSpillFacts, LooksPreserves, ReadsPreserves DEF IInv
  <2>3. CASE Modify(c)
    BY <2>3, ModifyFacts, LooksPreserves, ModifyPreserves DEF IInv
  <2>4. CASE CheckVersion(c) \/ ClearMarkers(c) \/ Put(c) \/ Record(c)
    BY <2>4, CheckVersionPreserves, ClearMarkersPreserves, PutPreserves, RecordPreserves
  <2>5. CASE Rewarm(c) \/ RewarmPut(c) \/ RewarmRecord(c)
    BY <2>5, RewarmPreserves, RewarmPutPreserves, RewarmRecordPreserves
  <2>6. CASE WriteBack(c) \/ Invalidate(c) \/ Forget(c)
    BY <2>6, WriteBackPreserves, InvalidatePreserves, ForgetPreserves
  <2> QED BY <1>2, <2>1, <2>2, <2>3, <2>4, <2>5, <2>6 DEF Step
<1>3. Typed
  BY TypedFacts DEF IInv
<1>4. CASE Evict \/ PressureDrop
  BY <1>3, <1>4, EvictFacts, PressureDropFacts, DropPreserves
<1>5. CASE Expire \/ PressureMark \/ TakeJob \/ WriteSpill
  BY <1>5, ExpirePreserves, PressureMarkPreserves, TakeJobPreserves, WriteSpillPreserves
<1>6. CASE UNCHANGED vars
  <2>1. UNCHANGED <<entry, known, generation, invalidation, cleaned, next_generation, spill_file,
                    spillable, jobs, writing, pressure, client, runs, newest, timely>>
    BY <1>6 DEF vars, cacheVars, spillVars, clientVars, ghostVars
  <2> QED BY <2>1 DEF IInv, TypeOK, HandsInv, IssuedInv, PendingInv, RunsInv, LockInv,
                      Carries, Pending, Holds, Stores
<1> QED BY <1>1, <1>2, <1>4, <1>5, <1>6 DEF Next

----------
(* As long as no gap is hit. *)

LEMMA Unmarked ==
  ASSUME NEW g, NEW wrong, Mark(g, wrong), raced' = {}
  PROVE  raced = {} /\ ~wrong
BY DEF Mark

LEMMA SomeAt ==
  ASSUME NEW L
  PROVE  At(L) # {} <=> Some(L)
BY DEF At, Some

LEMMA NewestNotStale ==
  ASSUME Typed, newest # None
  PROVE  ~Stale(newest)
BY DEF Typed, IsValue, Stale

LEMMA LooksCalm ==
  ASSUME CalmInv, NEW c \in Clients, LooksEffect(c)
  PROVE  CalmInv'
<1> USE DEF cacheVars, spillVars, ghostVars
<1>1. \A d \in Clients :
        /\ client'[d].pc \in {"clear", "put", "record", "rewarm_record", "rewarm", "rewarm_put",
                              "write", "invalidate", "forget"} => client'[d] = client[d]
        /\ client[d].pc \in {"clear", "put", "record", "rewarm_record", "rewarm", "rewarm_put",
                             "write", "invalidate", "forget"} => client'[d] = client[d]
  BY DEF LooksEffect, Others, Carries, Pending, Holds
<1>2. /\ Some({"put"})' <=> Some({"put"})
      /\ Some({"forget"})' <=> Some({"forget"})
      /\ Some({"invalidate"})' <=> Some({"invalidate"})
      /\ Some({"record", "forget"})' <=> Some({"record", "forget"})
      /\ Some({"clear", "put"})' <=> Some({"clear", "put"})
      /\ Some({"clear", "put", "invalidate"})' <=> Some({"clear", "put", "invalidate"})
  BY <1>1 DEF Some
<1>3. MovesInv'
  BY DEF LooksEffect, CalmInv, MovesInv
<1>4. EntryInv'
  BY <1>1, <1>2 DEF LooksEffect, CalmInv, EntryInv
<1>5. SpillInv'
  BY <1>1, <1>2 DEF LooksEffect, CalmInv, SpillInv, Closing
<1>6. KeptInv'
  BY <1>1, <1>2 DEF LooksEffect, CalmInv, KeptInv, StillSpillable
<1>7. ClosedInv'
  BY <1>1, <1>2 DEF LooksEffect, CalmInv, ClosedInv, Closing
<1>8. Closing' <=> Closing
  BY <1>2 DEF Closing
<1>9. OneCopy => OneCopy'
  BY <1>1 DEF LooksEffect, OneCopy, EntryAlone, FileAlone, WritingAlone, JobAlone, ReaderAlone, Stale
<1> QED BY <1>3, <1>4, <1>5, <1>6, <1>7, <1>8, <1>9 DEF CalmInv

LEMMA CheckVersionCalm ==
  ASSUME IInv, CalmInv, NEW c \in Clients, CheckVersion(c)
  PROVE  CalmInv'
<1>1. CheckVersionEffect(c)
  BY CheckVersionFacts DEF IInv
<1>2. /\ \A d \in Clients : d # c => client'[d] = client[d]
      /\ client[c].pc = "check" /\ client'[c].pc = "clear"
  BY <1>1 DEF CheckVersionEffect, Others
<1>3. /\ Some({"put"})' <=> Some({"put"})
      /\ Some({"forget"})' <=> Some({"forget"})
      /\ Some({"invalidate"})' <=> Some({"invalidate"})
      /\ Some({"record", "forget"})' <=> Some({"record", "forget"})
      /\ Some({"clear", "put", "invalidate"})'
  BY <1>2 DEF Some
<1>4. MovesInv'
  BY <1>1 DEF CheckVersionEffect, CalmInv, MovesInv
<1>5. EntryInv'
  BY <1>1, <1>2, <1>3 DEF CheckVersionEffect, CalmInv, EntryInv
<1>6. SpillInv'
  BY <1>1, <1>2, <1>3 DEF CheckVersionEffect, CalmInv, SpillInv, Closing
<1>7. KeptInv'
  BY <1>3 DEF KeptInv
<1>8. ClosedInv'
  BY <1>1, <1>2, <1>3 DEF CheckVersionEffect, CalmInv, ClosedInv, Closing
<1>9. Closing' <=> Closing
  BY <1>3 DEF Closing
<1>10. OneCopy => OneCopy'
  BY <1>1, <1>2 DEF CheckVersionEffect, OneCopy, EntryAlone, FileAlone, WritingAlone, JobAlone,
                    ReaderAlone, Stale
<1> QED BY <1>4, <1>5, <1>6, <1>7, <1>8, <1>9, <1>10 DEF CalmInv

LEMMA ClearMarkersCalm ==
  ASSUME IInv, CalmInv, NEW c \in Clients, ClearMarkers(c)
  PROVE  CalmInv'
<1>1. ClearMarkersEffect(c)
  BY ClearMarkersFacts DEF IInv
<1>2. /\ \A d \in Clients : d # c => client'[d] = client[d]
      /\ client[c].pc = "clear" /\ client'[c].pc = "put"
  BY <1>1 DEF ClearMarkersEffect, Others, Goes
<1>3. /\ Some({"put"})'
      /\ Some({"forget"})' <=> Some({"forget"})
      /\ Some({"invalidate"})' <=> Some({"invalidate"})
      /\ Some({"record", "forget"})' <=> Some({"record", "forget"})
      /\ Some({"clear", "put"})
      /\ Some({"clear", "put", "invalidate"})'
  BY <1>2 DEF Some
<1>4. MovesInv'
  BY <1>1 DEF ClearMarkersEffect, CalmInv, MovesInv
<1>5. EntryInv'
  BY <1>1, <1>2, <1>3 DEF ClearMarkersEffect, CalmInv, EntryInv
<1>6. SpillInv'
  BY <1>1, <1>2, <1>3 DEF ClearMarkersEffect, CalmInv, SpillInv, Closing
<1>7. KeptInv'
  BY <1>3 DEF KeptInv
<1>8. ClosedInv'
  BY <1>1, <1>2, <1>3 DEF ClearMarkersEffect, CalmInv, ClosedInv, Closing
<1>9. Closing' <=> Closing
  BY <1>3 DEF Closing
<1>10. OneCopy => OneCopy'
  BY <1>1, <1>2 DEF ClearMarkersEffect, OneCopy, EntryAlone, FileAlone, WritingAlone, JobAlone,
                    ReaderAlone, Stale
<1> QED BY <1>4, <1>5, <1>6, <1>7, <1>8, <1>9, <1>10 DEF CalmInv

LEMMA PutCalm ==
  ASSUME IInv, CalmInv, NEW c \in Clients, Put(c), raced' = {}
  PROVE  CalmInv'
<1>1. PutEffect(c) /\ Typed
  BY PutFacts, TypedFacts DEF IInv
<1>2. client[c].expected = invalidation /\ newest' = client[c].held
  <2>1. client[c].fresh = TRUE
    BY <1>1 DEF PutEffect, IInv, HandsInv, Stores
  <2>2. ~(client[c].fresh /\ client[c].expected # invalidation)
    BY <1>1, Unmarked DEF PutEffect
  <2> QED BY <1>1, <2>1, <2>2 DEF PutEffect
<1>3. /\ \A d \in Clients : d # c => client'[d] = client[d]
      /\ client[c].pc = "put" /\ client'[c].pc = "record" /\ client'[c].gen = client[c].gen
  BY <1>1 DEF PutEffect, Others, Goes
<1>4. /\ Some({"forget"})' <=> Some({"forget"})
      /\ Some({"record", "forget"})'
      /\ Some({"clear", "put"})
  BY <1>3 DEF Some
<1>5. /\ Pending(c) /\ Holds(c) /\ Stores(c) /\ Carries(c)
      /\ newest' # None /\ spill_file' = None /\ entry' # None
      /\ entry'.val = newest' /\ entry'.gen = client[c].gen
  BY <1>1, <1>2, <1>3, <1>4, ValueFacts
     DEF PutEffect, CalmInv, SpillInv, Pending, Holds, Stores, Carries
<1>6. MovesInv'
  BY <1>1, <1>5 DEF PutEffect, IInv, PendingInv, CalmInv, MovesInv
<1>7. EntryInv'
  BY <1>1, <1>3, <1>5 DEF PutEffect, IInv, PendingInv, EntryInv
<1>8. SpillInv'
  BY <1>1, <1>3, <1>4, <1>5 DEF PutEffect, CalmInv, SpillInv, Closing
<1>9. KeptInv'
  BY <1>5 DEF KeptInv
<1>10. ClosedInv'
  BY <1>1, <1>2, <1>3, <1>5 DEF PutEffect, CalmInv, ClosedInv
<1>11. OneCopy'
  <2>1. \A v : v.run # newest'.run => Stale(v)'
    BY DEF Stale
  <2>2. writing' # None => Stale(writing.val)'
    BY <1>1, <1>2, <1>5, <2>1 DEF PutEffect, IInv, RunsInv
  <2>3. \A i \in DOMAIN jobs : Stale(jobs[i].val)'
    BY <1>1, <1>2, <1>5, <2>1 DEF PutEffect, IInv, RunsInv
  <2>4. \A d \in Clients : client'[d].pc = "rewarm_put" => Stale(client[d].held)'
    BY <1>1, <1>2, <1>3, <1>5, <2>1 DEF PutEffect, IInv, RunsInv, Carries, Pending, Holds
  <2> QED BY <1>1, <1>3, <1>5, <2>2, <2>3, <2>4
          DEF PutEffect, OneCopy, EntryAlone, FileAlone, WritingAlone, JobAlone, ReaderAlone
<1> QED BY <1>6, <1>7, <1>8, <1>9, <1>10, <1>11 DEF CalmInv

LEMMA RecordCalm ==
  ASSUME IInv, CalmInv, NEW c \in Clients, RecordEffect(c) \/ RewarmRecordEffect(c), raced' = {}
  PROVE  CalmInv'
<1>1. /\ entry # None /\ entry.gen = client[c].gen /\ generation' = client[c].gen /\ Typed
      /\ client[c].pc \in {"record", "rewarm_record"}
      /\ client'[c].pc \in {"idle", "check", "modify"}
      /\ \A d \in Clients : d # c => client'[d] = client[d]
      /\ UNCHANGED <<entry, invalidation, cleaned, next_generation, spill_file, spillable,
                     jobs, writing, pressure, runs, newest, timely>>
  <2>1. ~Overtaken(c)
    BY Unmarked DEF RecordEffect, RewarmRecordEffect
  <2> QED BY <2>1, TypedFacts
          DEF IInv, RecordEffect, RewarmRecordEffect, GotEffect, Overtaken, Others, Idle
<1>2. /\ Some({"put"})' <=> Some({"put"})
      /\ Some({"forget"})' <=> Some({"forget"})
      /\ Some({"invalidate"})' <=> Some({"invalidate"})
      /\ Some({"clear", "put"})' <=> Some({"clear", "put"})
  BY <1>1 DEF Some
<1>3. /\ Pending(c) /\ newest # None
  BY <1>1 DEF Pending, CalmInv, EntryInv, Typed, IsValue
<1>4. MovesInv'
  BY <1>1 DEF CalmInv, MovesInv
<1>5. EntryInv'
  BY <1>1, <1>2 DEF CalmInv, EntryInv
<1>6. SpillInv'
  BY <1>1, <1>2, <1>3 DEF IInv, PendingInv, CalmInv, SpillInv, Closing
<1>7. KeptInv'
  BY <1>1 DEF KeptInv
<1>8. ClosedInv'
  BY <1>1, <1>2, <1>3 DEF CalmInv, ClosedInv, Closing
<1>9. Closing' <=> Closing
  BY <1>2 DEF Closing
<1>10. OneCopy => OneCopy'
  BY <1>1 DEF OneCopy, EntryAlone, FileAlone, WritingAlone, JobAlone, ReaderAlone, Stale
<1> QED BY <1>4, <1>5, <1>6, <1>7, <1>8, <1>9, <1>10 DEF CalmInv

LEMMA ReadsCalm ==
  ASSUME IInv, CalmInv, NEW c \in Clients, ReadsEffect(c)
  PROVE  CalmInv'
<1> USE DEF cacheVars, spillVars, ghostVars
<1>1. /\ \A d \in Clients : d # c => client'[d] = client[d]
      /\ client[c].pc = "read" /\ client'[c].pc = "rewarm"
  BY DEF ReadsEffect, Others
<1>2. client'[c].fresh = TRUE
  <2>1. spill_file = newest \/ At({"forget"}) # {}
    BY SomeAt DEF ReadsEffect, CalmInv, SpillInv, Closing
  <2> QED BY <2>1 DEF ReadsEffect
<1>3. /\ Some({"put"})' <=> Some({"put"})
      /\ Some({"forget"})' <=> Some({"forget"})
      /\ Some({"invalidate"})' <=> Some({"invalidate"})
      /\ Some({"record", "forget"})' <=> Some({"record", "forget"})
      /\ Some({"clear", "put"})' <=> Some({"clear", "put"})
      /\ Some({"clear", "put", "invalidate"})' <=> Some({"clear", "put", "invalidate"})
  BY <1>1 DEF Some
<1>4. MovesInv'
  BY DEF ReadsEffect, CalmInv, MovesInv
<1>5. EntryInv'
  BY <1>1, <1>3 DEF ReadsEffect, CalmInv, EntryInv
<1>6. SpillInv'
  BY <1>1, <1>2, <1>3 DEF ReadsEffect, CalmInv, SpillInv, Closing
<1>7. KeptInv'
  BY <1>1, <1>3 DEF ReadsEffect, CalmInv, KeptInv, StillSpillable
<1>8. ClosedInv'
  BY <1>1, <1>3 DEF ReadsEffect, CalmInv, ClosedInv, Closing
<1>9. Closing' <=> Closing
  BY <1>3 DEF Closing
<1>10. OneCopy => OneCopy'
  BY <1>1 DEF ReadsEffect, OneCopy, EntryAlone, FileAlone, WritingAlone, JobAlone, ReaderAlone,
              Stale
<1> QED BY <1>4, <1>5, <1>6, <1>7, <1>8, <1>9, <1>10 DEF CalmInv

LEMMA RewarmCalm ==
  ASSUME IInv, CalmInv, NEW c \in Clients, Rewarm(c), raced' = {}
  PROVE  CalmInv'
<1>1. RewarmEffect(c) /\ Typed
  BY RewarmFacts, TypedFacts DEF IInv
<1>2. /\ \A d \in Clients : d # c => client'[d] = client[d]
      /\ client[c].pc = "rewarm" /\ client'[c].pc = "rewarm_put"
      /\ client'[c].held = client[c].held /\ client'[c].fresh = client[c].fresh
      /\ spill_file' = None
  BY <1>1 DEF RewarmEffect, Others
<1>3. client[c].fresh = TRUE
  BY <1>2 DEF CalmInv, SpillInv
<1>4. spill_file = client[c].held /\ newest = client[c].held /\ newest # None
  <2>1. {spill_file, newest} = {client[c].held}
    BY <1>1, <1>3, Unmarked DEF RewarmEffect
  <2>2. client[c].held # None
    BY <1>1, <1>2 DEF Typed, Carries, IsValue
  <2> QED BY <2>1, <2>2
<1>5. /\ Some({"put"})' <=> Some({"put"})
      /\ Some({"forget"})' <=> Some({"forget"})
      /\ Some({"invalidate"})' <=> Some({"invalidate"})
      /\ Some({"record", "forget"})' <=> Some({"record", "forget"})
  BY <1>2 DEF Some
<1>6. MovesInv'
  BY <1>1 DEF RewarmEffect, CalmInv, MovesInv
<1>7. EntryInv'
  BY <1>1, <1>2, <1>5 DEF RewarmEffect, CalmInv, EntryInv
<1>8. SpillInv'
  BY <1>1, <1>2, <1>3, <1>5 DEF RewarmEffect, CalmInv, SpillInv, Closing
<1>9. KeptInv'
  BY <1>1, <1>2, <1>4 DEF RewarmEffect, KeptInv
<1>10. ClosedInv'
  BY <1>1, <1>2, <1>5 DEF RewarmEffect, CalmInv, ClosedInv, Closing
<1>11. Closing' <=> Closing
  BY <1>5 DEF Closing
<1>12. ASSUME OneCopy
       PROVE  OneCopy'
  <2>1. /\ entry = None
        /\ writing # None => Stale(writing.val)
        /\ \A i \in DOMAIN jobs : Stale(jobs[i].val)
        /\ \A d \in Clients : client[d].pc = "rewarm_put" => Stale(client[d].held)
    BY <1>4, <1>12 DEF OneCopy, EntryAlone, FileAlone
  <2>2. UNCHANGED <<entry, writing, jobs, newest>>
    BY <1>1 DEF RewarmEffect
  <2>3. (writing # None => Stale(writing.val))'
    BY <2>1, <2>2 DEF Stale
  <2>4. \A i \in DOMAIN jobs' : Stale(jobs[i].val)'
    BY <2>1, <2>2 DEF Stale
  <2>5. \A d \in Clients : d # c /\ client'[d].pc = "rewarm_put" => Stale(client[d].held)'
    BY <1>2, <2>1, <2>2 DEF Stale
  <2> QED BY <1>2, <2>1, <2>2, <2>3, <2>4, <2>5
          DEF OneCopy, EntryAlone, FileAlone, WritingAlone, JobAlone, ReaderAlone
<1> QED BY <1>6, <1>7, <1>8, <1>9, <1>10, <1>11, <1>12 DEF CalmInv

LEMMA RewarmPutCalm ==
  ASSUME IInv, CalmInv, NEW c \in Clients, RewarmPut(c), raced' = {}
  PROVE  CalmInv'
<1>1. RewarmPutEffect(c) /\ Typed
  BY RewarmPutFacts, TypedFacts DEF IInv
<1>2. /\ \A d \in Clients : d # c => client'[d] = client[d]
      /\ client[c].pc = "rewarm_put" /\ client'[c].pc = "rewarm_record"
      /\ client'[c].gen = client[c].gen /\ Pending(c) /\ Holds(c) /\ Carries(c)
      /\ entry' # None /\ entry'.val = client[c].held /\ entry'.gen = client[c].gen
  BY <1>1 DEF RewarmPutEffect, Others, Goes, Pending, Holds, Carries
<1>3. newest = client[c].held /\ newest # None /\ ~Stale(client[c].held)
  <2>1. client[c].fresh = TRUE
    BY <1>2 DEF CalmInv, SpillInv
  <2>2. newest = client[c].held
    BY <1>1, <2>1, Unmarked DEF RewarmPutEffect
  <2> QED BY <1>1, <1>2, <2>2, NewestNotStale DEF Typed, IsValue
<1>4. /\ Some({"put"})' <=> Some({"put"})
      /\ Some({"forget"})' <=> Some({"forget"})
      /\ Some({"invalidate"})' <=> Some({"invalidate"})
      /\ Some({"record", "forget"})' <=> Some({"record", "forget"})
      /\ Some({"clear", "put"})' <=> Some({"clear", "put"})
  BY <1>2 DEF Some
<1>5. MovesInv'
  BY <1>1, <1>2 DEF RewarmPutEffect, IInv, PendingInv, CalmInv, MovesInv
<1>6. EntryInv'
  BY <1>1, <1>2, <1>3 DEF RewarmPutEffect, IInv, PendingInv, EntryInv
<1>7. SpillInv'
  BY <1>1, <1>2, <1>4 DEF RewarmPutEffect, CalmInv, SpillInv, Closing
<1>8. KeptInv'
  BY <1>2 DEF KeptInv
<1>9. ClosedInv'
  BY <1>1, <1>2, <1>4 DEF RewarmPutEffect, CalmInv, ClosedInv, Closing
<1>10. Closing' <=> Closing
  BY <1>4 DEF Closing
<1>11. ASSUME OneCopy
       PROVE  OneCopy'
  <2>1. /\ spill_file = None
        /\ writing # None => Stale(writing.val)
        /\ \A i \in DOMAIN jobs : Stale(jobs[i].val)
        /\ \A d \in Clients : d # c /\ client[d].pc = "rewarm_put" => Stale(client[d].held)
    BY <1>2, <1>3, <1>11 DEF OneCopy, FileAlone, WritingAlone, JobAlone, ReaderAlone
  <2>2. UNCHANGED <<writing, jobs, spill_file, newest>>
    BY <1>1 DEF RewarmPutEffect
  <2>3. (writing # None => Stale(writing.val))'
    BY <2>1, <2>2 DEF Stale
  <2>4. \A i \in DOMAIN jobs' : Stale(jobs[i].val)'
    BY <2>1, <2>2 DEF Stale
  <2>5. \A d \in Clients : d # c /\ client'[d].pc = "rewarm_put" => Stale(client[d].held)'
    BY <1>2, <2>1, <2>2 DEF Stale
  <2> QED BY <1>2, <2>1, <2>2, <2>3, <2>4, <2>5
          DEF OneCopy, EntryAlone, FileAlone, WritingAlone, JobAlone, ReaderAlone
<1> QED BY <1>5, <1>6, <1>7, <1>8, <1>9, <1>10, <1>11 DEF CalmInv

LEMMA ModifyCalm ==
  ASSUME IInv, CalmInv, NEW c \in Clients, ModifyEffect(c)
  PROVE  CalmInv'
<1> USE DEF cacheVars, spillVars, ghostVars
<1>1. /\ \A d \in Clients : d # c => client'[d] = client[d]
      /\ client[c].pc = "modify" /\ client'[c].pc = "write"
  BY DEF ModifyEffect, Others
<1>2. client'[c].fresh = TRUE
  <2>1. entry.val = newest
    BY DEF ModifyEffect, CalmInv, EntryInv
  <2> QED BY <2>1 DEF ModifyEffect
<1>3. /\ Some({"put"})' <=> Some({"put"})
      /\ Some({"forget"})' <=> Some({"forget"})
      /\ Some({"invalidate"})' <=> Some({"invalidate"})
      /\ Some({"record", "forget"})' <=> Some({"record", "forget"})
      /\ Some({"clear", "put"})' <=> Some({"clear", "put"})
      /\ Some({"clear", "put", "invalidate"})' <=> Some({"clear", "put", "invalidate"})
  BY <1>1 DEF Some
<1>4. MovesInv'
  BY DEF ModifyEffect, CalmInv, MovesInv
<1>5. EntryInv'
  BY <1>1, <1>3 DEF ModifyEffect, CalmInv, EntryInv
<1>6. SpillInv'
  BY <1>1, <1>2, <1>3 DEF ModifyEffect, CalmInv, SpillInv, Closing
<1>7. KeptInv'
  BY <1>1, <1>3 DEF ModifyEffect, CalmInv, KeptInv, StillSpillable
<1>8. ClosedInv'
  BY <1>1, <1>3 DEF ModifyEffect, CalmInv, ClosedInv, Closing
<1>9. Closing' <=> Closing
  BY <1>3 DEF Closing
<1>10. OneCopy => OneCopy'
  BY <1>1 DEF ModifyEffect, OneCopy, EntryAlone, FileAlone, WritingAlone, JobAlone, ReaderAlone,
              Stale
<1> QED BY <1>4, <1>5, <1>6, <1>7, <1>8, <1>9, <1>10 DEF CalmInv

LEMMA WriteBackCalm ==
  ASSUME IInv, CalmInv, NEW c \in Clients, WriteBack(c), raced' = {}
  PROVE  CalmInv'
<1>1. WriteBackEffect(c) /\ Typed
  BY WriteBackFacts, TypedFacts DEF IInv
<1>2. /\ \A d \in Clients : d # c => client'[d] = client[d]
      /\ client[c].pc = "write" /\ client'[c].pc = "idle"
  BY <1>1 DEF WriteBackEffect, Others, Idle
<1>3. entry # None /\ entry.gen = client[c].gen /\ entry.val = client[c].held
      /\ newest = client[c].held /\ newest # None /\ newest.edits < MaxEdits
  <2>1. client[c].fresh = TRUE
    BY <1>2 DEF CalmInv, SpillInv
  <2>2. entry # None /\ entry.gen = client[c].gen
    BY <1>1, <2>1, Unmarked DEF WriteBackEffect, Overtaken
  <2>3. entry.val = client[c].held /\ client[c].held.edits < MaxEdits
    BY <1>2, <2>2 DEF IInv, LockInv
  <2> QED BY <1>1, <2>2, <2>3 DEF CalmInv, EntryInv, Typed, IsValue
<1>4. /\ newest' # None /\ newest'.run = newest.run /\ newest'.edits = newest.edits + 1
      /\ entry' # None /\ entry'.gen = entry.gen /\ entry'.val = newest'
  BY <1>1, <1>3 DEF WriteBackEffect
<1>5. ASSUME NEW v, IsValue(v), Stale(v)
      PROVE  v.run # newest'.run \/ v.edits < newest'.edits
  BY <1>1, <1>3, <1>4, <1>5 DEF Stale, IsValue, Typed
<1>6. /\ Some({"put"})' <=> Some({"put"})
      /\ Some({"forget"})' <=> Some({"forget"})
      /\ Some({"invalidate"})' <=> Some({"invalidate"})
      /\ Some({"record", "forget"})' <=> Some({"record", "forget"})
      /\ Some({"clear", "put"})' <=> Some({"clear", "put"})
      /\ Some({"forget"}) => Some({"record", "forget"})
  BY <1>2 DEF Some
<1>7. MovesInv'
  BY <1>1, <1>3, <1>4 DEF WriteBackEffect, CalmInv, MovesInv
<1>8. EntryInv'
  BY <1>1, <1>2, <1>3, <1>4, <1>6 DEF WriteBackEffect, CalmInv, EntryInv
<1>9. SpillInv'
  <2>1. ASSUME ~Closing
        PROVE  spill_file = None /\ \A i \in DOMAIN jobs : jobs[i].val # newest
    BY <1>1, <1>3, <2>1, NewestNotStale DEF CalmInv, OneCopy, EntryAlone
  <2> QED BY <1>1, <1>2, <1>6, <2>1 DEF WriteBackEffect, CalmInv, SpillInv, Closing
<1>10. KeptInv'
  BY <1>4 DEF KeptInv
<1>11. ClosedInv'
  BY <1>1, <1>2, <1>3, <1>4, <1>6 DEF WriteBackEffect, CalmInv, ClosedInv, Closing
<1>12. Closing' <=> Closing
  BY <1>6 DEF Closing
<1>13. ASSUME OneCopy
       PROVE  OneCopy'
  <2>1. /\ spill_file = None
        /\ writing # None => Stale(writing.val)
        /\ \A i \in DOMAIN jobs : Stale(jobs[i].val)
        /\ \A d \in Clients : client[d].pc = "rewarm_put" => Stale(client[d].held)
    BY <1>3, <1>13 DEF OneCopy, EntryAlone
  <2>2. /\ writing # None => IsValue(writing.val)
        /\ \A i \in DOMAIN jobs : IsValue(jobs[i].val)
        /\ \A d \in Clients : client[d].pc = "rewarm_put" => IsValue(client[d].held)
    BY <1>1 DEF Typed, Carries, Pending, Holds
  <2>3. UNCHANGED <<writing, jobs, spill_file>>
    BY <1>1 DEF WriteBackEffect
  <2>4. (writing # None => Stale(writing.val))'
    BY <1>5, <2>1, <2>2, <2>3 DEF Stale
  <2>5. ASSUME NEW i \in DOMAIN jobs'
        PROVE  Stale(jobs[i].val)'
    BY <1>5, <2>1, <2>2, <2>3 DEF Stale
  <2>6. ASSUME NEW d \in Clients, client'[d].pc = "rewarm_put"
        PROVE  Stale(client[d].held)'
    BY <1>2, <1>5, <2>1, <2>2, <2>6 DEF Stale
  <2> QED BY <2>1, <2>3, <2>4, <2>5, <2>6
          DEF OneCopy, EntryAlone, FileAlone, WritingAlone, JobAlone, ReaderAlone
<1> QED BY <1>7, <1>8, <1>9, <1>10, <1>11, <1>12, <1>13 DEF CalmInv

LEMMA BeginCloseCalm ==
  ASSUME IInv, CalmInv, NEW c \in Clients, BeginClose(c)
  PROVE  CalmInv'
<1> USE DEF spillVars, ghostVars
<1>1. BeginCloseEffect(c) /\ Typed
  BY BeginCloseFacts, TypedFacts DEF IInv
<1>2. /\ \A d \in Clients : d # c => client'[d] = client[d]
      /\ client[c].pc = "idle" /\ client'[c].pc = "invalidate"
  BY <1>1 DEF BeginCloseEffect, Others
<1>3. /\ Some({"put"})' <=> Some({"put"})
      /\ Some({"forget"})' <=> Some({"forget"})
      /\ Some({"invalidate"})' /\ Some({"clear", "put", "invalidate"})'
      /\ Some({"record", "forget"})' <=> Some({"record", "forget"})
      /\ Some({"clear", "put"})' <=> Some({"clear", "put"})
  BY <1>2 DEF Some
<1>4. \A d \in Clients : client[d].expected # invalidation'
  BY <1>1, NewToken DEF BeginCloseEffect
<1>5. MovesInv'
  BY <1>1 DEF BeginCloseEffect, CalmInv, MovesInv
<1>6. EntryInv'
  BY <1>1, <1>2, <1>3 DEF BeginCloseEffect, CalmInv, EntryInv
<1>7. SpillInv'
  BY <1>1, <1>2, <1>3 DEF BeginCloseEffect, CalmInv, SpillInv, Closing
<1>8. KeptInv'
  BY <1>3 DEF KeptInv
<1>9. ClosedInv'
  BY <1>1, <1>2, <1>3, <1>4 DEF BeginCloseEffect, CalmInv, ClosedInv, Closing
<1>10. Closing' <=> Closing
  BY <1>3 DEF Closing
<1>11. OneCopy => OneCopy'
  BY <1>1, <1>2 DEF BeginCloseEffect, OneCopy, EntryAlone, FileAlone, WritingAlone, JobAlone,
                    ReaderAlone, Stale
<1> QED BY <1>5, <1>6, <1>7, <1>8, <1>9, <1>10, <1>11 DEF CalmInv

\* The job that an entry becomes has its own generation.
LEMMA DroppedMoves ==
  ASSUME MovesInv, NEW x, Dropped(x), writing' = writing
  PROVE  MovesInv'
<1>1. CASE UNCHANGED <<spillable, jobs>>
  BY <1>1 DEF MovesInv, Dropped
<1>2. CASE ~(UNCHANGED <<spillable, jobs>>)
  <2>1. /\ entry # None
        /\ \A i \in DOMAIN jobs : i \in DOMAIN jobs' /\ jobs'[i] = jobs[i]
        /\ \A i \in DOMAIN jobs' : i \in DOMAIN jobs \/ i = Len(jobs) + 1
        /\ jobs'[Len(jobs) + 1].gen = entry.gen /\ entry' = None
    BY <1>2 DEF Dropped
  <2>2. \A i, j \in DOMAIN jobs' : jobs'[i].gen = jobs'[j].gen => i = j
    BY <2>1 DEF MovesInv
  <2>3. writing' # None => \A i \in DOMAIN jobs' : jobs'[i].gen # writing'.gen
    BY <2>1 DEF MovesInv
  <2> QED BY <2>1, <2>2, <2>3 DEF MovesInv
<1> QED BY <1>1, <1>2

LEMMA InvalidateCalm ==
  ASSUME IInv, CalmInv, NEW c \in Clients, Invalidate(c)
  PROVE  CalmInv'
<1>1. InvalidateEffect(c) /\ Dropped(TRUE) /\ entry' = None /\ writing' = writing
      /\ newest' = None
  BY InvalidateFacts, TypedFacts DEF IInv, InvalidateEffect, Dropped
<1>2. /\ \A d \in Clients : d # c => client'[d] = client[d]
      /\ client[c].pc = "invalidate" /\ client'[c].pc = "forget"
  BY <1>1 DEF InvalidateEffect, Others, Goes
<1>3. /\ Some({"forget"})' /\ Some({"record", "forget"})'
      /\ Some({"clear", "put"})' <=> Some({"clear", "put"})
  BY <1>2 DEF Some
<1>4. MovesInv'
  BY <1>1, DroppedMoves DEF CalmInv
<1>5. EntryInv'
  BY <1>1 DEF EntryInv
<1>6. SpillInv'
  BY <1>1, <1>2, <1>3 DEF InvalidateEffect, CalmInv, SpillInv, Closing
<1>7. KeptInv'
  BY <1>1 DEF KeptInv
<1>8. ClosedInv'
  BY <1>1, <1>2, <1>3 DEF InvalidateEffect, CalmInv, ClosedInv, Closing
<1>9. Closing'
  BY <1>3 DEF Closing
<1> QED BY <1>4, <1>5, <1>6, <1>7, <1>8, <1>9 DEF CalmInv

LEMMA ForgetCalm ==
  ASSUME IInv, CalmInv, NEW c \in Clients, Forget(c), raced' = {}
  PROVE  CalmInv'
<1>1. ForgetEffect(c) /\ Typed
  BY ForgetFacts, TypedFacts DEF IInv
<1>2. /\ \A d \in Clients : d # c => client'[d] = client[d]
      /\ client[c].pc = "forget" /\ client'[c].pc = "idle"
  BY <1>1 DEF ForgetEffect, Others, Idle
<1>3. entry = None /\ newest = None
  <2>1. {entry, newest} = {None}
    BY <1>1, Unmarked DEF ForgetEffect
  <2> QED BY <2>1
<1>4. UNCHANGED <<entry, newest, jobs, writing, timely, cleaned, invalidation>>
      /\ spill_file' = None /\ generation' = 0 /\ known' = FALSE
  BY <1>1 DEF ForgetEffect
<1>5. MovesInv'
  BY <1>4 DEF CalmInv, MovesInv
<1>6. EntryInv'
  BY <1>3, <1>4 DEF EntryInv
<1>7. SpillInv'
  <2>1. \A i \in DOMAIN jobs : jobs[i].gen # 0
    BY <1>1 DEF Typed, IsGen
  <2> QED BY <1>2, <1>4, <2>1 DEF CalmInv, SpillInv
<1>8. KeptInv'
  BY <1>3, <1>4 DEF KeptInv
<1>9. ClosedInv'
  BY <1>2, <1>3, <1>4 DEF CalmInv, ClosedInv
<1>10. OneCopy'
  BY <1>3, <1>4 DEF Stale, OneCopy, EntryAlone, FileAlone, WritingAlone, JobAlone, ReaderAlone
<1> QED BY <1>5, <1>6, <1>7, <1>8, <1>9, <1>10 DEF CalmInv

LEMMA ExpireCalm ==
  ASSUME IInv, CalmInv, Expire
  PROVE  CalmInv'
<1> USE DEF spillVars, clientVars, ghostVars
<1>1. ExpireEffect
  BY ExpireFacts DEF IInv
<1>3. MovesInv'
  BY <1>1 DEF ExpireEffect, CalmInv, MovesInv
<1>4. EntryInv'
  BY <1>1 DEF ExpireEffect, CalmInv, EntryInv, Some
<1>5. SpillInv'
  BY <1>1 DEF ExpireEffect, CalmInv, SpillInv, Closing, Some
<1>6. KeptInv'
  BY <1>1 DEF ExpireEffect, KeptInv
<1>7. ClosedInv'
  BY <1>1 DEF ExpireEffect, CalmInv, ClosedInv, Closing, Some
<1>8. Closing' <=> Closing
  BY <1>1 DEF ExpireEffect, Closing, Some
<1>9. OneCopy => OneCopy'
  BY <1>1 DEF ExpireEffect, OneCopy, EntryAlone, FileAlone, WritingAlone, JobAlone, ReaderAlone,
              Stale
<1> QED BY <1>3, <1>4, <1>5, <1>6, <1>7, <1>8, <1>9 DEF CalmInv

\* What becomes of an entry that leaves the cache: it is not needed, or it moves to a job.
Moved ==
  /\ entry # None /\ entry.gen = generation
  /\ spillable' = spillable \cup {entry.gen}
  /\ \A i \in DOMAIN jobs : i \in DOMAIN jobs' /\ jobs'[i] = jobs[i]
  /\ \A i \in DOMAIN jobs' : i \in DOMAIN jobs \/ i = Len(jobs) + 1
  /\ Len(jobs) + 1 \in DOMAIN jobs' /\ Len(jobs) + 1 \notin DOMAIN jobs
  /\ jobs'[Len(jobs) + 1].val = entry.val /\ jobs'[Len(jobs) + 1].gen = entry.gen

LEMMA DropCases ==
  ASSUME IInv, CalmInv, EvictEffect \/ PressureDropEffect, raced' = {}
  PROVE  \/ /\ UNCHANGED <<jobs, spillable>>
            /\ entry = None \/ newest = None \/ Some({"invalidate", "put"})
         \/ Moved
<1> USE DEF clientVars, ghostVars
<1>1. Typed
  BY TypedFacts DEF IInv
<1>2. cleaned = TRUE => newest = None \/ Some({"invalidate", "put"})
  BY DEF CalmInv, ClosedInv, Some
<1>3. CASE entry = None
  BY <1>3 DEF EvictEffect, PressureDropEffect, Dropped
<1>4. CASE entry # None /\ EvictEffect
  <2>1. entry.gen = generation
    BY <1>4 DEF EvictEffect, CalmInv, EntryInv, IInv, PendingInv, Pending, Holds
  <2> QED BY <1>2, <1>4, <2>1 DEF EvictEffect, Dropped, Moved, IInv, TypeOK
<1>5. CASE entry # None /\ PressureDropEffect
  <2>1. Mark("pressure", ~cleaned /\ entry.gen # pressure)
    BY <1>5 DEF PressureDropEffect
  <2>2. ~(~cleaned /\ entry.gen # pressure)
    BY <2>1, Unmarked
  <2>3. cleaned = TRUE \/ entry.gen = pressure
    BY <2>2 DEF IInv, TypeOK
  <2>4. entry.gen = pressure => entry.gen = generation
    BY <1>5 DEF CalmInv, EntryInv, IInv, PendingInv, Pending
  <2>5. entry.gen = pressure => entry.gen \in spillable \/ Some({"invalidate", "put"})
    BY <1>5 DEF CalmInv, EntryInv, Some
  <2> QED BY <1>2, <1>5, <2>3, <2>4, <2>5 DEF PressureDropEffect, Dropped, Moved
<1> QED BY <1>3, <1>4, <1>5

LEMMA DropCalm ==
  ASSUME IInv, CalmInv, EvictEffect \/ PressureDropEffect, raced' = {}
  PROVE  CalmInv'
<1> USE DEF clientVars, ghostVars
<1>1. Typed
  BY TypedFacts DEF IInv
<1>2. /\ entry' = None
      /\ UNCHANGED <<known, generation, invalidation, cleaned, next_generation, spill_file,
                     writing, client, runs, newest, timely>>
  BY DEF EvictEffect, PressureDropEffect, Dropped
<1>3. MovesInv'
  <2>1. PICK x \in BOOLEAN : Dropped(x)
    BY DEF EvictEffect, PressureDropEffect
  <2> QED BY <1>2, <2>1, DroppedMoves DEF CalmInv
<1>4. EntryInv'
  BY <1>2 DEF EntryInv
<1>5. /\ Closing' <=> Closing
      /\ Some({"clear", "put"})' <=> Some({"clear", "put"})
      /\ Some({"invalidate"})' <=> Some({"invalidate"})
      /\ Some({"record", "forget"})' <=> Some({"record", "forget"})
      /\ Some({"clear", "put", "invalidate"})' <=> Some({"clear", "put", "invalidate"})
  BY <1>2 DEF Closing, Some
<1>6. ClosedInv'
  BY <1>2, <1>5 DEF CalmInv, ClosedInv
<1>7. /\ spill_file # None => spill_file = newest \/ Closing
      /\ Some({"clear", "put"}) => spill_file = None
      /\ writing # None => timely = TRUE
      /\ \A c \in Clients : client[c].pc \in {"rewarm", "rewarm_put", "write"}
                              => client[c].fresh = TRUE
      /\ \A i \in DOMAIN jobs : jobs[i].gen = generation =>
           jobs[i].val = newest \/ Some({"record", "forget"})
  BY DEF CalmInv, SpillInv
<1>8. CASE /\ UNCHANGED <<jobs, spillable>>
           /\ entry = None \/ newest = None \/ Some({"invalidate", "put"})
  <2>1. SpillInv'
    BY <1>2, <1>5, <1>7, <1>8 DEF SpillInv
  <2>2. KeptInv'
    <3>1. newest # None /\ entry # None => Some({"clear", "put", "invalidate"})
      BY <1>8 DEF Some
    <3> QED BY <1>2, <1>5, <1>8, <3>1 DEF CalmInv, KeptInv, StillSpillable
  <2>3. OneCopy => OneCopy'
    BY <1>2, <1>8 DEF OneCopy, EntryAlone, FileAlone, WritingAlone, JobAlone, ReaderAlone, Stale
  <2> QED BY <1>3, <1>4, <1>5, <1>6, <2>1, <2>2, <2>3 DEF CalmInv
<1>9. CASE Moved
  <2> DEFINE n == Len(jobs) + 1
  <2>1. /\ entry # None /\ entry.gen = generation /\ entry.val = newest
        /\ \A i \in DOMAIN jobs : i \in DOMAIN jobs' /\ jobs'[i] = jobs[i]
        /\ \A i \in DOMAIN jobs' : i \in DOMAIN jobs \/ i = n
        /\ n \in DOMAIN jobs' /\ n \notin DOMAIN jobs
        /\ jobs'[n].val = newest /\ jobs'[n].gen = generation
        /\ generation \in spillable'
    BY <1>9 DEF Moved, CalmInv, EntryInv
  <2> HIDE DEF n
  <2>2. SpillInv'
    <3>1. \A i \in DOMAIN jobs' : jobs'[i].gen = generation =>
             jobs'[i].val = newest \/ Some({"record", "forget"})
      BY <1>7, <2>1
    <3> QED BY <1>2, <1>5, <1>7, <3>1 DEF SpillInv
  <2>3. KeptInv'
    BY <1>2, <2>1 DEF KeptInv, StillSpillable
  <2>4. OneCopy => OneCopy'
    <3> SUFFICES ASSUME OneCopy PROVE OneCopy'
      OBVIOUS
    <3>1. /\ spill_file = None
          /\ writing # None => Stale(writing.val)
          /\ \A i \in DOMAIN jobs : Stale(jobs[i].val)
          /\ \A c \in Clients : client[c].pc = "rewarm_put" => Stale(client[c].held)
      BY <2>1 DEF OneCopy, EntryAlone
    <3>3. \A i \in DOMAIN jobs' : i = n \/ (i \in DOMAIN jobs /\ Stale(jobs'[i].val))
      BY <2>1, <3>1
    <3>4. EntryAlone' /\ FileAlone' /\ WritingAlone'
      <4>1. (writing # None => Stale(writing.val))'
        BY <1>2, <3>1 DEF Stale
      <4> QED BY <1>2, <3>1, <4>1 DEF EntryAlone, FileAlone, WritingAlone
    <3>5. JobAlone'
      BY <1>2, <3>1, <3>3 DEF JobAlone, Stale
    <3>6. ReaderAlone'
      BY <1>2 DEF OneCopy, ReaderAlone, Stale
    <3> QED BY <3>4, <3>5, <3>6 DEF OneCopy
  <2> QED BY <1>3, <1>4, <1>5, <1>6, <2>2, <2>3, <2>4 DEF CalmInv
<1> QED BY <1>8, <1>9, DropCases

LEMMA PressureMarkCalm ==
  ASSUME IInv, CalmInv, PressureMark
  PROVE  CalmInv'
<1> USE DEF cacheVars, clientVars, ghostVars
<1>1. /\ pressure' = generation /\ spillable' = spillable \cup {generation}
      /\ UNCHANGED <<cacheVars, spill_file, jobs, writing, clientVars, ghostVars>>
  BY DEF PressureMark
<1>2. MovesInv'
  BY <1>1 DEF CalmInv, MovesInv
<1>3. EntryInv'
  BY <1>1 DEF CalmInv, EntryInv
<1>4. SpillInv'
  BY <1>1 DEF CalmInv, SpillInv, Closing, Some
<1>5. KeptInv'
  BY <1>1 DEF CalmInv, KeptInv, StillSpillable, Some
<1>6. ClosedInv'
  BY <1>1 DEF CalmInv, ClosedInv, Closing, Some
<1>7. Closing' <=> Closing
  BY <1>1 DEF Closing, Some
<1>8. OneCopy => OneCopy'
  BY <1>1 DEF OneCopy, EntryAlone, FileAlone, WritingAlone, JobAlone, ReaderAlone, Stale
<1> QED BY <1>2, <1>3, <1>4, <1>5, <1>6, <1>7, <1>8 DEF CalmInv

LEMMA TakeJobCalm ==
  ASSUME IInv, CalmInv, TakeJob, raced' = {}
  PROVE  CalmInv'
<1> USE DEF cacheVars, clientVars
<1>1. TakeJobEffect
  BY TypedFacts, TakeJobFacts DEF IInv
<1>2. /\ writing = None /\ 1 \in DOMAIN jobs
      /\ \A i \in DOMAIN jobs' : i + 1 \in DOMAIN jobs /\ jobs'[i] = jobs[i + 1] /\ i + 1 # 1
                                 /\ i \in Nat
      /\ \A i \in DOMAIN jobs : i # 1 => \E k \in DOMAIN jobs' : k + 1 = i
      /\ UNCHANGED <<entry, known, generation, invalidation, cleaned, next_generation, spill_file,
                     pressure, client, runs, newest>>
  BY <1>1 DEF TakeJobEffect
<1>3. \A i \in DOMAIN jobs' : jobs'[i].gen # jobs[1].gen
  BY <1>2 DEF CalmInv, MovesInv
<1>4. \A i, j \in DOMAIN jobs' : jobs'[i].gen = jobs'[j].gen => i = j
  <2>1. ASSUME NEW i \in DOMAIN jobs', NEW j \in DOMAIN jobs', jobs'[i].gen = jobs'[j].gen
        PROVE  i = j
    <3>1. i + 1 = j + 1
      BY <1>2, <2>1 DEF CalmInv, MovesInv
    <3> QED BY <1>2, <3>1
  <2> QED BY <2>1
<1>5. ClosedInv'
  BY <1>2 DEF CalmInv, ClosedInv, Closing, Some
<1>6. Closing' <=> Closing
  BY <1>2 DEF Closing, Some
<1>7. spillable \ {jobs[1].gen} \subseteq spillable'
  BY <1>1 DEF TakeJobEffect
<1>8. EntryInv'
  <2>1. entry # None => entry.gen # jobs[1].gen
    BY <1>2 DEF CalmInv, MovesInv
  <2> QED BY <1>2, <1>7, <2>1 DEF CalmInv, EntryInv, Some
<1>9. \A i \in DOMAIN jobs' : jobs'[i].gen = generation =>
         jobs'[i].val = newest \/ Some({"record", "forget"})
  BY <1>2 DEF CalmInv, SpillInv
<1>10. CASE StillSpillable(jobs[1]) /\ writing' = jobs[1]
  <2>1. /\ timely' = (jobs[1].val = newest)
        /\ Mark("spill", jobs[1].val # newest /\ At(Unrecorded) # {})
    BY <1>1, <1>2, <1>10, NoneAssumption, TypedFacts DEF TakeJobEffect, Typed, IInv
  <2>2. jobs[1].val = newest
    <3>1. ~(jobs[1].val # newest /\ At(Unrecorded) # {})
      BY <2>1, Unmarked
    <3>2. jobs[1].val = newest \/ Some(Unrecorded)
      BY <1>2, <1>10 DEF StillSpillable, CalmInv, SpillInv, Unrecorded
    <3> QED BY <3>1, <3>2, SomeAt
  <2>3. timely' = TRUE
    BY <2>1, <2>2
  <2>4. MovesInv'
    BY <1>2, <1>3, <1>4, <1>10 DEF CalmInv, MovesInv
  <2>5. SpillInv'
    BY <1>2, <1>9, <2>3 DEF CalmInv, SpillInv, Closing, Some
  <2>6. KeptInv'
    <3>1. writing' # None
      BY <1>2, <1>10, TypedFacts, NoneAssumption DEF IInv, Typed
    <3> QED BY <1>2, <1>10, <2>2, <3>1 DEF KeptInv
  <2>7. OneCopy => OneCopy'
    <3> SUFFICES ASSUME OneCopy PROVE OneCopy'
      OBVIOUS
    <3>1. EntryAlone'
      BY <1>2, <1>10 DEF OneCopy, EntryAlone, Stale
    <3>2. FileAlone'
      BY <1>2, <1>10 DEF OneCopy, FileAlone, Stale
    <3>3. WritingAlone'
      BY <1>2, <1>10 DEF OneCopy, JobAlone, WritingAlone, Stale
    <3>4. JobAlone'
      <4>1. \A i, j \in DOMAIN jobs' : j # i => j + 1 # i + 1
        BY <1>2
      <4> QED BY <1>2, <4>1 DEF OneCopy, JobAlone, Stale
    <3>5. ReaderAlone'
      BY <1>2 DEF OneCopy, ReaderAlone, Stale
    <3> QED BY <3>1, <3>2, <3>3, <3>4, <3>5 DEF OneCopy
  <2> QED BY <1>5, <1>6, <1>8, <2>4, <2>5, <2>6, <2>7 DEF CalmInv
<1>11. CASE ~StillSpillable(jobs[1]) /\ UNCHANGED <<writing, timely>>
  <2>1. MovesInv'
    BY <1>2, <1>4, <1>11 DEF CalmInv, MovesInv
  <2>2. SpillInv'
    BY <1>2, <1>9, <1>11 DEF CalmInv, SpillInv, Closing, Some
  <2>3. KeptInv'
    <3>1. ASSUME NEW i \in DOMAIN jobs, StillSpillable(jobs[i]), jobs[i].val = newest
          PROVE  \E k \in DOMAIN jobs' : StillSpillable(jobs[k])' /\ jobs'[k].val = newest
      <4>1. i # 1
        BY <1>11, <3>1
      <4>2. PICK k \in DOMAIN jobs' : k + 1 = i
        BY <1>2, <4>1
      <4>3. jobs'[k] = jobs[i] /\ jobs'[k].gen # jobs[1].gen
        BY <1>2, <1>3, <4>2
      <4> QED BY <1>2, <1>7, <3>1, <4>3 DEF StillSpillable
    <3> QED BY <1>2, <1>11, <3>1 DEF CalmInv, KeptInv, Some
  <2>4. OneCopy => OneCopy'
    <3> SUFFICES ASSUME OneCopy PROVE OneCopy'
      OBVIOUS
    <3>1. EntryAlone'
      BY <1>2, <1>11 DEF OneCopy, EntryAlone, Stale
    <3>2. FileAlone'
      BY <1>2, <1>11 DEF OneCopy, FileAlone, Stale
    <3>3. WritingAlone'
      BY <1>2, <1>11 DEF WritingAlone
    <3>4. JobAlone'
      <4>1. \A i, j \in DOMAIN jobs' : j # i => j + 1 # i + 1
        BY <1>2
      <4> QED BY <1>2, <4>1 DEF OneCopy, JobAlone, Stale
    <3>5. ReaderAlone'
      BY <1>2 DEF OneCopy, ReaderAlone, Stale
    <3> QED BY <3>1, <3>2, <3>3, <3>4, <3>5 DEF OneCopy
  <2> QED BY <1>5, <1>6, <1>8, <2>1, <2>2, <2>3, <2>4 DEF CalmInv
<1> QED BY <1>1, <1>10, <1>11 DEF TakeJobEffect

LEMMA WriteSpillCalm ==
  ASSUME IInv, CalmInv, WriteSpill, raced' = {}
  PROVE  CalmInv'
<1> USE DEF cacheVars, clientVars
<1>1. /\ writing # None /\ spill_file' = writing.val /\ spillable' = spillable \ {writing.gen}
      /\ writing' = None /\ timely' = TRUE
      /\ Mark("spill", timely /\ (writing.val # newest \/ At({"clear", "put"}) # {}))
      /\ UNCHANGED <<entry, known, generation, invalidation, cleaned, next_generation, jobs,
                     pressure, client, runs, newest>>
  BY DEF WriteSpill
<1>2. writing.val = newest /\ ~Some({"clear", "put"})
  <2>1. timely
    BY <1>1 DEF CalmInv, SpillInv
  <2>2. ~(timely /\ (writing.val # newest \/ At({"clear", "put"}) # {}))
    BY <1>1, Unmarked
  <2> QED BY <2>1, <2>2, SomeAt
<1>3. newest # None /\ ~Stale(newest)
  <2>1. Typed
    BY TypedFacts DEF IInv
  <2>2. newest # None
    BY <1>1, <1>2, <2>1 DEF Typed, IsValue
  <2> QED BY <2>1, <2>2, NewestNotStale
<1>4. MovesInv'
  BY <1>1 DEF CalmInv, MovesInv
<1>5. EntryInv'
  <2>1. entry # None => entry.gen # writing.gen
    BY <1>1 DEF CalmInv, MovesInv
  <2> QED BY <1>1, <2>1 DEF CalmInv, EntryInv, Some
<1>6. SpillInv'
  BY <1>1, <1>2 DEF CalmInv, SpillInv, Closing, Some
<1>7. KeptInv'
  BY <1>1, <1>2 DEF KeptInv
<1>8. ClosedInv'
  BY <1>1 DEF CalmInv, ClosedInv, Closing, Some
<1>9. Closing' <=> Closing
  BY <1>1 DEF Closing, Some
<1>10. OneCopy => OneCopy'
  <2> SUFFICES ASSUME OneCopy PROVE OneCopy'
    OBVIOUS
  <2>1. /\ entry = None
        /\ \A i \in DOMAIN jobs : Stale(jobs[i].val)
        /\ \A c \in Clients : client[c].pc = "rewarm_put" => Stale(client[c].held)
    BY <1>1, <1>2, <1>3 DEF OneCopy, EntryAlone, WritingAlone
  <2>2. EntryAlone' /\ WritingAlone'
    BY <1>1, <2>1 DEF EntryAlone, WritingAlone
  <2>3. FileAlone'
    BY <1>1, <2>1 DEF FileAlone, Stale
  <2>4. JobAlone' /\ ReaderAlone'
    BY <1>1 DEF OneCopy, JobAlone, ReaderAlone, Stale
  <2> QED BY <2>2, <2>3, <2>4 DEF OneCopy
<1> QED BY <1>4, <1>5, <1>6, <1>7, <1>8, <1>9, <1>10 DEF CalmInv

LEMMA InitCalm ==
  ASSUME Init
  PROVE  CalmInv
<1>1. /\ entry = None /\ spill_file = None /\ jobs = << >> /\ writing = None /\ newest = None
      /\ cleaned = FALSE /\ known = FALSE
      /\ \A c \in Clients : client[c].pc = "idle"
  BY DEF Init, Idle
<1>2. \A L : Some(L) => "idle" \in L
  BY <1>1 DEF Some
<1>3. MovesInv
  BY <1>1 DEF MovesInv
<1>4. EntryInv /\ KeptInv
  BY <1>1 DEF EntryInv, KeptInv
<1>5. SpillInv
  BY <1>1, <1>2 DEF SpillInv
<1>6. ClosedInv
  BY <1>1 DEF ClosedInv
<1>7. OneCopy
  BY <1>1 DEF OneCopy, EntryAlone, FileAlone, WritingAlone, JobAlone, ReaderAlone
<1> QED BY <1>3, <1>4, <1>5, <1>6, <1>7 DEF CalmInv

\* A gap that was hit stays marked.
LEMMA MarksStay ==
  ASSUME TypeOK, [Next]_vars, raced' = {}
  PROVE  raced = {}
<1> USE DEF ghostVars
<1>1. \A g, w : Mark(g, w) => raced = {}
  BY DEF Mark
<1>2. ASSUME NEW c \in Clients, Begin(c) \/ Step(c)
      PROVE  raced = {}
  <2>1. CASE Begin(c)
    BY <2>1 DEF Begin, BeginStore, BeginGet, BeginClose
  <2>2. CASE CheckRefuses(c) \/ CheckVersion(c) \/ ClearMarkers(c) \/ Lookup(c) \/ ReadSpill(c)
             \/ Modify(c) \/ Invalidate(c)
    BY <2>2 DEF CheckRefuses, CheckVersion, ClearMarkers, Lookup, ReadSpill, Modify, Invalidate
  <2>3. CASE Put(c) \/ Record(c) \/ Rewarm(c) \/ RewarmPut(c) \/ RewarmRecord(c) \/ WriteBack(c)
             \/ Forget(c)
    BY <1>1, <2>3 DEF Put, Record, Rewarm, RewarmPut, RewarmRecord, WriteBack, Forget
  <2> QED BY <1>2, <2>1, <2>2, <2>3 DEF Step
<1>3. CASE Expire \/ Evict \/ PressureMark \/ WriteSpill
  BY <1>1, <1>3 DEF Expire, Evict, PressureMark, WriteSpill
<1>4. CASE PressureDrop
  BY <1>1, <1>4 DEF PressureDrop
<1>5. CASE TakeJob
  BY <1>1, <1>5 DEF TakeJob
<1>6. CASE UNCHANGED vars
  BY <1>6 DEF vars
<1> QED BY <1>2, <1>3, <1>4, <1>5, <1>6 DEF Next

LEMMA NextCInv ==
  ASSUME IInv, CInv, [Next]_vars
  PROVE  CInv'
<1> SUFFICES ASSUME raced' = {} PROVE CalmInv'
  BY DEF CInv, Calm
<1>1. CalmInv
  BY MarksStay DEF CInv, Calm, IInv
<1>2. Typed
  BY TypedFacts DEF IInv
<1>3. ASSUME NEW c \in Clients, Begin(c)
      PROVE  CalmInv'
  BY <1>1, <1>3, BeginCases, LooksCalm, BeginCloseCalm DEF IInv
<1>4. ASSUME NEW c \in Clients, Step(c)
      PROVE  CalmInv'
  <2>1. CASE CheckRefuses(c) \/ Lookup(c)
    BY <1>1, <2>1, CheckRefusesFacts, LookupFacts, LooksCalm DEF IInv
  <2>2. CASE ReadSpill(c)
    BY <1>1, <2>2, ReadSpillFacts, LooksCalm, ReadsCalm DEF IInv
  <2>3. CASE Modify(c)
    BY <1>1, <2>3, ModifyFacts, LooksCalm, ModifyCalm DEF IInv
  <2>4. CASE CheckVersion(c) \/ ClearMarkers(c) \/ Put(c)
    BY <1>1, <2>4, CheckVersionCalm, ClearMarkersCalm, PutCalm
  <2>5. CASE Record(c) \/ RewarmRecord(c)
    BY <1>1, <2>5, RecordFacts, RewarmRecordFacts, RecordCalm DEF IInv
  <2>6. CASE Rewarm(c) \/ RewarmPut(c)
    BY <1>1, <2>6, RewarmCalm, RewarmPutCalm
  <2>7. CASE WriteBack(c) \/ Invalidate(c) \/ Forget(c)
    BY <1>1, <2>7, WriteBackCalm, InvalidateCalm, ForgetCalm
  <2> QED BY <1>4, <2>1, <2>2, <2>3, <2>4, <2>5, <2>6, <2>7 DEF Step
<1>5. CASE Evict \/ PressureDrop
  BY <1>1, <1>2, <1>5, EvictFacts, PressureDropFacts, DropCalm
<1>6. CASE Expire \/ PressureMark \/ TakeJob \/ WriteSpill
  BY <1>1, <1>6, ExpireCalm, PressureMarkCalm, TakeJobCalm, WriteSpillCalm
<1>7. CASE UNCHANGED vars
  <2>1. UNCHANGED <<entry, known, generation, invalidation, cleaned, next_generation, spill_file,
                    spillable, jobs, writing, pressure, client, runs, newest, timely>>
    BY <1>7 DEF vars, cacheVars, spillVars, clientVars, ghostVars
  <2>2. MovesInv' /\ EntryInv' /\ SpillInv' /\ KeptInv' /\ ClosedInv'
    BY <1>1, <2>1 DEF CalmInv, MovesInv, EntryInv, SpillInv, KeptInv, ClosedInv, Closing, Some,
                      StillSpillable
  <2>3. (Closing \/ OneCopy)'
    BY <1>1, <2>1 DEF CalmInv, Closing, Some, OneCopy, EntryAlone, FileAlone, WritingAlone,
                      JobAlone, ReaderAlone, Stale
  <2> QED BY <2>2, <2>3 DEF CalmInv
<1> QED BY <1>3, <1>4, <1>5, <1>6, <1>7 DEF Next

----------
(* The theorems. *)

\* Whatever happens in the unlocked gaps: every token in use was handed out, a generation
\* that is not recorded yet is nobody else's, the run that is about to be stored is nowhere
\* else, and one in-place edit is written back at a time.
THEOREM TokensInvariant == Spec => []IInv
<1>1. Init => IInv
  BY InitIInv
<1>2. IInv /\ [Next]_vars => IInv'
  BY NextIInv
<1> QED BY <1>1, <1>2, PTL DEF Spec

\* As long as no gap was hit, a generation belongs to one entry, the recorded generation's
\* entry, file and jobs hold the newest result, and unless the tab is being closed there is
\* one copy of it.
THEOREM OneCopyInvariant == Spec => []CInv
<1>1. Init => IInv /\ CInv
  BY InitIInv, InitCalm DEF CInv
<1>2. IInv /\ CInv /\ [Next]_vars => (IInv /\ CInv)'
  BY NextIInv, NextCInv
<1> QED BY <1>1, <1>2, PTL DEF Spec

LEMMA InvariantImpliesCacheInv ==
  ASSUME IInv, CInv
  PROVE  CacheInv
<1>1. Typed /\ TypeOK
  BY TypedFacts DEF IInv
<1>2. OnlyNewestIsKept
  <2> SUFFICES ASSUME raced = {}
               PROVE  /\ entry # None => entry.val = newest
                      /\ spill_file # None => spill_file = newest \/ At({"forget"}) # {}
                      /\ \A i \in DOMAIN jobs : StillSpillable(jobs[i])
                                   => jobs[i].val = newest \/ At(Unrecorded) # {}
    BY DEF OnlyNewestIsKept
  <2>1. CalmInv
    BY DEF CInv, Calm
  <2>2. Some({"forget"}) => At({"forget"}) # {}
    BY SomeAt
  <2>3. Some(Unrecorded) => At(Unrecorded) # {}
    BY SomeAt
  <2> QED BY <2>1, <2>2, <2>3 DEF CalmInv, EntryInv, SpillInv, Closing, StillSpillable, Unrecorded
<1>3. NewestIsKept
  <2> SUFFICES ASSUME raced = {}, newest # None
               PROVE  \/ entry # None /\ entry.val = newest
                      \/ spill_file = newest
                      \/ writing # None /\ writing.val = newest
                      \/ \E i \in DOMAIN jobs : StillSpillable(jobs[i]) /\ jobs[i].val = newest
                      \/ \E c \in At({"rewarm_put"}) : client[c].held = newest
                      \/ At({"clear", "put", "invalidate"}) # {}
    BY DEF NewestIsKept
  <2>1. CalmInv
    BY DEF CInv, Calm
  <2>2. Some({"clear", "put", "invalidate"}) => At({"clear", "put", "invalidate"}) # {}
    BY SomeAt
  <2>3. \A c \in Clients : client[c].pc = "rewarm_put" => c \in At({"rewarm_put"})
    BY DEF At
  <2> QED BY <2>1, <2>2, <2>3 DEF CalmInv, EntryInv, KeptInv
<1>4. ClosedTabIsForgotten
  <2> SUFFICES ASSUME raced = {}, newest = None, writing = None, At(Labels \ {"idle"}) = {}
               PROVE  /\ entry = None /\ spill_file = None /\ ~known
                      /\ \A i \in DOMAIN jobs : ~StillSpillable(jobs[i])
    BY DEF ClosedTabIsForgotten
  <2>1. CalmInv
    BY DEF CInv, Calm
  <2>2. ~Closing /\ ~Some({"record", "forget"})
    BY DEF At, Closing, Some, Labels
  <2>3. entry = None
    BY <1>1, <2>1 DEF Typed, IsValue, CalmInv, EntryInv
  <2>4. spill_file = None
    BY <2>1, <2>2 DEF CalmInv, SpillInv
  <2>5. ~known
    BY <1>1, <2>1, <2>2 DEF TypeOK, CalmInv, ClosedInv
  <2>6. \A i \in DOMAIN jobs : ~StillSpillable(jobs[i])
    BY <1>1, <2>1, <2>2 DEF Typed, IsValue, StillSpillable, CalmInv, SpillInv
  <2> QED BY <2>3, <2>4, <2>5, <2>6
<1> QED BY <1>1, <1>2, <1>3, <1>4 DEF CacheInv

\* Unless an unlocked gap was hit, the newest result of a tab is in the cache, in its spill
\* file or on the way there, nothing else is, and nothing of a closed tab: for any number of
\* backend tasks, runs, edits and tokens.
THEOREM NewestResultIsKept == Spec => []CacheInv
<1>1. Init => IInv /\ CInv
  BY InitIInv, InitCalm DEF CInv
<1>2. IInv /\ CInv /\ [Next]_vars => (IInv /\ CInv)'
  BY NextIInv, NextCInv
<1>3. IInv /\ CInv => CacheInv
  BY InvariantImpliesCacheInv
<1> QED BY <1>1, <1>2, <1>3, PTL DEF Spec

=============================================================================
