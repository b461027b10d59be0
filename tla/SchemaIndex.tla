---------------------------- MODULE SchemaIndex ----------------------------
(***************************************************************************)
(* The schema index of one saved profile: the sessions open on it, the     *)
(* backend's count of them, the build task and its cancellation token, and *)
(* the status the front end shows for each session.                        *)
(*                                                                         *)
(* A step is one region under a lock, in a command or in a build task; the *)
(* commands run on several threads. What a build stores is its status and  *)
(* the model it was made with.                                             *)
(***************************************************************************)
EXTENDS Integers, FiniteSets, Sequences, SequencesExt

CONSTANTS Sessions,  \* session ids, each opened once
          Models,    \* embedding models
          MaxCalls,  \* bound on the calls in flight at once
          MaxBuilds, \* bound on the build tasks alive at once
          MaxEvents, \* bound on the events emitted and not yet handled
          MaxRaces,  \* bound on the races a behaviour goes on after
          MaxAsked   \* bound on the user's requests, closing a session not counted

ASSUME IndexAssumption ==
  IsFiniteSet(Sessions) /\ {MaxCalls, MaxBuilds, MaxEvents, MaxRaces, MaxAsked} \subseteq Nat

VARIABLES life,        \* each session in the registry: "new", "open" or "closed"
          mapped,      \* session_profile_map
          count,       \* session_ref_counts of the profile, or NoCount
          token,       \* index_build_tokens of the profile: the build it cancels, or NoBuild
          meta,        \* schema_index_meta: status and model, or NoMeta
          model,       \* ai.embeddingModel as saved, or NoModel
          builds,      \* build tasks
          calls,       \* commands in flight, a set of records; n tells twins apart
          connections, \* the store's status of each session, or "absent"
          sessions,    \* profileToSessions: registered sessions, in order
          saving,      \* a saved model the store has not been told of
          events,      \* events emitted and not yet handled, in order
          asked,       \* requests so far
          stray,       \* ghost: sessions that show the answer of an overtaken reply
          races        \* ghost: the races, named at Races, met so far

backend  == <<life, mapped, count, token, meta, builds>>
frontend == <<connections, sessions, saving, asked>>
indexVars == <<backend, frontend, model, calls, events, stray, races>>

NoBuild == 0
NoCount == -1
NoModel == "none"
NoMeta  == [status |-> "none", model |-> NoModel]
BuildIds == 1 .. MaxBuilds

Ended == [on |-> FALSE, live |-> FALSE, model |-> NoModel, step |-> "none",
          partial |-> FALSE]

IndexStatuses == {"stale", "building", "ready", "error", "not_configured"}

(* "double": two calls of one session both find it unregistered, and count *)
(* it twice; "late": a session is mapped or counted, or asks for a build,  *)
(* while its close is under way; "reset": the last close drops the count   *)
(* of a session that came meanwhile; "lost": a build that ends drops the   *)
(* token of another; "twice": two builds pass their check together;        *)
(* "leak": a build's session closes between its token and its pool;        *)
(* "model": the model changes under a build, or a ready sibling is taken   *)
(* for an index of the new model; "crossed": two builds end together;      *)
(* "partial": a rebuild of single tables ran; "revived": a failed call     *)
(* answers for a session no longer known.                                  *)
Races == {"double", "late", "reset", "lost", "twice", "leak", "model", "crossed", "partial",
          "revived"}

(* The variables have their types, and the store knows a session while it  *)
(* is registered, unless a late failure brought its entry back.            *)
IndexTypeOK ==
  /\ life \in [Sessions -> {"new", "open", "closed"}] /\ mapped \subseteq Sessions
  /\ count \in Nat \cup {NoCount} /\ token \in BuildIds \cup {NoBuild}
  /\ meta \in [status : {"none", "building", "ready", "error"}, model : Models \cup {NoModel}]
  /\ model \in Models \cup {NoModel} /\ saving \in BOOLEAN /\ asked \in 0 .. MaxAsked
  /\ DOMAIN builds = BuildIds /\ Cardinality(calls) <= MaxCalls
  /\ connections \in [Sessions -> IndexStatuses \cup {"absent"}]
  /\ IsInjective(sessions) /\ ToSet(sessions) \subseteq Sessions
  /\ stray \subseteq Sessions /\ races \subseteq Races
  /\ "revived" \notin races => \A s \in Sessions : (connections[s] # "absent") <=> s \in ToSet(sessions)

IndexInit ==
  /\ life = [s \in Sessions |-> "new"] /\ mapped = {} /\ count = NoCount /\ token = NoBuild
  /\ meta = NoMeta /\ model \in Models
  /\ builds = [b \in BuildIds |-> Ended] /\ calls = {}
  /\ connections = [s \in Sessions |-> "absent"] /\ sessions = <<>> /\ saving = FALSE
  /\ events = <<>> /\ asked = 0 /\ stray = {} /\ races = {}

-----------------------------------------------------------------------------
(* What a status call answers. *)

get_index_status(s) ==
  IF (s \notin mapped /\ life[s] # "open") \/ model = NoModel THEN "not_configured"
  ELSE IF token # NoBuild THEN "building"
  ELSE IF meta = NoMeta \/ meta.model # model THEN "stale"
  ELSE meta.status

-----------------------------------------------------------------------------
(* Calls: each runs on its own once it is started. *)

Room(n) == Cardinality(calls) + n <= MaxCalls

Call(cs, kind, s, step) ==
  [kind |-> kind, s |-> s, step |-> step, model |-> NoModel, b |-> NoBuild,
   n |-> Min(0 .. MaxCalls \ {c.n : c \in {d \in cs : d.kind = kind /\ d.s = s}})]

Begin(cs, kind, s, step) == cs \cup {Call(cs, kind, s, step)}

Becomes(c, d)  == calls' = (calls \ {c}) \cup {d}
Goto(c, step) == Becomes(c, [c EXCEPT !.step = step])
Finish(c)     == calls' = calls \ {c}

-----------------------------------------------------------------------------
(* The store. *)

(* triggerBuild: a sibling that is building or ready is mirrored, any      *)
(* other session is shown building and calls the backend. st holds the     *)
(* statuses, calls the calls, mirrored the sessions that mirror.           *)
triggerBuild(f, s) ==
  LET sibling == SelectInSeq(sessions, LAMBDA t : t # s /\ f.st[t] \in {"building", "ready"}) IN
  IF sibling # 0
  THEN [f EXCEPT !.st[s] = f.st[sessions[sibling]], !.mirrored = @ \cup {s}]
  ELSE [f EXCEPT !.st[s] = "building", !.calls = Begin(@, "build", s, "start")]

NoTriggers == [st |-> connections, calls |-> calls, mirrored |-> {}]

(* An end of a build is still to be told to the sessions.                  *)
EndComing == \/ \E b \in BuildIds : builds[b].on /\ ~builds[b].partial /\ builds[b].step # "over"
             \/ \E i \in DOMAIN events : events[i] # "building"

Holds(s, status) == status = get_index_status(s) /\ (status = "building" => EndComing)

Mirrored(f) ==
  /\ stray' = (stray \ f.mirrored) \cup {s \in f.mirrored : ~Holds(s, f.st[s])}
  /\ races' = IF \E s \in f.mirrored : f.st[s] = "ready" /\ meta.model # model
             THEN races \cup {"model"} ELSE races

(* openConnection, or attachExistingConnection of a session that is open   *)
(* already: the second asks for no build.                                  *)
Open(s, asks) ==
  /\ life[s] = "new" /\ Room(2)
  /\ life' = [life EXCEPT ![s] = "open"]
  /\ sessions' = Append(sessions, s)
  /\ LET attached == [NoTriggers EXCEPT !.st[s] = "stale", !.calls = Begin(@, "initial", s, "read")]
         f == IF asks THEN triggerBuild(attached, s) ELSE attached
     IN connections' = f.st /\ calls' = f.calls /\ Mirrored(f)
  /\ UNCHANGED <<mapped, count, token, meta, model, builds, saving, events, asked>>

Asks == asked < MaxAsked /\ asked' = asked + 1

(* The settings dialog's Save: the backend has the model first.            *)
SaveModel(m) ==
  /\ Asks /\ ~saving /\ m # model
  /\ model' = m /\ saving' = TRUE
  /\ races' = IF \/ token # NoBuild \/ events # <<>> \/ \E b \in BuildIds : builds[b].on
                \/ \E c \in calls : c.kind \in {"build", "quiet", "force"}
             THEN races \cup {"model"} ELSE races
  /\ UNCHANGED <<backend, connections, sessions, calls, events, stray>>

(* Each registered session in turn.                                        *)
Triggered ==
  LET f[i \in 0 .. Len(sessions)] ==
        IF i = 0 THEN NoTriggers ELSE triggerBuild(f[i - 1], sessions[i])
  IN  f[Len(sessions)]

(* The store's subscription: each registered session asks for a build.     *)
ModelSaved ==
  /\ saving /\ saving' = FALSE
  /\ LET f == Triggered IN
     /\ Cardinality(f.calls) <= MaxCalls
     /\ connections' = f.st /\ calls' = f.calls /\ Mirrored(f)
  /\ UNCHANGED <<backend, sessions, model, events, asked>>

(* Force reindex: every registered session calls, the button being off     *)
(* while one shows a build.                                                *)
ForceReindex ==
  /\ Asks /\ Room(Len(sessions))
  /\ \A s \in Sessions : connections[s] # "building"
  /\ connections' = [s \in Sessions |-> IF s \in ToSet(sessions) THEN "building" ELSE connections[s]]
  /\ calls' = calls \cup {Call(calls, "force", s, "start") : s \in ToSet(sessions)}
  /\ UNCHANGED <<backend, sessions, saving, model, events, stray, races>>

(* A table is dropped, renamed or designed anew ("invalidate"), or a       *)
(* database is dropped, which asks for a whole build ("quiet").            *)
ChangeSchema(s, kind) ==
  /\ Asks /\ s \in ToSet(sessions) /\ Room(1)
  /\ calls' = Begin(calls, kind, s, "start")
  /\ UNCHANGED <<backend, connections, sessions, saving, model, events, stray, races>>

CloseConnection(s) ==
  /\ s \in ToSet(sessions) /\ Room(1) /\ \A c \in calls : c.kind = "close" => c.s # s
  /\ calls' = Begin(calls, "close", s, "start")
  /\ UNCHANGED <<backend, frontend, model, events, stray, races>>

-----------------------------------------------------------------------------
(* build_schema_index ("build" from the store, "quiet" from the object     *)
(* browser) and force_rebuild_schema_index.                                *)

Asking == {"build", "quiet", "force"}

(* The session's close has looked it up, or is over.                       *)
ClosePast(s) ==
  life[s] = "closed" \/ \E c \in calls : c.kind = "close" /\ c.s = s /\ c.step # "start"

Resolves(s) == s \in mapped \/ life[s] = "open"

(* The profile of the session is found, or the call fails.                 *)
FindProfile(c) ==
  /\ c.step = "start" /\ c.kind \in Asking
  /\ Goto(c, IF Resolves(c.s) THEN "look" ELSE "failed")
  /\ UNCHANGED <<backend, frontend, model, events, stray, races>>

IsRegisteredNever(s) == FALSE

IsRegistered(s) == s \in mapped

AfterRegistering(c) == IF c.kind = "force" THEN "cancel" ELSE "check"

(* A session that is not mapped is mapped and then counted, each under a   *)
(* lock of its own.                                                        *)
LookUp(c) ==
  /\ c.step = "look"
  /\ Goto(c, IF IsRegistered(c.s) THEN AfterRegistering(c) ELSE "map")
  /\ races' = IF ~IsRegistered(c.s) /\ \E d \in calls : d.s = c.s /\ d.step = "map"
              THEN races \cup {"double"} ELSE races
  /\ UNCHANGED <<backend, frontend, model, events, stray>>

MapSession(c) ==
  /\ c.step = "map"
  /\ mapped' = mapped \cup {c.s}
  /\ races' = IF ClosePast(c.s) THEN races \cup {"late"} ELSE races
  /\ Goto(c, "count")
  /\ UNCHANGED <<life, count, token, meta, builds, frontend, model, events, stray>>

CountSession(c) ==
  /\ c.step = "count"
  /\ count' = IF count = NoCount THEN 1 ELSE count + 1
  /\ races' = IF ClosePast(c.s) THEN races \cup {"late"} ELSE races
  /\ Goto(c, AfterRegistering(c))
  /\ UNCHANGED <<life, mapped, token, meta, builds, frontend, model, events, stray>>

(* Not for a force rebuild: a build already running is left to run.        *)
CheckRunning(c) ==
  /\ c.step = "check"
  /\ IF token # NoBuild \/ model = NoModel THEN Goto(c, "done")
     ELSE Becomes(c, [c EXCEPT !.step = "insert", !.model = model])
  /\ UNCHANGED <<backend, frontend, model, events, stray, races>>

CancelledNot(b) == builds

Cancelled(b) == IF b = NoBuild THEN builds ELSE [builds EXCEPT ![b].live = FALSE]

CancelRunning(c) ==
  /\ c.step = "cancel"
  /\ builds' = Cancelled(token) /\ token' = NoBuild
  /\ IF model = NoModel THEN Goto(c, "done")
     ELSE Becomes(c, [c EXCEPT !.step = "insert", !.model = model])
  /\ UNCHANGED <<life, mapped, count, meta, frontend, model, events, stray, races>>

FreeBuilds == {b \in BuildIds : ~builds[b].on /\ token # b /\ \A c \in calls : c.b # b}

InsertToken(c) ==
  /\ c.step = "insert" /\ FreeBuilds # {}
  /\ LET b == Min(FreeBuilds) IN
     /\ token' = b
     /\ builds' = [builds EXCEPT ![b] = [Ended EXCEPT !.live = TRUE]]
     /\ Becomes(c, [c EXCEPT !.step = "pool", !.b = b])
  /\ races' = races \cup (IF token # NoBuild THEN {"twice"} ELSE {})
                  \cup (IF ClosePast(c.s) THEN {"late"} ELSE {})
                  \cup (IF c.model # model THEN {"model"} ELSE {})
  /\ UNCHANGED <<life, mapped, count, meta, frontend, model, events, stray>>

(* The session's pool, and the task. Without a pool the token stays.       *)
SpawnBuild(c) ==
  /\ c.step = "pool" /\ c.kind \in Asking
  /\ IF life[c.s] = "open"
     THEN /\ builds' = [builds EXCEPT ![c.b] =
                [@ EXCEPT !.on = TRUE, !.model = c.model, !.step = "begin"]]
          /\ Becomes(c, [c EXCEPT !.step = "done", !.b = NoBuild, !.model = NoModel])
          /\ UNCHANGED races
     ELSE /\ Becomes(c, [c EXCEPT !.step = "failed", !.b = NoBuild, !.model = NoModel])
          /\ races' = races \cup {"leak"}
          /\ UNCHANGED builds
  /\ UNCHANGED <<life, mapped, count, token, meta, frontend, model, events, stray>>

(* invalidate_schema_index: a rebuild of single tables, with a token that  *)
(* nothing else holds.                                                     *)
SpawnPartial(c) ==
  /\ c.step = "start" /\ c.kind = "invalidate"
  /\ IF life[c.s] = "open" /\ model # NoModel
     THEN /\ FreeBuilds # {}
          /\ builds' = [builds EXCEPT ![Min(FreeBuilds)] =
                [on |-> TRUE, live |-> TRUE, model |-> model, step |-> "begin",
                 partial |-> TRUE]]
          /\ races' = races \cup {"partial"}
     ELSE UNCHANGED <<builds, races>>
  /\ Goto(c, "done")
  /\ UNCHANGED <<life, mapped, count, token, meta, frontend, model, events, stray>>

-----------------------------------------------------------------------------
(* build_index, in its task: it sets the status and tells of its progress, *)
(* works, sets the status it ends with and tells of it.                    *)

Emit(e) == Len(events) < MaxEvents /\ events' = Append(events, e)

BuildBegins(b) ==
  /\ builds[b].on /\ builds[b].step = "begin"
  /\ meta' = [status |-> "building", model |-> builds[b].model]
  /\ builds' = [builds EXCEPT ![b].step = "work"]
  /\ IF builds[b].partial THEN UNCHANGED events ELSE Emit("building")
  /\ UNCHANGED <<life, mapped, count, token, frontend, model, calls, stray, races>>

(* A cancelled build may be past its last look at the token.               *)
BuildSucceeds(b) ==
  /\ builds[b].on /\ builds[b].step = "work"
  /\ meta' = [meta EXCEPT !.status = "ready"]
  /\ builds' = [builds EXCEPT ![b] = IF @.partial THEN Ended ELSE [@ EXCEPT !.step = "ready"]]
  /\ UNCHANGED <<life, mapped, count, token, frontend, model, calls, events, stray, races>>

BuildFails(b) ==
  /\ builds[b].on /\ builds[b].step \in {"begin", "work"}
  /\ meta' = IF builds[b].partial \/ meta = NoMeta THEN meta ELSE [meta EXCEPT !.status = "error"]
  /\ builds' = [builds EXCEPT ![b].step = "error"]
  /\ UNCHANGED <<life, mapped, count, token, frontend, model, calls, events, stray, races>>

TellEnd(b) ==
  /\ builds[b].on /\ builds[b].step \in {"ready", "error"}
  /\ Emit(builds[b].step)
  /\ builds' = [builds EXCEPT ![b] = IF @.partial THEN Ended ELSE [@ EXCEPT !.step = "over"]]
  /\ races' = IF meta.status \in {builds[b].step, "none"} THEN races ELSE races \cup {"crossed"}
  /\ UNCHANGED <<life, mapped, count, token, meta, frontend, model, calls, stray>>

(* The task's last act: the profile's token goes, whose ever it is.        *)
DropToken(b) ==
  /\ builds[b].on /\ builds[b].step = "over"
  /\ token' = NoBuild
  /\ races' = IF token \in {b, NoBuild} THEN races ELSE races \cup {"lost"}
  /\ builds' = [builds EXCEPT ![b] = Ended]
  /\ UNCHANGED <<life, mapped, count, meta, frontend, model, calls, events, stray>>

-----------------------------------------------------------------------------
(* close_connection: cleanup_schema_index_session, then the registry.      *)

IsLastOffByOne(n) == n < 0

IsLast(n) == n = 0

(* The session is looked up, the profile uncounted, the session unmapped.  *)
LookUpClosing(c) ==
  /\ c.step = "start" /\ c.kind = "close"
  /\ Goto(c, IF c.s \in mapped THEN "uncount" ELSE "remove")
  /\ races' = IF \E d \in calls : d.s = c.s /\ d.step = "count" THEN races \cup {"late"} ELSE races
  /\ UNCHANGED <<backend, frontend, model, events, stray>>

Uncount(c) ==
  /\ c.step = "uncount"
  /\ count' = IF count > 0 THEN count - 1 ELSE count
  /\ Goto(c, IF IsLast(count') THEN "unmapLast" ELSE "unmap")
  /\ UNCHANGED <<life, mapped, token, meta, builds, frontend, model, events, stray, races>>

Unmap(c) ==
  /\ c.step \in {"unmap", "unmapLast"}
  /\ mapped' = mapped \ {c.s}
  /\ Goto(c, IF c.step = "unmapLast" THEN "stop" ELSE "remove")
  /\ UNCHANGED <<life, count, token, meta, builds, frontend, model, events, stray, races>>

(* The last session of the profile, as counted some steps ago.             *)
StopBuild(c) ==
  /\ c.step = "stop"
  /\ builds' = Cancelled(token) /\ token' = NoBuild
  /\ Goto(c, "forget")
  /\ UNCHANGED <<life, mapped, count, meta, frontend, model, events, stray, races>>

ForgetCount(c) ==
  /\ c.step = "forget"
  /\ count' = NoCount
  /\ races' = IF count > 0 THEN races \cup {"reset"} ELSE races
  /\ Goto(c, "remove")
  /\ UNCHANGED <<life, mapped, token, meta, builds, frontend, model, events, stray>>

RemoveConnection(c) ==
  /\ c.step = "remove"
  /\ Goto(c, IF life[c.s] = "open" THEN "done" ELSE "failed")
  /\ life' = [life EXCEPT ![c.s] = "closed"]
  /\ UNCHANGED <<mapped, count, token, meta, builds, frontend, model, events, stray, races>>

-----------------------------------------------------------------------------
(* Status calls, and the answers the store applies. *)

ReadStatus(c) ==
  /\ c.step = "read"
  /\ Goto(c, get_index_status(c.s))
  /\ UNCHANGED <<backend, frontend, model, events, stray, races>>

Show(s, status) ==
  /\ connections' = [connections EXCEPT ![s] = status]
  /\ stray' = IF Holds(s, status) THEN stray \ {s} ELSE stray \cup {s}

AppliesToClosed(c) == c.kind = "initial" \/ connections[c.s] \in {"building", "stale"}

(* The first status of a session is applied whatever is shown by then, the *)
(* status after a build call only where no event has come.                 *)
Applies(c) == IF c.kind = "initial" THEN connections[c.s] # "absent"
              ELSE connections[c.s] \in {"building", "stale"}

StatusReply(c) ==
  /\ c.step \in IndexStatuses
  /\ IF Applies(c) THEN Show(c.s, c.step) ELSE UNCHANGED <<connections, stray>>
  /\ Finish(c)
  /\ UNCHANGED <<backend, sessions, saving, asked, model, events, races>>

CallReply(c) ==
  LET s == c.s IN
  /\ c.step = "done"
  /\ CASE c.kind \in {"build", "force"} -> calls' = Begin(calls \ {c}, "after", s, "read")
       [] c.kind \in {"quiet", "invalidate", "close"} -> Finish(c)
  /\ IF c.kind = "close"
     THEN /\ connections' = [connections EXCEPT ![s] = "absent"]
          /\ \E i \in DOMAIN sessions : sessions[i] = s /\ sessions' = RemoveAt(sessions, i)
          /\ stray' = stray \ {s}
     ELSE UNCHANGED <<connections, sessions, stray>>
  /\ UNCHANGED <<backend, saving, asked, model, events, races>>

(* A build call that fails shows the error, for a closed session too.      *)
CallFails(c) ==
  LET s == c.s IN
  /\ c.step = "failed"
  /\ IF c.kind \in {"build", "force"}
     THEN /\ connections' = [connections EXCEPT ![s] = "error"]
          /\ stray' = stray \cup {s}
          /\ races' = IF connections[s] = "absent" THEN races \cup {"revived"} ELSE races
     ELSE UNCHANGED <<connections, stray, races>>
  /\ Finish(c)
  /\ UNCHANGED <<backend, sessions, saving, asked, model, events>>

(* The rename of a table asks for a whole build once its call is answered. *)
QuietBuild(c) ==
  /\ c.kind = "invalidate" /\ c.step = "done"
  /\ calls' = Begin(calls \ {c}, "quiet", c.s, "start")
  /\ UNCHANGED <<backend, frontend, model, events, stray, races>>

TellsBuilding(s) == s \in ToSet(sessions) /\ connections[s] = "building"

Tells(s) == s \in ToSet(sessions)

(* The profile's events, applied to every session registered by then.      *)
HandleEvent ==
  /\ events # <<>> /\ events' = Tail(events)
  /\ connections' = [s \in Sessions |-> IF Tells(s) THEN Head(events) ELSE connections[s]]
  /\ stray' = stray \ ToSet(sessions)
  /\ UNCHANGED <<backend, sessions, saving, asked, model, calls, races>>

-----------------------------------------------------------------------------

CallStep(c) ==
  \/ FindProfile(c) \/ LookUp(c) \/ MapSession(c) \/ CountSession(c)
  \/ CheckRunning(c) \/ CancelRunning(c) \/ InsertToken(c) \/ SpawnBuild(c) \/ SpawnPartial(c)
  \/ LookUpClosing(c) \/ Uncount(c) \/ Unmap(c) \/ StopBuild(c) \/ ForgetCount(c)
  \/ RemoveConnection(c)
  \/ ReadStatus(c) \/ StatusReply(c) \/ CallReply(c) \/ CallFails(c) \/ QuietBuild(c)

BuildStep(b) ==
  \/ BuildBegins(b) \/ BuildSucceeds(b) \/ BuildFails(b) \/ TellEnd(b) \/ DropToken(b)

Step ==
  \/ \E s \in Sessions : \/ \E asks \in BOOLEAN : Open(s, asks)
                         \/ \E kind \in {"invalidate", "quiet"} : ChangeSchema(s, kind)
                         \/ CloseConnection(s)
  \/ \E m \in Models \cup {NoModel} : SaveModel(m)
  \/ ModelSaved \/ ForceReindex \/ HandleEvent
  \/ \E c \in calls : CallStep(c)
  \/ \E b \in BuildIds : BuildStep(b)

(* A behaviour is followed up to MaxRaces races.                           *)
IndexNext == Cardinality(races \ {"partial"}) <= MaxRaces /\ Step

Symm == Permutations(Sessions)

IndexSpec == IndexInit /\ [][IndexNext]_indexVars

-----------------------------------------------------------------------------
(* Properties. *)

At(kinds, steps) == {c \in calls : c.kind \in kinds /\ c.step \in steps}

(* The mapped sessions that no call has still to count or to unmap.        *)
CountedSessions ==
  {s \in mapped : ~\E c \in calls : c.s = s /\ c.step \in {"count", "unmap", "unmapLast"}}

(* The profile's count is the number of its mapped sessions, those apart   *)
(* that a call has mapped and not yet counted, or uncounted and not yet    *)
(* unmapped: on it depends whether the last close stops a build and an     *)
(* earlier one does not. Two calls that register one session together      *)
(* ("double"), or a call beside the session's own close, leave it wrong.   *)
CountIsExact ==
  races \cap {"double", "late", "reset"} = {} =>
    (IF count = NoCount THEN 0 ELSE count) = Cardinality(CountedSessions)

(* With every session of the profile closed and no command in flight, no   *)
(* build of it goes on and no token of it is kept.                         *)
LastCloseStopsBuilds ==
  (/\ races \cap {"double", "late", "lost", "twice", "reset", "leak", "partial"} = {}
   /\ \A s \in Sessions : life[s] # "open"
   /\ calls = {})
     => token = NoBuild /\ \A b \in BuildIds : builds[b].on => ~builds[b].live

(* A profile is indexed by one build at a time: a second one starts only   *)
(* when the first was cancelled.                                           *)
OneLiveBuild ==
  races \cap {"lost", "twice"} = {} =>
    Cardinality({b \in BuildIds : builds[b].on /\ builds[b].live /\ ~builds[b].partial
                                  /\ builds[b].step # "over"}) <= 1

(* Sessions, tokens and builds of a profile fit together.                   *)
BuildsInv == IndexTypeOK /\ CountIsExact /\ LastCloseStopsBuilds /\ OneLiveBuild

Quiet ==
  /\ events = <<>> /\ ~saving
  /\ calls = {}
  /\ \A b \in BuildIds : ~builds[b].on

(* Once everything asked for has ended, a session shows the status the     *)
(* backend would answer, or the error of a build that got no further than  *)
(* stale: none is left building, none ready on an index of another model.  *)
ShownIsTrue ==
  Quiet /\ races \cap {"crossed", "model", "partial", "leak"} = {} =>
    \A s \in ToSet(sessions) \ stray :
      connections[s] \in {get_index_status(s)} \cup (IF get_index_status(s) = "stale" THEN {"error"} ELSE {})

(* The subscription's comment, "Trigger rebuild for all active sessions":  *)
(* after a change of the model no session shows ready on the old one.      *)
ReadyIsCurrent ==
  Quiet => \A s \in ToSet(sessions) : connections[s] = "ready" => meta.model = model
=============================================================================
