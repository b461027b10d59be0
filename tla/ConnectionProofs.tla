-------------------------- MODULE ConnectionProofs --------------------------
(***************************************************************************)
(* Proofs about Connection, for any set of databases and any bounds: the   *)
(* type invariant, that the front end shows the registry's status and      *)
(* forgets a closed connection, and that pool, editor session, default     *)
(* database and front end agree once no selection is in flight.            *)
(*                                                                         *)
(* None of the three is inductive.  What the front end will show is the    *)
(* last event that waits, if one does; who is told of a change depends on  *)
(* whether a listing, a close or a restart is under way; and while a       *)
(* selection is in flight each of its steps leaves the copies in one       *)
(* particular disagreement, which the next step must find.                 *)
(***************************************************************************)
EXTENDS Connection, Workspace, FiniteSetTheorems, SequenceTheorems, TLAPS

\* The identifiers of the selections in flight have been handed out.
IdsInv == \A c \in selects : c.id <= issued

\* A reconnect that waits or connects has said so.
MonitorInv ==
    entry.open /\ monitor.step \in {"backoff", "building"} => entry.status = "reconnecting"

\* Who is attached: not while a session is listed, still while it is being closed,
\* no more once it is closed.
AttachedInv ==
    /\ listed.on => ~store.attached /\ entry.open
    /\ closing => store.attached
    /\ ~entry.open /\ ~closing => ~store.attached

\* The last event that waits names the registry's status, and so does the front end
\* when none waits, and the listing it will attach.
StatusInv ==
    entry.open /\ "early" \notin gaps =>
        /\ events # <<>> => events[Len(events)] = entry.status
        /\ events = <<>> /\ store.attached => store.status = entry.status
        /\ listed.on => listed.status = entry.status

\* The editor session, if there is one, is on one of these databases.
EditorOn(databases) == editor.slot \in {"opening", "open"} => editor.database \in databases

\* What a selection has switched so far, and what it has not.
Switched(c) ==
    /\ c.step \in {"begin", "building", "use", "failed"} =>
          entry.pool = entry.default /\ EditorOn({entry.default})
    /\ c.step = "pool" => entry.pool = entry.default /\ EditorOn({entry.default, c.database})
    /\ c.step = "default" => entry.pool = c.database /\ EditorOn({entry.default, c.database})
    /\ c.step = "done" =>
          /\ entry.pool = c.database /\ entry.default = c.database
          /\ EditorOn({entry.default})

\* What the front end shows while a selection is in flight, whether it will hear of
\* its end or was restarted meanwhile.
Shown(c) ==
    /\ c.heard => /\ store.attached /\ store.database = c.database
                  /\ c.step # "done" => c.from = entry.default
    /\ ~c.heard /\ store.attached => store.database = entry.default

DatabasesInv ==
    entry.open /\ gaps \subseteq {"password"} =>
        /\ \A c1, c2 \in selects : c1 = c2
        /\ \A c \in selects : Switched(c) /\ Shown(c)
        /\ selects = {} =>
              /\ entry.pool = entry.default /\ EditorOn({entry.default})
              /\ store.attached => store.database = entry.default
        /\ listed.on => listed.database = entry.default

\* The parts of TypeOK, and of IdsInv.
StateOK ==
    /\ server \in [up : BOOLEAN, outages : 0 .. MaxOutages]
    /\ entry \in [open : BOOLEAN, status : Statuses, pool : Databases, default : Databases]
    /\ editor \in [slot : {"none", "opening", "open", "dead"}, database : Databases]
    /\ monitor \in [step : {"off", "sleep", "lost", "retry", "backoff", "building", "built"},
                    database : Databases]
    /\ closing \in BOOLEAN
    /\ store \in [attached : BOOLEAN, status : Statuses, database : Databases]
    /\ listed \in Listing /\ reloads \in 0 .. MaxReloads
    /\ gaps \subseteq Gaps

SelectsOK ==
    /\ selects \subseteq Calls /\ issued \in 0 .. MaxSelects
    /\ \A c1, c2 \in selects : c1.id = c2.id => c1 = c2
    /\ \A c \in selects : c.id <= issued

EventsOK == events \in Seq(Statuses) /\ Len(events) <= MaxEvents

IInv == TypeOK /\ IdsInv /\ MonitorInv /\ AttachedInv /\ StatusInv /\ DatabasesInv

----------
LEMMA StartIsADatabase == Start \in Databases
  BY DatabasesAssumption DEF Start

(* Initially every copy is the database of the profile and nothing is in   *)
(* flight.                                                                 *)
LEMMA Initially == Init => IInv
<1>. SUFFICES ASSUME Init  PROVE IInv
  OBVIOUS
<1>1. StateOK
  <2>1. server \in [up : BOOLEAN, outages : 0 .. MaxOutages] /\ reloads \in 0 .. MaxReloads
    BY BoundsAssumption DEF Init
  <2>. QED BY <2>1, StartIsADatabase
            DEF Init, StateOK, NoEditor, Detached, Listing, Statuses
<1>2. SelectsOK /\ EventsOK
  BY BoundsAssumption DEF Init, SelectsOK, EventsOK
<1>3. TypeOK /\ IdsInv
  BY <1>1, <1>2 DEF TypeOK, IdsInv, StateOK, SelectsOK, EventsOK
<1>4. MonitorInv /\ AttachedInv /\ StatusInv /\ DatabasesInv
  BY DEF Init, MonitorInv, AttachedInv, StatusInv, DatabasesInv, EditorOn, NoEditor, Detached
<1>. QED BY <1>3, <1>4 DEF IInv

(* What is taken from the events or from a call has its type.              *)
LEMMA HeadTyped == ASSUME EventsOK, events # <<>>  PROVE Head(events) \in Statuses
  BY DEF EventsOK

LEMMA CallTyped ==
  ASSUME SelectsOK, NEW c \in selects
  PROVE  c.database \in Databases /\ c.from \in Databases /\ c.heard \in BOOLEAN
  BY DEF SelectsOK, Calls

(* What is left of the events when the first is handled.                   *)
LEMMA TailOfEvents ==
  ASSUME EventsOK, events # <<>>
  PROVE  /\ Tail(events) \in Seq(Statuses) /\ Len(Tail(events)) <= MaxEvents
         /\ Tail(events) # <<>> => Tail(events)[Len(Tail(events))] = events[Len(events)]
         /\ Tail(events) = <<>> => Head(events) = events[Len(events)]
<1>1. events \in Seq(Statuses) /\ Len(events) \in Nat \ {0}
  BY EmptySeq, LenProperties DEF EventsOK
<1>2. Tail(events) \in Seq(Statuses) /\ Len(Tail(events)) = Len(events) - 1
  BY <1>1, HeadTailProperties
<1>3. \A i \in 1 .. Len(Tail(events)) : Tail(events)[i] = events[i + 1]
  BY <1>1, HeadTailProperties
<1>4. Tail(events) = <<>> <=> Len(Tail(events)) = 0
  BY <1>2, EmptySeq
<1>5. Head(events) = events[1]
  BY <1>1
<1>. QED BY <1>1, <1>2, <1>3, <1>4, <1>5, BoundsAssumption DEF EventsOK

(* An emitted status is the last of the events that wait.                  *)
LEMMA EmitAppends ==
  ASSUME NEW s \in Statuses, EventsOK, Emit(s)
  PROVE  EventsOK' /\ events' # <<>> /\ events'[Len(events')] = s
  BY BoundsAssumption DEF EventsOK, Emit

(* A call that goes on stays the only one with its identifier.             *)
LEMMA SelectGoesOn ==
  ASSUME NEW c \in selects, NEW step \in Steps, SelectsOK, SelectGoes(c, step), issued' = issued
  PROVE  SelectsOK'
<1>1. [c EXCEPT !.step = step] \in Calls /\ [c EXCEPT !.step = step].id = c.id
  BY DEF SelectsOK, Calls, Steps
<1>2. selects' \subseteq Calls
  BY <1>1 DEF SelectsOK, SelectGoes
<1>3. ASSUME NEW c1 \in selects', NEW c2 \in selects', c1.id = c2.id  PROVE c1 = c2
  BY <1>1, <1>3 DEF SelectsOK, SelectGoes
<1>4. \A d \in selects' : d.id <= issued
  BY <1>1 DEF SelectsOK, SelectGoes
<1>. QED BY <1>2, <1>3, <1>4 DEF SelectsOK

(* The entries, the slot, the monitor and the counters keep their types.   *)
LEMMA StateStep ==
  ASSUME StateOK, SelectsOK, EventsOK, [Next]_vars
  PROVE  StateOK'
<1>. USE DEF Gaps, StateOK, Listing, backend, Statuses, frontend
<1>1. CASE GoesDown
  BY StartIsADatabase, BoundsAssumption, <1>1 DEF GoesDown, NoEditor
<1>2. CASE ComesBack
  <2>1. server' \in [up : BOOLEAN, outages : 0 .. MaxOutages]
    BY StartIsADatabase, BoundsAssumption, <1>2 DEF ComesBack
  <2>. QED BY <1>2, <2>1 DEF ComesBack
<1>3. CASE MonitorStep
  <2>1. CASE MonitorStops
    BY StartIsADatabase, BoundsAssumption, <1>3, <2>1 DEF MonitorStops, MonitorGoes, MonitorStep
  <2>2. CASE PingFails
    BY StartIsADatabase, BoundsAssumption, <1>3, <2>2 DEF PingFails, MonitorGoes, MonitorStep
  <2>3. CASE TellLost
    BY StartIsADatabase, BoundsAssumption, <1>3, <2>3 DEF TellLost, MonitorGoes, update_and_emit,
       update_status, Emit, Met, Unheard, MonitorStep
  <2>4. CASE TellRetry
    BY StartIsADatabase, BoundsAssumption, <1>3, <2>4 DEF TellRetry, MonitorGoes, update_and_emit,
       update_status, Emit, Met, Unheard, MonitorStep
  <2>5. CASE Reconnect
    BY StartIsADatabase, BoundsAssumption, <1>3, <2>5 DEF Reconnect, MonitorStep
  <2>6. CASE ReconnectRefused
    BY StartIsADatabase, BoundsAssumption, <1>3, <2>6 DEF ReconnectRefused, MonitorGoes,
       update_and_emit, update_status, Emit, Met, Unheard, MonitorStep
  <2>7. CASE BuildFails
    BY StartIsADatabase, BoundsAssumption, <1>3, <2>7 DEF BuildFails, MonitorGoes, Emit, MonitorStep
  <2>8. CASE ReplacePool
    BY StartIsADatabase, BoundsAssumption, <1>3, <2>8 DEF ReplacePool, MonitorGoes, replace_pool,
       Met, MonitorStep
  <2>9. CASE TellConnected
    BY StartIsADatabase, BoundsAssumption, <1>3, <2>9 DEF TellConnected, MonitorGoes,
       update_and_emit, update_status, Emit, Met, Unheard, MonitorStep
  <2>. QED BY <1>3, <2>1, <2>2, <2>3, <2>4, <2>5, <2>6, <2>7, <2>8, <2>9 DEF MonitorStep
<1>4. CASE EditorStep
  <2>1. CASE Acquire
    BY StartIsADatabase, BoundsAssumption, <1>4, <2>1 DEF Acquire, EditorStep
  <2>2. CASE Acquired
    BY StartIsADatabase, BoundsAssumption, <1>4, <2>2 DEF Acquired, NoEditor, EditorStep
  <2>. QED BY <1>4, <2>1, <2>2 DEF EditorStep
<1>5. CASE SelectStep
  <2>0. PICK c \in selects : SelectBegins(c) \/ SelectBuilds(c) \/ UseDatabase(c)
                            \/ CommitPool(c) \/ CommitDefault(c)
    BY <1>5 DEF SelectStep
  <2>1. CASE SelectBegins(c)
    BY StartIsADatabase, BoundsAssumption, <1>5, <2>0, <2>1 DEF SelectBegins, SelectGoes, SelectStep
  <2>2. CASE SelectBuilds(c)
    BY StartIsADatabase, BoundsAssumption, <1>5, <2>0, <2>2 DEF SelectBuilds, SelectGoes, SelectStep
  <2>3. CASE UseDatabase(c)
    BY StartIsADatabase, BoundsAssumption, <1>5, <2>0, <2>3, CallTyped DEF UseDatabase, SelectGoes,
       NoEditor, SelectStep
  <2>4. CASE CommitPool(c)
    BY StartIsADatabase, BoundsAssumption, <1>5, <2>0, <2>4, CallTyped DEF CommitPool, SelectGoes,
       replace_pool, SelectStep
  <2>5. CASE CommitDefault(c)
    BY StartIsADatabase, BoundsAssumption, <1>5, <2>0, <2>5, CallTyped DEF CommitDefault,
       SelectGoes, set_default_database, Met, SelectStep
  <2>. QED BY <1>5, <2>0, <2>1, <2>2, <2>3, <2>4, <2>5 DEF SelectStep
<1>6. CASE Reply
  <2>1. CASE \E c \in selects : SelectReply(c)
    <3>. PICK c \in selects : SelectReply(c)  BY <2>1
    <3>. QED BY StartIsADatabase, BoundsAssumption, <2>1, CallTyped DEF SelectReply
  <2>2. CASE Attach
    BY StartIsADatabase, BoundsAssumption, <2>2 DEF Attach, Unlisted
  <2>3. CASE HandleEvent
    <3>1. store' \in [attached : BOOLEAN, status : Statuses, database : Databases]
      BY StartIsADatabase, BoundsAssumption, <2>3, HeadTyped DEF HandleEvent
    <3>. QED BY <2>3, <3>1 DEF HandleEvent
  <2>4. CASE CloseReply
    BY StartIsADatabase, BoundsAssumption, <2>4 DEF CloseReply, Detached
  <2>. QED BY <1>6, <2>1, <2>2, <2>3, <2>4 DEF Reply
<1>7. CASE \E d \in Databases : SetActiveDatabase(d)
  <2>. PICK d \in Databases : SetActiveDatabase(d)  BY <1>7
  <2>. QED BY StartIsADatabase, BoundsAssumption, <1>7 DEF SetActiveDatabase, Met
<1>8. CASE CloseConnection
  BY StartIsADatabase, BoundsAssumption, <1>8 DEF CloseConnection
<1>9. CASE CloseBackend
  BY StartIsADatabase, BoundsAssumption, <1>9 DEF CloseBackend, NoEditor
<1>10. CASE Reload
  BY StartIsADatabase, BoundsAssumption, <1>10 DEF Reload, Detached, Unlisted
<1>11. CASE ListSessions
  BY StartIsADatabase, BoundsAssumption, <1>11 DEF ListSessions
<1>12. CASE UNCHANGED vars
  BY StartIsADatabase, BoundsAssumption, <1>12 DEF vars
<1>. QED BY <1>1, <1>2, <1>3, <1>4, <1>5, <1>6, <1>7, <1>8, <1>9, <1>10, <1>11,
    <1>12 DEF Next

(* A selection gets an identifier of its own and keeps it.                 *)
LEMMA SelectsStep ==
  ASSUME SelectsOK, StateOK, [Next]_vars
  PROVE  SelectsOK'
<1>. USE DEF backend, SelectsOK, frontend
<1>1. CASE GoesDown
  BY <1>1 DEF GoesDown, NoEditor
<1>2. CASE ComesBack
  BY <1>2 DEF ComesBack
<1>3. CASE MonitorStep
  <2>1. CASE MonitorStops
    BY <1>3, <2>1 DEF MonitorStops, MonitorGoes, MonitorStep
  <2>2. CASE PingFails
    BY <1>3, <2>2 DEF PingFails, MonitorGoes, MonitorStep
  <2>3. CASE TellLost
    BY <1>3, <2>3 DEF TellLost, MonitorGoes, update_and_emit, update_status, Emit, Met, Unheard,
       MonitorStep
  <2>4. CASE TellRetry
    BY <1>3, <2>4 DEF TellRetry, MonitorGoes, update_and_emit, update_status, Emit, Met, Unheard,
       MonitorStep
  <2>5. CASE Reconnect
    BY <1>3, <2>5 DEF Reconnect, MonitorStep
  <2>6. CASE ReconnectRefused
    BY <1>3, <2>6 DEF ReconnectRefused, MonitorGoes, update_and_emit, update_status, Emit, Met,
       Unheard, MonitorStep
  <2>7. CASE BuildFails
    BY <1>3, <2>7 DEF BuildFails, MonitorGoes, Emit, MonitorStep
  <2>8. CASE ReplacePool
    BY <1>3, <2>8 DEF ReplacePool, MonitorGoes, replace_pool, Met, MonitorStep
  <2>9. CASE TellConnected
    BY <1>3, <2>9 DEF TellConnected, MonitorGoes, update_and_emit, update_status, Emit, Met,
       Unheard, MonitorStep
  <2>. QED BY <1>3, <2>1, <2>2, <2>3, <2>4, <2>5, <2>6, <2>7, <2>8, <2>9 DEF MonitorStep
<1>4. CASE EditorStep
  <2>1. CASE Acquire
    BY <1>4, <2>1 DEF Acquire, EditorStep
  <2>2. CASE Acquired
    BY <1>4, <2>2 DEF Acquired, NoEditor, EditorStep
  <2>. QED BY <1>4, <2>1, <2>2 DEF EditorStep
<1>5. CASE SelectStep
  <2>0. PICK c \in selects : SelectBegins(c) \/ SelectBuilds(c) \/ UseDatabase(c)
                            \/ CommitPool(c) \/ CommitDefault(c)
    BY <1>5 DEF SelectStep
  <2>1. CASE SelectBegins(c)
    BY <1>5, <2>0, <2>1, SelectGoesOn DEF SelectBegins, SelectStep, Steps
  <2>2. CASE SelectBuilds(c)
    BY <1>5, <2>0, <2>2, SelectGoesOn DEF SelectBuilds, SelectStep, Steps
  <2>3. CASE UseDatabase(c)
    BY <1>5, <2>0, <2>3, SelectGoesOn DEF UseDatabase, SelectStep, Steps
  <2>4. CASE CommitPool(c)
    BY <1>5, <2>0, <2>4, SelectGoesOn DEF CommitPool, SelectStep, Steps
  <2>5. CASE CommitDefault(c)
    BY <1>5, <2>0, <2>5, SelectGoesOn DEF CommitDefault, SelectStep, Steps
  <2>. QED BY <1>5, <2>0, <2>1, <2>2, <2>3, <2>4, <2>5 DEF SelectStep
<1>6. CASE Reply
  <2>1. CASE \E c \in selects : SelectReply(c)
    <3>. PICK c \in selects : SelectReply(c)  BY <2>1
    <3>. QED BY <2>1 DEF SelectReply
  <2>2. CASE Attach
    BY <2>2 DEF Attach, Unlisted
  <2>3. CASE HandleEvent
    BY <2>3 DEF HandleEvent
  <2>4. CASE CloseReply
    BY <2>4 DEF CloseReply, Detached
  <2>. QED BY <1>6, <2>1, <2>2, <2>3, <2>4 DEF Reply
<1>7. CASE \E d \in Databases : SetActiveDatabase(d)
  <2>. PICK d \in Databases : SetActiveDatabase(d)  BY <1>7
  <2>. DEFINE n == [id |-> issued + 1, database |-> d, from |-> store.database,
                    step |-> "begin", heard |-> TRUE]
  <2>1. selects' = selects \cup {n} /\ issued' = issued + 1 /\ issued < MaxSelects
    BY DEF SetActiveDatabase
  <2>2. n \in Calls /\ n.id = issued + 1 /\ issued' \in 0 .. MaxSelects
    BY <2>1, BoundsAssumption DEF StateOK, Calls, Steps
  <2>3. selects' \subseteq Calls /\ \A c \in selects' : c.id <= issued'
    <3>1. selects' \subseteq Calls
      BY <2>1, <2>2
    <3>2. issued \in Nat /\ \A c \in selects : c.id \in Nat /\ c.id <= issued
      BY BoundsAssumption DEF Calls
    <3>. QED BY <2>1, <2>2, <3>1, <3>2
  <2>4. ASSUME NEW c1 \in selects', NEW c2 \in selects', c1.id = c2.id  PROVE c1 = c2
    <3>1. \A c \in selects : c.id # issued + 1
      BY <2>2, BoundsAssumption DEF Calls
    <3>. QED BY <2>1, <2>2, <2>4, <3>1
  <2>. QED BY <2>2, <2>3, <2>4
<1>8. CASE CloseConnection
  BY <1>8 DEF CloseConnection
<1>9. CASE CloseBackend
  BY <1>9 DEF CloseBackend, NoEditor
<1>10. CASE Reload
  <2>1. selects' = {[c EXCEPT !.heard = FALSE] : c \in selects} /\ issued' = issued
    BY <1>10 DEF Reload
  <2>2. \A c \in selects : /\ [c EXCEPT !.heard = FALSE] \in Calls
                          /\ [c EXCEPT !.heard = FALSE].id = c.id
    BY DEF Calls
  <2>3. selects' \subseteq Calls /\ \A c \in selects' : c.id <= issued'
    BY <2>1, <2>2
  <2>4. ASSUME NEW c1 \in selects', NEW c2 \in selects', c1.id = c2.id  PROVE c1 = c2
    <3>1. PICK b1 \in selects, b2 \in selects : /\ c1 = [b1 EXCEPT !.heard = FALSE]
                                              /\ c2 = [b2 EXCEPT !.heard = FALSE]
      BY <2>1
    <3>. QED BY <2>2, <2>4, <3>1
  <2>. QED BY <2>1, <2>3, <2>4
<1>11. CASE ListSessions
  BY <1>11 DEF ListSessions
<1>12. CASE UNCHANGED vars
  BY <1>12 DEF vars
<1>. QED BY <1>1, <1>2, <1>3, <1>4, <1>5, <1>6, <1>7, <1>8, <1>9, <1>10, <1>11,
    <1>12 DEF Next

(* Only statuses wait, and no more than the bound.                         *)
LEMMA EventsStep ==
  ASSUME EventsOK, StateOK, [Next]_vars
  PROVE  EventsOK'
<1>. USE DEF EventsOK, backend, frontend
<1>1. CASE GoesDown
  BY <1>1 DEF GoesDown, NoEditor
<1>2. CASE ComesBack
  BY <1>2 DEF ComesBack
<1>3. CASE MonitorStep
  <2>1. CASE MonitorStops
    BY <1>3, <2>1 DEF MonitorStops, MonitorGoes, MonitorStep
  <2>2. CASE PingFails
    BY <1>3, <2>2 DEF PingFails, MonitorGoes, MonitorStep
  <2>3. CASE TellLost
    BY <1>3, <2>3, EmitAppends DEF TellLost, update_and_emit, MonitorStep, Statuses
  <2>4. CASE TellRetry
    BY <1>3, <2>4, EmitAppends DEF TellRetry, update_and_emit, MonitorStep, Statuses
  <2>5. CASE Reconnect
    BY <1>3, <2>5 DEF Reconnect, MonitorStep
  <2>6. CASE ReconnectRefused
    BY <1>3, <2>6, EmitAppends DEF ReconnectRefused, update_and_emit, MonitorStep, Statuses
  <2>7. CASE BuildFails
    BY <1>3, <2>7, EmitAppends DEF BuildFails, MonitorStep, Statuses
  <2>8. CASE ReplacePool
    BY <1>3, <2>8 DEF ReplacePool, MonitorGoes, replace_pool, Met, MonitorStep
  <2>9. CASE TellConnected
    BY <1>3, <2>9, EmitAppends DEF TellConnected, update_and_emit, MonitorStep, Statuses
  <2>. QED BY <1>3, <2>1, <2>2, <2>3, <2>4, <2>5, <2>6, <2>7, <2>8, <2>9 DEF MonitorStep
<1>4. CASE EditorStep
  <2>1. CASE Acquire
    BY <1>4, <2>1 DEF Acquire, EditorStep
  <2>2. CASE Acquired
    BY <1>4, <2>2 DEF Acquired, NoEditor, EditorStep
  <2>. QED BY <1>4, <2>1, <2>2 DEF EditorStep
<1>5. CASE SelectStep
  <2>0. PICK c \in selects : SelectBegins(c) \/ SelectBuilds(c) \/ UseDatabase(c)
                            \/ CommitPool(c) \/ CommitDefault(c)
    BY <1>5 DEF SelectStep
  <2>1. CASE SelectBegins(c)
    BY <1>5, <2>0, <2>1 DEF SelectBegins, SelectGoes, SelectStep
  <2>2. CASE SelectBuilds(c)
    BY <1>5, <2>0, <2>2 DEF SelectBuilds, SelectGoes, SelectStep
  <2>3. CASE UseDatabase(c)
    BY <1>5, <2>0, <2>3 DEF UseDatabase, SelectGoes, NoEditor, SelectStep
  <2>4. CASE CommitPool(c)
    BY <1>5, <2>0, <2>4 DEF CommitPool, SelectGoes, replace_pool, SelectStep
  <2>5. CASE CommitDefault(c)
    BY <1>5, <2>0, <2>5 DEF CommitDefault, SelectGoes, set_default_database, Met, SelectStep
  <2>. QED BY <1>5, <2>0, <2>1, <2>2, <2>3, <2>4, <2>5 DEF SelectStep
<1>6. CASE Reply
  <2>1. CASE \E c \in selects : SelectReply(c)
    <3>. PICK c \in selects : SelectReply(c)  BY <2>1
    <3>. QED BY <2>1 DEF SelectReply
  <2>2. CASE Attach
    BY <2>2 DEF Attach, Unlisted
  <2>3. CASE HandleEvent
    BY <2>3, TailOfEvents DEF HandleEvent
  <2>4. CASE CloseReply
    BY <2>4 DEF CloseReply, Detached
  <2>. QED BY <1>6, <2>1, <2>2, <2>3, <2>4 DEF Reply
<1>7. CASE \E d \in Databases : SetActiveDatabase(d)
  <2>. PICK d \in Databases : SetActiveDatabase(d)  BY <1>7
  <2>. QED BY <1>7 DEF SetActiveDatabase, Met
<1>8. CASE CloseConnection
  BY <1>8 DEF CloseConnection
<1>9. CASE CloseBackend
  BY <1>9 DEF CloseBackend, NoEditor
<1>10. CASE Reload
  BY <1>10, BoundsAssumption DEF Reload, Detached, Unlisted
<1>11. CASE ListSessions
  BY <1>11 DEF ListSessions
<1>12. CASE UNCHANGED vars
  BY <1>12 DEF vars
<1>. QED BY <1>1, <1>2, <1>3, <1>4, <1>5, <1>6, <1>7, <1>8, <1>9, <1>10, <1>11,
    <1>12 DEF Next

(* Every step keeps the types.                                             *)
LEMMA TypeStep ==
  ASSUME TypeOK, IdsInv, [Next]_vars
  PROVE  TypeOK' /\ IdsInv'
<1>1. StateOK /\ SelectsOK /\ EventsOK
  BY DEF TypeOK, IdsInv, StateOK, SelectsOK, EventsOK, Calls
<1>2. StateOK' /\ SelectsOK' /\ EventsOK'
  BY <1>1, StateStep, SelectsStep, EventsStep
<1>. QED BY <1>2 DEF TypeOK, IdsInv, StateOK, SelectsOK, EventsOK, Calls

(* The monitor leaves the reconnecting status only by connecting, or by    *)
(* giving up.                                                              *)
LEMMA MonitorStepInv ==
  ASSUME TypeOK, MonitorInv, [Next]_vars
  PROVE  MonitorInv'
<1>. USE DEF MonitorInv, backend, TypeOK, frontend
<1>1. CASE GoesDown
  BY <1>1 DEF GoesDown, NoEditor
<1>2. CASE ComesBack
  BY <1>2 DEF ComesBack
<1>3. CASE MonitorStep
  <2>1. CASE MonitorStops
    BY <1>3, <2>1 DEF MonitorStops, MonitorGoes, MonitorStep
  <2>2. CASE PingFails
    BY <1>3, <2>2 DEF PingFails, MonitorGoes, MonitorStep
  <2>3. CASE TellLost
    BY <1>3, <2>3 DEF TellLost, MonitorGoes, update_and_emit, update_status, Emit, Met, Unheard,
       MonitorStep
  <2>4. CASE TellRetry
    BY <1>3, <2>4 DEF TellRetry, MonitorGoes, update_and_emit, update_status, Emit, Met, Unheard,
       MonitorStep
  <2>5. CASE Reconnect
    BY <1>3, <2>5 DEF Reconnect, MonitorStep
  <2>6. CASE ReconnectRefused
    BY <1>3, <2>6 DEF ReconnectRefused, MonitorGoes, update_and_emit, update_status, Emit, Met,
       Unheard, MonitorStep
  <2>7. CASE BuildFails
    BY <1>3, <2>7 DEF BuildFails, MonitorGoes, Emit, MonitorStep
  <2>8. CASE ReplacePool
    BY <1>3, <2>8 DEF ReplacePool, MonitorGoes, replace_pool, Met, MonitorStep
  <2>9. CASE TellConnected
    BY <1>3, <2>9 DEF TellConnected, MonitorGoes, update_and_emit, update_status, Emit, Met,
       Unheard, MonitorStep
  <2>. QED BY <1>3, <2>1, <2>2, <2>3, <2>4, <2>5, <2>6, <2>7, <2>8, <2>9 DEF MonitorStep
<1>4. CASE EditorStep
  <2>1. CASE Acquire
    BY <1>4, <2>1 DEF Acquire, EditorStep
  <2>2. CASE Acquired
    BY <1>4, <2>2 DEF Acquired, NoEditor, EditorStep
  <2>. QED BY <1>4, <2>1, <2>2 DEF EditorStep
<1>5. CASE SelectStep
  <2>0. PICK c \in selects : SelectBegins(c) \/ SelectBuilds(c) \/ UseDatabase(c)
                            \/ CommitPool(c) \/ CommitDefault(c)
    BY <1>5 DEF SelectStep
  <2>1. CASE SelectBegins(c)
    BY <1>5, <2>0, <2>1 DEF SelectBegins, SelectGoes, SelectStep
  <2>2. CASE SelectBuilds(c)
    BY <1>5, <2>0, <2>2 DEF SelectBuilds, SelectGoes, SelectStep
  <2>3. CASE UseDatabase(c)
    BY <1>5, <2>0, <2>3 DEF UseDatabase, SelectGoes, NoEditor, SelectStep
  <2>4. CASE CommitPool(c)
    BY <1>5, <2>0, <2>4 DEF CommitPool, SelectGoes, replace_pool, SelectStep
  <2>5. CASE CommitDefault(c)
    BY <1>5, <2>0, <2>5 DEF CommitDefault, SelectGoes, set_default_database, Met, SelectStep
  <2>. QED BY <1>5, <2>0, <2>1, <2>2, <2>3, <2>4, <2>5 DEF SelectStep
<1>6. CASE Reply
  <2>1. CASE \E c \in selects : SelectReply(c)
    <3>. PICK c \in selects : SelectReply(c)  BY <2>1
    <3>. QED BY <2>1 DEF SelectReply
  <2>2. CASE Attach
    BY <2>2 DEF Attach, Unlisted
  <2>3. CASE HandleEvent
    BY <2>3 DEF HandleEvent
  <2>4. CASE CloseReply
    BY <2>4 DEF CloseReply, Detached
  <2>. QED BY <1>6, <2>1, <2>2, <2>3, <2>4 DEF Reply
<1>7. CASE \E d \in Databases : SetActiveDatabase(d)
  <2>. PICK d \in Databases : SetActiveDatabase(d)  BY <1>7
  <2>. QED BY <1>7 DEF SetActiveDatabase, Met
<1>8. CASE CloseConnection
  BY <1>8 DEF CloseConnection
<1>9. CASE CloseBackend
  BY <1>9 DEF CloseBackend, NoEditor
<1>10. CASE Reload
  BY <1>10 DEF Reload, Detached, Unlisted
<1>11. CASE ListSessions
  BY <1>11 DEF ListSessions
<1>12. CASE UNCHANGED vars
  BY <1>12 DEF vars
<1>. QED BY <1>1, <1>2, <1>3, <1>4, <1>5, <1>6, <1>7, <1>8, <1>9, <1>10, <1>11,
    <1>12 DEF Next

(* A session is attached once, and detached by a close or a restart.       *)
LEMMA AttachedStep ==
  ASSUME TypeOK, AttachedInv, [Next]_vars
  PROVE  AttachedInv'
<1>. USE DEF backend, TypeOK, AttachedInv, frontend
<1>1. CASE GoesDown
  BY <1>1 DEF GoesDown, NoEditor
<1>2. CASE ComesBack
  BY <1>2 DEF ComesBack
<1>3. CASE MonitorStep
  <2>1. CASE MonitorStops
    BY <1>3, <2>1 DEF MonitorStops, MonitorGoes, MonitorStep
  <2>2. CASE PingFails
    BY <1>3, <2>2 DEF PingFails, MonitorGoes, MonitorStep
  <2>3. CASE TellLost
    BY <1>3, <2>3 DEF TellLost, MonitorGoes, update_and_emit, update_status, Emit, Met, Unheard,
       MonitorStep
  <2>4. CASE TellRetry
    BY <1>3, <2>4 DEF TellRetry, MonitorGoes, update_and_emit, update_status, Emit, Met, Unheard,
       MonitorStep
  <2>5. CASE Reconnect
    BY <1>3, <2>5 DEF Reconnect, MonitorStep
  <2>6. CASE ReconnectRefused
    BY <1>3, <2>6 DEF ReconnectRefused, MonitorGoes, update_and_emit, update_status, Emit, Met,
       Unheard, MonitorStep
  <2>7. CASE BuildFails
    BY <1>3, <2>7 DEF BuildFails, MonitorGoes, Emit, MonitorStep
  <2>8. CASE ReplacePool
    BY <1>3, <2>8 DEF ReplacePool, MonitorGoes, replace_pool, Met, MonitorStep
  <2>9. CASE TellConnected
    BY <1>3, <2>9 DEF TellConnected, MonitorGoes, update_and_emit, update_status, Emit, Met,
       Unheard, MonitorStep
  <2>. QED BY <1>3, <2>1, <2>2, <2>3, <2>4, <2>5, <2>6, <2>7, <2>8, <2>9 DEF MonitorStep
<1>4. CASE EditorStep
  <2>1. CASE Acquire
    BY <1>4, <2>1 DEF Acquire, EditorStep
  <2>2. CASE Acquired
    BY <1>4, <2>2 DEF Acquired, NoEditor, EditorStep
  <2>. QED BY <1>4, <2>1, <2>2 DEF EditorStep
<1>5. CASE SelectStep
  <2>0. PICK c \in selects : SelectBegins(c) \/ SelectBuilds(c) \/ UseDatabase(c)
                            \/ CommitPool(c) \/ CommitDefault(c)
    BY <1>5 DEF SelectStep
  <2>1. CASE SelectBegins(c)
    BY <1>5, <2>0, <2>1 DEF SelectBegins, SelectGoes, SelectStep
  <2>2. CASE SelectBuilds(c)
    BY <1>5, <2>0, <2>2 DEF SelectBuilds, SelectGoes, SelectStep
  <2>3. CASE UseDatabase(c)
    BY <1>5, <2>0, <2>3 DEF UseDatabase, SelectGoes, NoEditor, SelectStep
  <2>4. CASE CommitPool(c)
    BY <1>5, <2>0, <2>4 DEF CommitPool, SelectGoes, replace_pool, SelectStep
  <2>5. CASE CommitDefault(c)
    BY <1>5, <2>0, <2>5 DEF CommitDefault, SelectGoes, set_default_database, Met, SelectStep
  <2>. QED BY <1>5, <2>0, <2>1, <2>2, <2>3, <2>4, <2>5 DEF SelectStep
<1>6. CASE Reply
  <2>1. CASE \E c \in selects : SelectReply(c)
    <3>. PICK c \in selects : SelectReply(c)  BY <2>1
    <3>. QED BY <2>1 DEF SelectReply
  <2>2. CASE Attach
    BY <2>2 DEF Attach, Unlisted
  <2>3. CASE HandleEvent
    BY <2>3 DEF HandleEvent
  <2>4. CASE CloseReply
    BY <2>4 DEF CloseReply, Detached
  <2>. QED BY <1>6, <2>1, <2>2, <2>3, <2>4 DEF Reply
<1>7. CASE \E d \in Databases : SetActiveDatabase(d)
  <2>. PICK d \in Databases : SetActiveDatabase(d)  BY <1>7
  <2>. QED BY <1>7 DEF SetActiveDatabase, Met
<1>8. CASE CloseConnection
  BY <1>8 DEF CloseConnection
<1>9. CASE CloseBackend
  BY <1>9 DEF CloseBackend, NoEditor
<1>10. CASE Reload
  BY <1>10 DEF Reload, Detached, Unlisted
<1>11. CASE ListSessions
  BY <1>11 DEF ListSessions
<1>12. CASE UNCHANGED vars
  BY <1>12 DEF vars
<1>. QED BY <1>1, <1>2, <1>3, <1>4, <1>5, <1>6, <1>7, <1>8, <1>9, <1>10, <1>11,
    <1>12 DEF Next

(* Every change of the status is the last event that waits, or somebody    *)
(* was not told.                                                           *)
LEMMA StatusStep ==
  ASSUME StateOK, EventsOK, MonitorInv, AttachedInv, StatusInv, [Next]_vars
  PROVE  StatusInv'
<1>. USE DEF StatusInv, StateOK, MonitorInv, backend, AttachedInv, frontend
<1>1. CASE GoesDown
  BY <1>1 DEF GoesDown, NoEditor
<1>2. CASE ComesBack
  BY <1>2 DEF ComesBack
<1>3. CASE MonitorStep
  <2>1. CASE MonitorStops
    BY <1>3, <2>1 DEF MonitorStops, MonitorGoes, MonitorStep
  <2>2. CASE PingFails
    BY <1>3, <2>2 DEF PingFails, MonitorGoes, MonitorStep
  <2>3. CASE TellLost
    BY <1>3, <2>3, EmitAppends DEF TellLost, MonitorGoes, update_and_emit, update_status, Met,
       Unheard, MonitorStep, Statuses
  <2>4. CASE TellRetry
    BY <1>3, <2>4, EmitAppends DEF TellRetry, MonitorGoes, update_and_emit, update_status, Met,
       Unheard, MonitorStep, Statuses
  <2>5. CASE Reconnect
    BY <1>3, <2>5 DEF Reconnect, MonitorStep
  <2>6. CASE ReconnectRefused
    BY <1>3, <2>6, EmitAppends DEF ReconnectRefused, MonitorGoes, update_and_emit, update_status,
       Met, Unheard, MonitorStep, Statuses
  <2>7. CASE BuildFails
    BY <1>3, <2>7, EmitAppends DEF BuildFails, MonitorGoes, MonitorStep, Statuses
  <2>8. CASE ReplacePool
    BY <1>3, <2>8 DEF ReplacePool, MonitorGoes, replace_pool, Met, MonitorStep
  <2>9. CASE TellConnected
    BY <1>3, <2>9, EmitAppends DEF TellConnected, MonitorGoes, update_and_emit, update_status, Met,
       Unheard, MonitorStep, Statuses
  <2>. QED BY <1>3, <2>1, <2>2, <2>3, <2>4, <2>5, <2>6, <2>7, <2>8, <2>9 DEF MonitorStep
<1>4. CASE EditorStep
  <2>1. CASE Acquire
    BY <1>4, <2>1 DEF Acquire, EditorStep
  <2>2. CASE Acquired
    BY <1>4, <2>2 DEF Acquired, NoEditor, EditorStep
  <2>. QED BY <1>4, <2>1, <2>2 DEF EditorStep
<1>5. CASE SelectStep
  <2>0. PICK c \in selects : SelectBegins(c) \/ SelectBuilds(c) \/ UseDatabase(c)
                            \/ CommitPool(c) \/ CommitDefault(c)
    BY <1>5 DEF SelectStep
  <2>1. CASE SelectBegins(c)
    BY <1>5, <2>0, <2>1 DEF SelectBegins, SelectGoes, SelectStep
  <2>2. CASE SelectBuilds(c)
    BY <1>5, <2>0, <2>2 DEF SelectBuilds, SelectGoes, SelectStep
  <2>3. CASE UseDatabase(c)
    BY <1>5, <2>0, <2>3 DEF UseDatabase, SelectGoes, NoEditor, SelectStep
  <2>4. CASE CommitPool(c)
    BY <1>5, <2>0, <2>4 DEF CommitPool, SelectGoes, replace_pool, SelectStep
  <2>5. CASE CommitDefault(c)
    BY <1>5, <2>0, <2>5 DEF CommitDefault, SelectGoes, set_default_database, Met, SelectStep
  <2>. QED BY <1>5, <2>0, <2>1, <2>2, <2>3, <2>4, <2>5 DEF SelectStep
<1>6. CASE Reply
  <2>1. CASE \E c \in selects : SelectReply(c)
    <3>. PICK c \in selects : SelectReply(c)  BY <2>1
    <3>. QED BY <2>1 DEF SelectReply
  <2>2. CASE Attach
    BY <2>2 DEF Attach, Unlisted
  <2>3. CASE HandleEvent
    BY <2>3, TailOfEvents DEF HandleEvent
  <2>4. CASE CloseReply
    BY <2>4 DEF CloseReply, Detached
  <2>. QED BY <1>6, <2>1, <2>2, <2>3, <2>4 DEF Reply
<1>7. CASE \E d \in Databases : SetActiveDatabase(d)
  <2>. PICK d \in Databases : SetActiveDatabase(d)  BY <1>7
  <2>. QED BY <1>7 DEF SetActiveDatabase, Met
<1>8. CASE CloseConnection
  BY <1>8 DEF CloseConnection
<1>9. CASE CloseBackend
  BY <1>9 DEF CloseBackend, NoEditor
<1>10. CASE Reload
  BY <1>10 DEF Reload, Detached, Unlisted
<1>11. CASE ListSessions
  BY <1>11 DEF ListSessions
<1>12. CASE UNCHANGED vars
  BY <1>12 DEF vars
<1>. QED BY <1>1, <1>2, <1>3, <1>4, <1>5, <1>6, <1>7, <1>8, <1>9, <1>10, <1>11,
    <1>12 DEF Next

(* What the only call becomes when it goes on.                              *)
LEMMA SelectGoesAlone ==
  ASSUME SelectsOK, NEW c \in selects, NEW step \in Steps, SelectGoes(c, step),
         \A c1, c2 \in selects : c1 = c2
  PROVE  \E n \in Calls : /\ selects' = {n} /\ n.step = step
                          /\ n.database = c.database /\ n.from = c.from /\ n.heard = c.heard
<1>. DEFINE n == [c EXCEPT !.step = step]
<1>1. selects = {c}
  OBVIOUS
<1>2. selects' = {n}
  BY <1>1 DEF SelectGoes
<1>3. c \in Calls
  BY DEF SelectsOK
<1>4. /\ n \in Calls /\ n.step = step
      /\ n.database = c.database /\ n.from = c.from /\ n.heard = c.heard
  BY <1>3 DEF Calls
<1>. QED BY <1>2, <1>4

(* Each step of a selection finds the copies as the step before left them. *)
LEMMA DatabasesStep ==
  ASSUME StateOK, SelectsOK, AttachedInv, DatabasesInv, [Next]_vars
  PROVE  DatabasesInv'
<1>. USE DEF StateOK, DatabasesInv
<1>1. CASE GoesDown
  BY <1>1 DEF GoesDown, NoEditor, backend, frontend, SelectsOK, AttachedInv, Switched, Shown,
     EditorOn
<1>2. CASE ComesBack
  BY <1>2 DEF ComesBack, backend, frontend, SelectsOK, AttachedInv, Switched, Shown, EditorOn
<1>3. CASE MonitorStep
  <2>1. CASE MonitorStops
    BY <1>3, <2>1 DEF MonitorStops, MonitorGoes, MonitorStep, backend, frontend, SelectsOK,
       AttachedInv, Switched, Shown, EditorOn
  <2>2. CASE PingFails
    BY <1>3, <2>2 DEF PingFails, MonitorGoes, MonitorStep, backend, frontend, SelectsOK,
       AttachedInv, Switched, Shown, EditorOn
  <2>3. CASE TellLost
    BY <1>3, <2>3 DEF TellLost, MonitorGoes, update_and_emit, update_status, Emit, Met, Unheard,
       MonitorStep, backend, frontend, SelectsOK, AttachedInv, Switched, Shown, EditorOn
  <2>4. CASE TellRetry
    BY <1>3, <2>4 DEF TellRetry, MonitorGoes, update_and_emit, update_status, Emit, Met, Unheard,
       MonitorStep, backend, frontend, SelectsOK, AttachedInv, Switched, Shown, EditorOn
  <2>5. CASE Reconnect
    BY <1>3, <2>5 DEF Reconnect, MonitorStep, backend, frontend, SelectsOK, AttachedInv, Switched,
       Shown, EditorOn
  <2>6. CASE ReconnectRefused
    BY <1>3, <2>6 DEF ReconnectRefused, MonitorGoes, update_and_emit, update_status, Emit, Met,
       Unheard, MonitorStep, backend, frontend, SelectsOK, AttachedInv, Switched, Shown, EditorOn
  <2>7. CASE BuildFails
    BY <1>3, <2>7 DEF BuildFails, MonitorGoes, Emit, MonitorStep, backend, frontend, SelectsOK,
       AttachedInv, Switched, Shown, EditorOn
  <2>8. CASE ReplacePool
    BY <1>3, <2>8 DEF ReplacePool, MonitorGoes, replace_pool, Met, MonitorStep, backend, frontend,
       SelectsOK, AttachedInv, Switched, Shown, EditorOn
  <2>9. CASE TellConnected
    BY <1>3, <2>9 DEF TellConnected, MonitorGoes, update_and_emit, update_status, Emit, Met,
       Unheard, MonitorStep, backend, frontend, SelectsOK, AttachedInv, Switched, Shown, EditorOn
  <2>. QED BY <1>3, <2>1, <2>2, <2>3, <2>4, <2>5, <2>6, <2>7, <2>8, <2>9 DEF MonitorStep
<1>4. CASE EditorStep
  <2>1. CASE Acquire
    BY <1>4, <2>1 DEF Acquire, EditorStep, backend, frontend, SelectsOK, AttachedInv, Switched,
       Shown, EditorOn
  <2>2. CASE Acquired
    BY <1>4, <2>2 DEF Acquired, NoEditor, EditorStep, backend, frontend, SelectsOK, AttachedInv,
       Switched, Shown, EditorOn
  <2>. QED BY <1>4, <2>1, <2>2 DEF EditorStep
<1>5. CASE SelectStep
  <2>0. PICK c \in selects : SelectBegins(c) \/ SelectBuilds(c) \/ UseDatabase(c)
                            \/ CommitPool(c) \/ CommitDefault(c)
    BY <1>5 DEF SelectStep
  <2>1. CASE SelectBegins(c)
    <3>. SUFFICES ASSUME entry'.open, gaps' \subseteq {"password"}  PROVE DatabasesInv'
      OBVIOUS
    <3>1. entry.open /\ gaps \subseteq {"password"} /\ c.step = "begin"
      BY <1>5, <2>0, <2>1 DEF SelectBegins, SelectStep
    <3>2. /\ \A c1, c2 \in selects : c1 = c2
          /\ Switched(c) /\ Shown(c)
          /\ listed.on => listed.database = entry.default
      BY <3>1, <2>0
    <3>3. PICK step \in Steps :
           /\ SelectGoes(c, step)
           /\ step \in {"building", "failed"} /\ UNCHANGED <<entry, editor>>
      BY <1>5, <2>0, <2>1, <3>1 DEF SelectBegins, Steps, EditorOn
    <3>4. PICK n \in Calls : /\ selects' = {n} /\ n.step = step
                             /\ n.database = c.database /\ n.from = c.from /\ n.heard = c.heard
      BY <2>0, <3>2, <3>3, SelectGoesAlone
    <3>5. Switched(n)'
      BY <3>1, <3>2, <3>3, <3>4 DEF Switched, EditorOn
    <3>6. UNCHANGED <<store, listed>> /\ Shown(n)'
      BY <1>5, <3>1, <3>2, <3>3, <3>4 DEF SelectStep, frontend, Shown
    <3>. QED BY <3>1, <3>2, <3>3, <3>4, <3>5, <3>6 DEF AttachedInv, Shown
  <2>2. CASE SelectBuilds(c)
    <3>. SUFFICES ASSUME entry'.open, gaps' \subseteq {"password"}  PROVE DatabasesInv'
      OBVIOUS
    <3>1. entry.open /\ gaps \subseteq {"password"} /\ c.step = "building"
      BY <1>5, <2>0, <2>2 DEF SelectBuilds, SelectStep
    <3>2. /\ \A c1, c2 \in selects : c1 = c2
          /\ Switched(c) /\ Shown(c)
          /\ listed.on => listed.database = entry.default
      BY <3>1, <2>0
    <3>3. PICK step \in Steps :
           /\ SelectGoes(c, step)
           /\ step \in {"use", "failed"} /\ UNCHANGED <<entry, editor>>
      BY <1>5, <2>0, <2>2, <3>1 DEF SelectBuilds, Steps, EditorOn
    <3>4. PICK n \in Calls : /\ selects' = {n} /\ n.step = step
                             /\ n.database = c.database /\ n.from = c.from /\ n.heard = c.heard
      BY <2>0, <3>2, <3>3, SelectGoesAlone
    <3>5. Switched(n)'
      BY <3>1, <3>2, <3>3, <3>4 DEF Switched, EditorOn
    <3>6. UNCHANGED <<store, listed>> /\ Shown(n)'
      BY <1>5, <3>1, <3>2, <3>3, <3>4 DEF SelectStep, frontend, Shown
    <3>. QED BY <3>1, <3>2, <3>3, <3>4, <3>5, <3>6 DEF AttachedInv, Shown
  <2>3. CASE UseDatabase(c)
    <3>. SUFFICES ASSUME entry'.open, gaps' \subseteq {"password"}  PROVE DatabasesInv'
      OBVIOUS
    <3>1. entry.open /\ gaps \subseteq {"password"} /\ c.step = "use"
      BY <1>5, <2>0, <2>3 DEF UseDatabase, NoEditor, SelectStep
    <3>2. /\ \A c1, c2 \in selects : c1 = c2
          /\ Switched(c) /\ Shown(c)
          /\ listed.on => listed.database = entry.default
      BY <3>1, <2>0
    <3>3. PICK step \in Steps :
           /\ SelectGoes(c, step)
           /\ UNCHANGED entry
           /\ \/ step = "failed" /\ UNCHANGED editor
              \/ step = "pool" /\ EditorOn({c.database})'
      BY <1>5, <2>0, <2>3, <3>1 DEF UseDatabase, NoEditor, Steps, EditorOn
    <3>4. PICK n \in Calls : /\ selects' = {n} /\ n.step = step
                             /\ n.database = c.database /\ n.from = c.from /\ n.heard = c.heard
      BY <2>0, <3>2, <3>3, SelectGoesAlone
    <3>5. Switched(n)'
      BY <3>1, <3>2, <3>3, <3>4 DEF Switched, EditorOn
    <3>6. UNCHANGED <<store, listed>> /\ Shown(n)'
      BY <1>5, <3>1, <3>2, <3>3, <3>4 DEF SelectStep, frontend, Shown
    <3>. QED BY <3>1, <3>2, <3>3, <3>4, <3>5, <3>6 DEF AttachedInv, Shown
  <2>4. CASE CommitPool(c)
    <3>. SUFFICES ASSUME entry'.open, gaps' \subseteq {"password"}  PROVE DatabasesInv'
      OBVIOUS
    <3>1. entry.open /\ gaps \subseteq {"password"} /\ c.step = "pool"
      BY <1>5, <2>0, <2>4 DEF CommitPool, replace_pool, SelectStep
    <3>2. /\ \A c1, c2 \in selects : c1 = c2
          /\ Switched(c) /\ Shown(c)
          /\ listed.on => listed.database = entry.default
      BY <3>1, <2>0
    <3>3. PICK step \in Steps :
           /\ SelectGoes(c, step)
           /\ step = "default" /\ UNCHANGED editor
           /\ entry' = [entry EXCEPT !.pool = c.database]
      BY <1>5, <2>0, <2>4, <3>1 DEF CommitPool, replace_pool, Steps, EditorOn
    <3>4. PICK n \in Calls : /\ selects' = {n} /\ n.step = step
                             /\ n.database = c.database /\ n.from = c.from /\ n.heard = c.heard
      BY <2>0, <3>2, <3>3, SelectGoesAlone
    <3>5. Switched(n)'
      BY <3>1, <3>2, <3>3, <3>4 DEF Switched, EditorOn
    <3>6. UNCHANGED <<store, listed>> /\ Shown(n)'
      BY <1>5, <3>1, <3>2, <3>3, <3>4 DEF SelectStep, frontend, Shown
    <3>. QED BY <3>1, <3>2, <3>3, <3>4, <3>5, <3>6 DEF AttachedInv, Shown
  <2>5. CASE CommitDefault(c)
    <3>. SUFFICES ASSUME entry'.open, gaps' \subseteq {"password"}  PROVE DatabasesInv'
      OBVIOUS
    <3>1. entry.open /\ gaps \subseteq {"password"} /\ c.step = "default"
      BY <1>5, <2>0, <2>5 DEF CommitDefault, set_default_database, Met, SelectStep
    <3>2. /\ \A c1, c2 \in selects : c1 = c2
          /\ Switched(c) /\ Shown(c)
          /\ listed.on => listed.database = entry.default
      BY <3>1, <2>0
    <3>3. PICK step \in Steps :
           /\ SelectGoes(c, step)
           /\ step = "done" /\ UNCHANGED editor /\ c.heard
           /\ EditorOn({c.database})
           /\ entry' = [entry EXCEPT !.default = c.database]
      BY <1>5, <2>0, <2>5, <3>1 DEF CommitDefault, set_default_database, Met, Steps, EditorOn
    <3>4. PICK n \in Calls : /\ selects' = {n} /\ n.step = step
                             /\ n.database = c.database /\ n.from = c.from /\ n.heard = c.heard
      <4>1. \A c1, c2 \in selects : c1 = c2
        BY <3>2
      <4>2. SelectGoes(c, step)
        BY <3>3
      <4>. QED BY <2>0, <4>1, <4>2, SelectGoesAlone
    <3>5. Switched(n)'
      BY <3>1, <3>2, <3>3, <3>4 DEF Switched, EditorOn
    <3>6. UNCHANGED <<store, listed>> /\ Shown(n)'
      BY <1>5, <3>1, <3>2, <3>3, <3>4 DEF SelectStep, frontend, Shown
    <3>. QED BY <3>1, <3>2, <3>3, <3>4, <3>5, <3>6 DEF AttachedInv, Shown
  <2>. QED BY <1>5, <2>0, <2>1, <2>2, <2>3, <2>4, <2>5 DEF SelectStep
<1>6. CASE Reply
  <2>1. CASE \E c \in selects : SelectReply(c)
    <3>. PICK c \in selects : SelectReply(c)  BY <2>1
    <3>. QED BY <2>1 DEF SelectReply, backend, frontend, SelectsOK, AttachedInv, Switched, Shown,
       EditorOn
  <2>2. CASE Attach
    BY <2>2 DEF Attach, Unlisted, backend, frontend, SelectsOK, AttachedInv, Switched, Shown,
       EditorOn
  <2>3. CASE HandleEvent
    BY <2>3 DEF HandleEvent, backend, frontend, SelectsOK, AttachedInv, Switched, Shown, EditorOn
  <2>4. CASE CloseReply
    BY <2>4 DEF CloseReply, Detached, backend, frontend, SelectsOK, AttachedInv, Switched, Shown,
       EditorOn
  <2>. QED BY <1>6, <2>1, <2>2, <2>3, <2>4 DEF Reply
<1>7. CASE \E d \in Databases : SetActiveDatabase(d)
  <2>. PICK d \in Databases : SetActiveDatabase(d)  BY <1>7
  <2>. SUFFICES ASSUME entry'.open, gaps' \subseteq {"password"}  PROVE DatabasesInv'
    OBVIOUS
  <2>1. selects = {} /\ entry.open /\ gaps \subseteq {"password"} /\ store.attached
    BY DEF SetActiveDatabase, Met, backend
  <2>2. PICK n : n = [id |-> issued + 1, database |-> d, from |-> store.database,
                      step |-> "begin", heard |-> TRUE]
    OBVIOUS
  <2>3. UNCHANGED <<entry, editor, listed>> /\ store'.attached /\ store'.database = d
    BY <2>1 DEF SetActiveDatabase, backend
  <2>4. /\ entry.pool = entry.default /\ EditorOn({entry.default})
        /\ store.database = entry.default /\ ~listed.on
    BY <2>1 DEF AttachedInv
  <2>5. /\ n.step = "begin" /\ n.heard /\ n.database = d /\ n.from = store.database
        /\ selects' = {n}
    BY <2>1, <2>2 DEF SetActiveDatabase
  <2>6. Switched(n)' /\ Shown(n)'
    BY <2>3, <2>4, <2>5 DEF Switched, Shown, EditorOn
  <2>. QED BY <2>3, <2>4, <2>5, <2>6
<1>8. CASE CloseConnection
  BY <1>8 DEF CloseConnection, backend, frontend, SelectsOK, AttachedInv, Switched, Shown, EditorOn
<1>9. CASE CloseBackend
  BY <1>9 DEF CloseBackend, NoEditor, backend, frontend, SelectsOK, AttachedInv, Switched, Shown,
     EditorOn
<1>10. CASE Reload
  <2>. SUFFICES ASSUME entry'.open, gaps' \subseteq {"password"}  PROVE DatabasesInv'
    OBVIOUS
  <2>1. /\ entry.open /\ gaps \subseteq {"password"} /\ UNCHANGED <<entry, editor>>
        /\ ~store'.attached /\ ~listed'.on
        /\ selects' = {[c EXCEPT !.heard = FALSE] : c \in selects}
    BY <1>10 DEF Reload, backend, Detached, Unlisted
  <2>2. \A c \in selects : LET n == [c EXCEPT !.heard = FALSE]
                          IN  ~n.heard /\ n.step = c.step /\ n.database = c.database
    BY DEF SelectsOK, Calls
  <2>3. ASSUME NEW n \in selects'  PROVE Switched(n)' /\ Shown(n)'
    <3>1. PICK c \in selects : n = [c EXCEPT !.heard = FALSE]
      BY <2>1
    <3>2. ~n.heard /\ n.step = c.step /\ n.database = c.database
      BY <2>2, <3>1
    <3>3. Switched(c)
      BY <2>1
    <3>. QED BY <2>1, <3>2, <3>3 DEF Switched, Shown, EditorOn
  <2>4. \A c1, c2 \in selects' : c1 = c2
    BY <2>1
  <2>. HIDE DEF StateOK
  <2>. QED BY <2>1, <2>3, <2>4 DEF EditorOn
<1>11. CASE ListSessions
  BY <1>11 DEF ListSessions, backend, frontend, SelectsOK, AttachedInv, Switched, Shown, EditorOn
<1>12. CASE UNCHANGED vars
  BY <1>12 DEF vars, backend, frontend, SelectsOK, AttachedInv, Switched, Shown, EditorOn
<1>. QED BY <1>1, <1>2, <1>3, <1>4, <1>5, <1>6, <1>7, <1>8, <1>9, <1>10, <1>11,
    <1>12 DEF Next

(* The invariant the properties follow from.                               *)
THEOREM InductiveInvariant == Spec => []IInv
<1>1. Init => IInv
  BY Initially
<1>2. IInv /\ [Next]_vars => IInv'
  <2>. SUFFICES ASSUME IInv, [Next]_vars  PROVE IInv'
    OBVIOUS
  <2>1. StateOK /\ SelectsOK /\ EventsOK
    BY DEF IInv, TypeOK, IdsInv, StateOK, SelectsOK, EventsOK
  <2>. QED BY <2>1, TypeStep, MonitorStepInv, AttachedStep, StatusStep, DatabasesStep DEF IInv
<1>. QED BY <1>1, <1>2, PTL DEF Spec

(* Every variable keeps its type, whatever the server, the monitor, the    *)
(* user and the front end do (registry.rs, health.rs, connection-store.ts).*)
THEOREM TypeCorrect == Spec => []TypeOK
<1>1. IInv => TypeOK
  BY DEF IInv
<1>. QED BY InductiveInvariant, <1>1, PTL

(* Once no selection is in flight the pool, the editor session, the        *)
(* default database and the front end are on one database                  *)
(* (select_database_impl, session::use_database, setActiveDatabase).       *)
THEOREM DatabasesAgreeAlways == Spec => []DatabasesAgree
<1>1. IInv => DatabasesAgree
  BY DEF IInv, DatabasesInv, DatabasesAgree, EditorOn
<1>. QED BY InductiveInvariant, <1>1, PTL

(* The front end shows the registry's status once it has handled the       *)
(* events, and a closed connection stays away (updateConnectionStatus,     *)
(* update_and_emit, closeConnection).                                      *)
THEOREM FrontEndFollowsAlways == Spec => []FrontEndFollows
<1>1. IInv => FrontEndFollows
  BY DEF IInv, StatusInv, AttachedInv, FrontEndFollows, StatusShown, ClosedIsForgotten
<1>. QED BY InductiveInvariant, <1>1, PTL

----------
(***************************************************************************)
(* Proofs about Workspace, for any connections, names, number of tabs and  *)
(* limit: the marks are right, no tab is lost, doubled or orphaned, a      *)
(* moved tab lands where it was dropped, and the limit closes no unsaved   *)
(* tab. A close of some tabs is a Pruned workspace whatever the tabs, each *)
(* helper keeps the marks if they were right (Marks), Gap names the three  *)
(* steps that do not, and every step is Sparing: what it closes or forgets *)
(* it may.                                                                 *)
(***************************************************************************)

(* The parts of the inductive invariant, of a workspace v.                 *)

Increasing(s) == \A i, j \in DOMAIN s : i < j => s[i] < s[j]

(* Tabs are of one connection, in the order they were opened, and each was *)
(* last used at a time of its own.                                         *)
OrderInv(v) ==
  /\ \A c \in Conns : Increasing(v.tabs[c]) /\ \A t \in ToSet(v.tabs[c]) : t < v.next
  /\ \A c, d \in Conns : \A t \in ToSet(v.tabs[c]) : t \in ToSet(v.tabs[d]) => c = d
  /\ IsInjective(v.used)

Scoped(v, c, t) ==
  /\ v.info[t].type = "table" /\ v.info[t].parent \in ToSet(v.tabs[c])
  /\ v.info[v.info[t].parent].type = "query"

(* Every open tab has its information, and one under a query tab is a      *)
(* table of its connection that was opened later.                          *)
InfoInv(v) ==
  /\ \A t \in Tabs : IF t \in Open(v) THEN v.info[t].type # "none" ELSE v.info[t] = NoTab
  /\ \A t \in Tabs : v.info[t].type \in {"table", "object"} <=> v.info[t].name \in Names
  /\ \A t \in Tabs : v.info[t].parent < t
  /\ \A c \in Conns : \A t \in ToSet(v.tabs[c]) : v.info[t].parent # None => Scoped(v, c, t)

(* A table, or object, is open once. *)
OnceInv(v) ==
  \A c \in Conns : \A t, u \in ToSet(v.tabs[c]) :
    t # u /\ v.info[t] = v.info[u] => v.info[t].type = "query"

ActiveInv(v) ==
  /\ \A c \in Conns : v.active[c] # None => v.active[c] \in ToSet(v.tabs[c]) /\ v.info[v.active[c]].parent = None
  /\ v.visible # NoConn => v.visible \in v.attached

(* A bottom panel shows a table of its connection, or what was one.        *)
BottomInv(v) ==
  \A q \in Tabs : v.bottom[q] # None =>
    /\ v.info[q].type = "query" /\ v.bottom[q] < v.next
    /\ v.bottom[q] \in Open(v) => v.info[v.bottom[q]].type = "table"
    /\ \A c \in Conns : v.bottom[q] \in ToSet(v.tabs[c]) => q \in ToSet(v.tabs[c])

RowsInv(v) ==
  /\ v.marked \cup v.evicted \subseteq v.loaded
  /\ v.marked \cap v.evicted = {} /\ v.dirty \cap v.evicted = {}
  /\ v.loaded \cup v.dirty \subseteq Open(v)
  /\ \A t \in v.loaded : v.info[t].type \in {"table", "query"}

(* A bottom panel that shows an open table shows one of its own.           *)
Tight(v) == \A q \in Tabs : v.bottom[q] \in Open(v) => v.info[v.bottom[q]].parent = q

(* What a dialog is about to close has no tab under it but those that go   *)
(* with it.                                                                *)
DialogInv(v, inPanel) ==
  /\ v.asking # None => v.asking \in Open(v) /\ \A t \in Tabs : v.info[t].parent # v.asking
  /\ v.cascade # NoCascade => v.cascade.query # None
  /\ v.cascade # NoCascade /\ v.cascade.query \in Open(v) => v.info[v.cascade.query].type = "query"
  /\ v.cascade # NoCascade => \A t \in Tabs : v.info[t].parent = v.cascade.query => t \in ToSet(v.cascade.children)
  /\ v.cascade # NoCascade => \A t \in ToSet(v.cascade.children) : t \in Open(v) => v.info[t].type = "table"
  /\ (v.asking # None \/ v.cascade # NoCascade) /\ inPanel => Tight(v)

(* Without the setting no table is under a query tab.                      *)
PanelInv(v, inPanel) == inPanel \/ \A t \in Tabs : v.info[t].parent = None

Shape(v) ==
  /\ v \in Workspaces /\ OrderInv(v) /\ InfoInv(v) /\ OnceInv(v)
  /\ ActiveInv(v) /\ BottomInv(v) /\ RowsInv(v)

WorkIInv ==
  /\ Shape(w) /\ panel \in BOOLEAN /\ stray \in BOOLEAN
  /\ DialogInv(w, panel) /\ PanelInv(w, panel) /\ ScreenIsActive


----------
(* Numbers and sequences. *)

LEMMA LeastNat ==
  ASSUME NEW T, T \subseteq Nat, T # {}
  PROVE  \E x \in T : \A y \in T : x <= y
<1>1. IsWellFoundedOn(OpToRel(<, Nat), Nat)
  BY NatLessThanWellFounded
<1>2. PICK x \in T : \A y \in T : ~ (<<y, x>> \in OpToRel(<, Nat))
  BY <1>1, WFMin
<1>3. ASSUME NEW y \in T PROVE x <= y
  <2>1. ~ (<<y, x>> \in OpToRel(<, Nat))
    BY <1>2
  <2>2. x \in Nat /\ y \in Nat
    OBVIOUS
  <2>3. ~(y < x)
    BY <2>1, <2>2 DEF OpToRel
  <2>. QED BY <2>2, <2>3
<1>. QED BY <1>3

LEMMA MinOf ==
  ASSUME NEW T, T \subseteq Nat, T # {}
  PROVE  Min(T) \in T /\ \A y \in T : Min(T) <= y
<1>1. \E x \in T : \A y \in T : x <= y
  BY LeastNat
<1>. QED BY <1>1 DEF Min

LEMMA MaxOf ==
  ASSUME NEW n \in Nat, NEW T, T \subseteq 1 .. n, T # {}
  PROVE  Max(T) \in T /\ \A y \in T : Max(T) >= y
<1>. DEFINE U == {k \in Nat : \A y \in T : y <= k}
<1>1. n \in U
  OBVIOUS
<1>2. PICK m \in U : \A k \in U : m <= k
  <2>1. U \subseteq Nat /\ U # {}
    BY <1>1
  <2>. HIDE DEF U
  <2>. QED BY <2>1, LeastNat
<1>3. m \in T
  <2>1. SUFFICES ASSUME m \notin T PROVE FALSE
    OBVIOUS
  <2>2. PICK y \in T : TRUE
    OBVIOUS
  <2>3. m - 1 \in Nat /\ \A z \in T : z <= m - 1
    BY <1>2, <2>1, <2>2
  <2>4. m - 1 \in U
    BY <2>3
  <2>5. m <= m - 1
    BY <1>2, <2>4
  <2>. QED BY <2>3, <2>5
<1>4. \E x \in T : \A y \in T : x >= y
  BY <1>2, <1>3
<1>. QED BY <1>4 DEF Max

LEMMA WorkBounds == MaxTabs \in Nat /\ Limit \in Nat /\ Tabs \subseteq Nat \ {None} /\ None \notin Tabs
  BY WorkspaceAssumption DEF Tabs, None

(* The members of S among the first elements of a sequence. *)
OnlyRun(f, s, S, n) ==
  /\ f = [i \in 0 .. n |-> f[i]] /\ f[0] = <<>>
  /\ \A i \in 1 .. n : f[i] = IF s[i] \in S THEN Append(f[i - 1], s[i]) ELSE f[i - 1]

LEMMA OnlyRunExists ==
  ASSUME NEW s, NEW S, Len(s) \in Nat
  PROVE  \E f : OnlyRun(f, s, S, Len(s))
<1>. DEFINE T == {n \in 0 .. Len(s) : ~ \E f : OnlyRun(f, s, S, n)}
<1>1. SUFFICES ASSUME T # {} PROVE FALSE
  OBVIOUS
<1>2. PICK n \in T : \A m \in T : n <= m
  <2>1. T \subseteq Nat
    OBVIOUS
  <2>. HIDE DEF T
  <2>. QED BY <1>1, <2>1, LeastNat
<1>3. n # 0
  <2>. DEFINE g == [i \in 0 .. 0 |-> <<>>]
  <2>1. g = [i \in 0 .. 0 |-> g[i]] /\ g[0] = <<>>
    OBVIOUS
  <2>. HIDE DEF g
  <2>2. OnlyRun(g, s, S, 0)
    BY <2>1 DEF OnlyRun
  <2>. QED BY <2>2
<1>4. n - 1 \in 0 .. Len(s) /\ n - 1 \notin T /\ n \in 1 .. Len(s)
  BY <1>2, <1>3
<1>5. PICK f : OnlyRun(f, s, S, n - 1)
  BY <1>4
<1>6. /\ f[0] = <<>>
      /\ \A i \in 1 .. (n - 1) : f[i] = IF s[i] \in S THEN Append(f[i - 1], s[i]) ELSE f[i - 1]
  BY <1>5 DEF OnlyRun
<1>. DEFINE last == IF s[n] \in S THEN Append(f[n - 1], s[n]) ELSE f[n - 1]
            g    == [i \in 0 .. n |-> IF i = n THEN last ELSE f[i]]
<1>. HIDE DEF last
<1>7. g = [i \in 0 .. n |-> g[i]]
  OBVIOUS
<1>8. g[0] = <<>>
  BY <1>4, <1>6
<1>9. ASSUME NEW i \in 1 .. n
      PROVE  g[i] = IF s[i] \in S THEN Append(g[i - 1], s[i]) ELSE g[i - 1]
  <2>1. g[i - 1] = f[i - 1]
    BY <1>4
  <2>2. CASE i = n
    <3>1. g[n] = last
      BY <1>4
    <3>. HIDE DEF g
    <3>. QED BY <2>1, <2>2, <3>1 DEF last
  <2>3. CASE i # n
    <3>1. i \in 1 .. (n - 1) /\ g[i] = f[i]
      BY <1>4, <2>3
    <3>. HIDE DEF g
    <3>. QED BY <1>6, <2>1, <3>1
  <2>. QED BY <2>2, <2>3
<1>10. OnlyRun(g, s, S, n)
  <2>. HIDE DEF g
  <2>. QED BY <1>7, <1>8, <1>9 DEF OnlyRun
<1>. QED BY <1>10

LEMMA OnlyIsRun ==
  ASSUME NEW s, NEW S, Len(s) \in Nat
  PROVE  \E f : OnlyRun(f, s, S, Len(s)) /\ Only(s, S) = f[Len(s)]
<1>. DEFINE Body(f) == [i \in 0 .. Len(s) |->
              IF i = 0 THEN <<>> ELSE IF s[i] \in S THEN Append(f[i - 1], s[i]) ELSE f[i - 1]]
            c == CHOOSE f : f = Body(f)
<1>1. Only(s, S) = c[Len(s)]
  BY DEF Only
<1>2. PICK f : OnlyRun(f, s, S, Len(s))
  BY OnlyRunExists
<1>3. f = Body(f)
  <2>1. f = [i \in 0 .. Len(s) |-> f[i]]
    BY <1>2 DEF OnlyRun
  <2>2. ASSUME NEW i \in 0 .. Len(s)
        PROVE  f[i] = IF i = 0 THEN <<>> ELSE IF s[i] \in S THEN Append(f[i - 1], s[i]) ELSE f[i - 1]
    <3>1. CASE i = 0
      BY <1>2, <3>1 DEF OnlyRun
    <3>2. CASE i # 0
      <4>1. i \in 1 .. Len(s)
        BY <3>2
      <4>. QED BY <1>2, <3>2, <4>1 DEF OnlyRun
    <3>. QED BY <3>1, <3>2
  <2>. QED BY <2>1, <2>2
<1>4. c = Body(c)
  BY <1>3
<1>5. \A i \in 0 .. Len(s) : c[i] = f[i]
  <2>. DEFINE T == {i \in 0 .. Len(s) : c[i] # f[i]}
  <2>1. SUFFICES ASSUME T # {} PROVE FALSE
    OBVIOUS
  <2>2. PICK n \in T : \A m \in T : n <= m
    <3>1. T \subseteq Nat
      OBVIOUS
    <3>. HIDE DEF T
    <3>. QED BY <2>1, <3>1, LeastNat
  <2>3. c[n] = Body(c)[n] /\ f[n] = Body(f)[n]
    BY <1>3, <1>4
  <2>4. n # 0
    BY <2>2, <2>3
  <2>5. n - 1 \in 0 .. Len(s) /\ n - 1 \notin T
    BY <2>2, <2>4
  <2>6. c[n - 1] = f[n - 1]
    BY <2>5
  <2>7. /\ c[n] = IF s[n] \in S THEN Append(c[n - 1], s[n]) ELSE c[n - 1]
        /\ f[n] = IF s[n] \in S THEN Append(f[n - 1], s[n]) ELSE f[n - 1]
    BY <2>2, <2>3, <2>4
  <2>. QED BY <2>2, <2>6, <2>7
<1>6. Only(s, S) = f[Len(s)]
  <2>. HIDE DEF c
  <2>. QED BY <1>1, <1>5
<1>. QED BY <1>2, <1>6

LEMMA AppendApart ==
  ASSUME NEW T, NEW s \in Seq(T), NEW x \in T
  PROVE  /\ Append(s, x) \in Seq(T) /\ ToSet(Append(s, x)) = ToSet(s) \cup {x}
         /\ IsInjective(s) /\ x \notin ToSet(s) => IsInjective(Append(s, x))
<1>1. Len(s) \in Nat /\ DOMAIN s = 1 .. Len(s) /\ DOMAIN Append(s, x) = 1 .. Len(s) + 1
      /\ Append(s, x)[Len(s) + 1] = x /\ Append(s, x) \in Seq(T)
  OBVIOUS
<1>2. \A m \in 1 .. Len(s) : Append(s, x)[m] = s[m]
  BY <1>1
<1>3. ToSet(Append(s, x)) = ToSet(s) \cup {x}
  <2>. QED BY <1>1, <1>2 DEF ToSet
<1>4. ASSUME IsInjective(s), x \notin ToSet(s) PROVE IsInjective(Append(s, x))
  <2>1. \A m \in 1 .. Len(s) : s[m] # x
    BY <1>1, <1>4 DEF ToSet
  <2>. QED BY <1>1, <1>2, <1>4, <2>1 DEF IsInjective
<1>. QED BY <1>1, <1>3, <1>4

(* It keeps those members, in their order.                                 *)
LEMMA OnlyIs ==
  ASSUME NEW T, NEW s \in Seq(T), NEW S
  PROVE  /\ Only(s, S) \in Seq(T) /\ ToSet(Only(s, S)) = ToSet(s) \cap S
         /\ T \subseteq Nat /\ Increasing(s) => Increasing(Only(s, S))
         /\ IsInjective(s) => IsInjective(Only(s, S))
<1>. DEFINE n == Len(s)
<1>1. n \in Nat /\ DOMAIN s = 1 .. n /\ \A i \in 1 .. n : s[i] \in T
  OBVIOUS
<1>2. PICK f : OnlyRun(f, s, S, n) /\ Only(s, S) = f[n]
  BY <1>1, OnlyIsRun
<1>3. f[0] = <<>> /\ \A i \in 1 .. n : f[i] = IF s[i] \in S THEN Append(f[i - 1], s[i]) ELSE f[i - 1]
  BY <1>2 DEF OnlyRun
<1>. DEFINE Good(i) == /\ f[i] \in Seq(T) /\ ToSet(f[i]) = {s[j] : j \in 1 .. i} \cap S
                       /\ T \subseteq Nat /\ Increasing(s) => Increasing(f[i])
                       /\ IsInjective(s) => IsInjective(f[i])
            B == {i \in 0 .. n : ~Good(i)}
<1>4. B = {}
  <2>1. SUFFICES ASSUME B # {} PROVE FALSE
    OBVIOUS
  <2>2. PICK i \in B : \A m \in B : i <= m
    <3>1. B \subseteq Nat
      BY <1>1
    <3>. HIDE DEF B
    <3>. QED BY <2>1, <3>1, LeastNat
  <2>3. i # 0
    <3>1. f[0] \in Seq(T) /\ ToSet(f[0]) = {} /\ Increasing(f[0]) /\ IsInjective(f[0])
      BY <1>3 DEF ToSet, Increasing, IsInjective
    <3>2. Good(0)
      BY <3>1
    <3>. HIDE DEF Good
    <3>. QED BY <2>2, <3>2
  <2>4. i - 1 \in 0 .. n /\ i - 1 \notin B /\ i \in 1 .. n
    <3>1. i \in 0 .. n
      OBVIOUS
    <3>. HIDE DEF B, n
    <3>. QED BY <1>1, <2>2, <2>3, <3>1
  <2>5. Good(i - 1)
    <3>. HIDE DEF Good
    <3>. QED BY <2>4
  <2>. DEFINE e == f[i - 1]
              x == s[i]
              past == {s[j] : j \in 1 .. (i - 1)}
              now  == {s[j] : j \in 1 .. i}
  <2>6. e \in Seq(T) /\ ToSet(e) = past \cap S /\ (T \subseteq Nat /\ Increasing(s) => Increasing(e))
        /\ (IsInjective(s) => IsInjective(e))
    BY <2>5
  <2>7. now = past \cup {x} /\ x \in T
    BY <1>1, <2>4
  <2>8. T \subseteq Nat /\ Increasing(s) => \A y \in past : y < x
    BY <1>1, <2>4 DEF Increasing
  <2>14. IsInjective(s) => x \notin past
    <3>. SUFFICES ASSUME IsInjective(s), NEW j \in 1 .. (i - 1), s[j] = s[i] PROVE FALSE
      BY DEF IsInjective
    <3>1. i \in 1 .. n /\ j \in 1 .. n /\ j # i
      BY <1>1, <2>4
    <3>. HIDE DEF n
    <3>. QED BY <1>1, <3>1 DEF IsInjective
  <2>9. f[i] = IF x \in S THEN Append(e, x) ELSE e
    BY <1>3, <2>4
  <2>. HIDE DEF e, x, past, now
  <2>10. Append(e, x) \in Seq(T) /\ ToSet(Append(e, x)) = ToSet(e) \cup {x}
    BY <2>6, <2>7, AppendApart
  <2>11. T \subseteq Nat /\ Increasing(s) => Increasing(Append(e, x))
    <3>. SUFFICES ASSUME T \subseteq Nat, Increasing(s),
                         NEW j \in DOMAIN Append(e, x), NEW k \in DOMAIN Append(e, x), j < k
                  PROVE  Append(e, x)[j] < Append(e, x)[k]
      BY DEF Increasing
    <3>1. Len(e) \in Nat /\ DOMAIN e = 1 .. Len(e) /\ DOMAIN Append(e, x) = 1 .. Len(e) + 1
      BY <2>6
    <3>2. j \in 1 .. Len(e) /\ Append(e, x)[j] = e[j] /\ e[j] \in ToSet(e)
      BY <2>6, <3>1 DEF ToSet
    <3>3. CASE k = Len(e) + 1
      BY <2>6, <2>8, <3>1, <3>2, <3>3
    <3>4. CASE k # Len(e) + 1
      <4>1. k \in 1 .. Len(e) /\ Append(e, x)[k] = e[k]
        BY <2>6, <3>1, <3>4
      <4>. QED BY <2>6, <3>1, <3>2, <4>1 DEF Increasing
    <3>. QED BY <3>3, <3>4
  <2>15. IsInjective(s) /\ x \in S => IsInjective(Append(e, x))
    BY <2>6, <2>7, <2>14, AppendApart
  <2>12. f[i] \in Seq(T) /\ ToSet(f[i]) = now \cap S /\ (T \subseteq Nat /\ Increasing(s) => Increasing(f[i]))
         /\ (IsInjective(s) => IsInjective(f[i]))
    BY <2>6, <2>7, <2>9, <2>10, <2>11, <2>15
  <2>13. Good(i)
    BY <2>12 DEF now
  <2>. HIDE DEF Good
  <2>. QED BY <2>2, <2>13
<1>5. Good(n)
  <2>. HIDE DEF Good
  <2>. QED BY <1>1, <1>4
<1>6. ToSet(s) = {s[j] : j \in 1 .. n}
  BY <1>1 DEF ToSet
<1>. QED BY <1>2, <1>5, <1>6


----------
(* What is on screen. *)

(* The same workspace, but for the marks and evictions. *)
Repainted(u, v) ==
  /\ u \in Workspaces
  /\ u.attached = v.attached /\ u.tabs = v.tabs /\ u.active = v.active /\ u.visible = v.visible
  /\ u.info = v.info /\ u.used = v.used /\ u.bottom = v.bottom /\ u.loaded = v.loaded
  /\ u.dirty = v.dirty /\ u.asking = v.asking /\ u.cascade = v.cascade /\ u.next = v.next

LEMMA FieldsAre ==
  ASSUME NEW v \in Workspaces
  PROVE  /\ v.attached \subseteq Conns /\ v.tabs \in [Conns -> Seq(Tabs)]
         /\ v.active \in [Conns -> 0 .. MaxTabs] /\ v.visible \in Conns \cup {NoConn}
         /\ v.info \in [Tabs -> Infos] /\ v.used \in Seq(Tabs) /\ v.bottom \in [Tabs -> 0 .. MaxTabs]
         /\ v.loaded \subseteq Tabs /\ v.marked \subseteq Tabs /\ v.evicted \subseteq Tabs
         /\ v.dirty \subseteq Tabs /\ v.asking \in 0 .. MaxTabs
         /\ v.cascade \in [query : 0 .. MaxTabs, children : Seq(Tabs)] /\ v.next \in 1 .. MaxTabs + 1
BY DEF Workspaces

LEMMA HideIs ==
  ASSUME NEW v \in Workspaces, NEW s
  PROVE  /\ Repainted(Hide(v, s), v) /\ Hide(v, s).marked = v.marked \ {s}
         /\ Hide(v, s).evicted = v.evicted
BY DEF Hide, Workspaces, Repainted

LEMMA ShowIs ==
  ASSUME NEW v \in Workspaces, NEW s
  PROVE  /\ Repainted(Show(v, s), v) /\ Show(v, s).marked = v.marked \cup ({s} \cap v.loaded)
         /\ Show(v, s).evicted = v.evicted \ ({s} \cap v.loaded)
<1>1. CASE s \in v.loaded
  BY <1>1 DEF Show, Workspaces, Repainted
<1>2. CASE s \notin v.loaded
  BY <1>2 DEF Show, Workspaces, Repainted
<1>. QED BY <1>1, <1>2

(* Rows are hidden, others shown.                                          *)
LEMMA SwapIs ==
  ASSUME NEW v \in Workspaces, NEW s, NEW t, NEW u, u = Show(Hide(v, s), t)
  PROVE  /\ Repainted(u, v) /\ u.marked = (v.marked \ {s}) \cup ({t} \cap v.loaded)
         /\ u.evicted = v.evicted \ ({t} \cap v.loaded)
<1>. DEFINE h == Hide(v, s)
<1>1. Repainted(h, v) /\ h.marked = v.marked \ {s} /\ h.evicted = v.evicted
  BY HideIs
<1>. HIDE DEF h
<1>2. Repainted(Show(h, t), h) /\ Show(h, t).marked = h.marked \cup ({t} \cap h.loaded)
      /\ Show(h, t).evicted = h.evicted \ ({t} \cap h.loaded)
  BY <1>1, ShowIs DEF Repainted
<1>3. u = Show(h, t)
  BY DEF h
<1>. QED BY <1>1, <1>2, <1>3 DEF Repainted

LEMMA RowsSwap ==
  ASSUME NEW v, RowsInv(v), NEW u, Repainted(u, v), NEW s, NEW t,
         u.marked = (v.marked \ {s}) \cup ({t} \cap v.loaded),
         u.evicted = v.evicted \ ({t} \cap v.loaded)
  PROVE  RowsInv(u)
BY DEF RowsInv, Repainted, Open


Marks(v) == v.marked = {Screen(v)} \cap v.loaded

LEMMA RepaintKeeps ==
  ASSUME NEW v, Shape(v), NEW u, Repainted(u, v), RowsInv(u)
  PROVE  Shape(u)
<1>1. Open(u) = Open(v)
  BY DEF Open, Repainted
<1>2. /\ OrderInv(u) /\ InfoInv(u) /\ OnceInv(u)
  BY <1>1 DEF Shape, Repainted, OrderInv, InfoInv, OnceInv, Scoped
<1>3. ActiveInv(u) /\ BottomInv(u)
  BY <1>1 DEF Shape, Repainted, ActiveInv, BottomInv
<1>. QED BY <1>2, <1>3 DEF Shape, Repainted

LEMMA SurfaceFrame ==
  ASSUME NEW u, NEW v, NEW t, u.info = v.info, u.bottom = v.bottom
  PROVE  SurfaceOf(u, t) = SurfaceOf(v, t)
BY DEF SurfaceOf, Type

LEMMA OpenIs ==
  ASSUME NEW v, Shape(v), NEW c \in Conns, NEW t \in ToSet(v.tabs[c])
  PROVE  /\ t \in Tabs /\ t \in Open(v) /\ t < v.next /\ v.info[t].type \in {"query", "table", "object"}
         /\ \A d \in Conns : t \in ToSet(v.tabs[d]) => d = c
         /\ ConnOf(v, t) = c
<1>1. v.tabs[c] \in Seq(Tabs)
  BY FieldsAre DEF Shape
<1>2. t \in Tabs
  BY <1>1 DEF ToSet
<1>3. t \in Open(v)
  BY DEF Open
<1>4. v.info[t] \in Infos /\ v.info[t].type # "none"
  BY <1>2, <1>3, FieldsAre DEF Shape, InfoInv
<1>5. t < v.next /\ \A d \in Conns : t \in ToSet(v.tabs[d]) => d = c
  BY DEF Shape, OrderInv
<1>. QED BY <1>2, <1>3, <1>4, <1>5 DEF Infos, ConnOf

(* Two tabs of a query's panel, or of two connections, are told apart.     *)
LEMMA ApartIs ==
  ASSUME NEW v, Shape(v), NEW a \in Tabs, NEW b \in Tabs, a # b,
         v.info[a].type = "query", v.info[b].type = "query"
  PROVE  SurfaceOf(v, a) # b
<1>1. b \in Open(v)
  BY DEF Shape, InfoInv, NoTab
<1>2. v.bottom[a] # None => v.bottom[a] # b
  BY <1>1 DEF Shape, BottomInv
<1>. QED BY <1>2 DEF SurfaceOf, Type

Activated(u, v, c, t) ==
  /\ u \in Workspaces
  /\ u.attached = v.attached /\ u.tabs = v.tabs /\ u.visible = v.visible /\ u.info = v.info
  /\ u.bottom = v.bottom /\ u.loaded = v.loaded /\ u.dirty = v.dirty /\ u.asking = v.asking
  /\ u.cascade = v.cascade /\ u.next = v.next
  /\ u.active = [v.active EXCEPT ![c] = t]

LEMMA ActivateIs ==
  ASSUME NEW v, Shape(v), NEW c \in Conns, NEW t \in ToSet(v.tabs[c]), v.info[t].parent = None,
         NEW u, u = Activate(v, c, t)
  PROVE  Shape(u) /\ Activated(u, v, c, t) /\ (Marks(v) => Marks(u))
<1>. DEFINE used == IF Type(v, t) = "query" THEN v.used ELSE Append(Without(v.used, t), t)
            x == [v EXCEPT !.active[c] = t, !.used = used]
            s == SurfaceOf(v, v.active[c])
<1>1. v \in Workspaces
  BY DEF Shape
<1>2. t \in Tabs /\ t \in 0 .. MaxTabs
  BY OpenIs, WorkBounds DEF Tabs
<1>3. used \in Seq(Tabs) /\ IsInjective(used)
  <2>. DEFINE r == Without(v.used, t)
  <2>1. v.used \in Seq(Tabs) /\ IsInjective(v.used)
    BY <1>1, FieldsAre DEF Shape, OrderInv
  <2>2. r \in Seq(Tabs) /\ IsInjective(r) /\ t \notin ToSet(r)
    BY <2>1, OnlyIs DEF Without
  <2>3. used = IF Type(v, t) = "query" THEN v.used ELSE Append(r, t)
    OBVIOUS
  <2>. HIDE DEF used, r
  <2>4. Append(r, t) \in Seq(Tabs) /\ IsInjective(Append(r, t))
    BY <1>2, <2>2, AppendApart
  <2>. QED BY <2>1, <2>3, <2>4
<1>4. u = Finalize(x, c, s, t)
  BY <1>1 DEF Activate
<1>. HIDE DEF used, s
<1>5. /\ x \in Workspaces /\ x.marked = v.marked /\ x.evicted = v.evicted
      /\ Activated(x, v, c, t) /\ x.used = used
  BY <1>1, <1>2, <1>3 DEF Workspaces, Activated
<1>. HIDE DEF x
<1>6. RowsInv(x)
  BY <1>5 DEF Shape, RowsInv, Activated, Open
<1>7. Shape(x)
  <2>1. Open(x) = Open(v)
    BY <1>5 DEF Open, Activated
  <2>2. OrderInv(x) /\ InfoInv(x) /\ OnceInv(x)
    <3>1. IsInjective(x.used)
      BY <1>3, <1>5
    <3>2. x.tabs = v.tabs /\ x.info = v.info /\ x.next = v.next
      BY <1>5 DEF Activated
    <3>3. OrderInv(x)
      BY <3>1, <3>2 DEF Shape, OrderInv
    <3>. QED BY <2>1, <3>2, <3>3 DEF Shape, InfoInv, OnceInv, Scoped
  <2>3. BottomInv(x)
    BY <1>5, <2>1 DEF Shape, Activated, BottomInv
  <2>4. ActiveInv(x)
    BY <1>1, <1>5, FieldsAre DEF Shape, Activated, ActiveInv
  <2>. QED BY <1>5, <1>6, <2>2, <2>3, <2>4 DEF Shape
<1>8. CASE v.visible # c
  <2>1. u = x
    BY <1>4, <1>5, <1>8 DEF Finalize, Activated
  <2>2. Screen(x) = Screen(v)
    BY <1>1, <1>5, <1>8, FieldsAre, SurfaceFrame DEF Screen, Activated
  <2>3. Marks(v) => Marks(x)
    BY <1>5, <2>2 DEF Marks, Activated
  <2>. QED BY <1>5, <1>7, <2>1, <2>3
<1>9. CASE v.visible = c
  <2>. DEFINE r == SurfaceOf(x, t)
  <2>1. u = Show(Hide(x, s), r)
    BY <1>4, <1>5, <1>9 DEF Finalize, Activated
  <2>. HIDE DEF r
  <2>2. /\ Repainted(u, x) /\ u.marked = (x.marked \ {s}) \cup ({r} \cap x.loaded)
        /\ u.evicted = x.evicted \ ({r} \cap x.loaded)
    BY <1>5, <2>1, SwapIs
  <2>3. RowsInv(u)
    BY <1>6, <2>2, RowsSwap
  <2>4. Shape(u)
    BY <1>7, <2>2, <2>3, RepaintKeeps
  <2>5. Activated(u, v, c, t)
    BY <1>5, <2>2 DEF Activated, Repainted
  <2>6. Screen(u) = r
    <3>1. u.visible = c /\ u.visible # NoConn /\ u.active[u.visible] = t
      BY <1>1, <1>9, <2>5, FieldsAre, WorkspaceAssumption DEF Activated
    <3>2. SurfaceOf(u, t) = r
      BY <1>5, <2>5, SurfaceFrame DEF r, Activated
    <3>. QED BY <3>1, <3>2 DEF Screen
  <2>7. Marks(v) => Marks(u)
    <3>1. Screen(v) = s
      BY <1>9, WorkspaceAssumption DEF Screen, s
    <3>2. u.loaded = v.loaded /\ x.loaded = v.loaded
      BY <1>5, <2>5 DEF Activated
    <3>. QED BY <1>5, <2>2, <2>6, <3>1, <3>2 DEF Marks
  <2>. QED BY <2>4, <2>5, <2>7
<1>. QED BY <1>8, <1>9

Retold(u, v, bottom) ==
  /\ u \in Workspaces
  /\ u.attached = v.attached /\ u.tabs = v.tabs /\ u.visible = v.visible /\ u.info = v.info
  /\ u.active = v.active /\ u.loaded = v.loaded /\ u.dirty = v.dirty /\ u.asking = v.asking
  /\ u.cascade = v.cascade /\ u.next = v.next /\ u.used = v.used
  /\ u.bottom = bottom

LEMMA SetBottomsIs ==
  ASSUME NEW v, Shape(v), NEW qs \in SUBSET Tabs, NEW item \in 0 .. MaxTabs,
         \/ item = None
         \/ \E c \in Conns : /\ item \in ToSet(v.tabs[c]) /\ v.info[item].type = "table"
                             /\ \A q \in qs : q \in ToSet(v.tabs[c]) /\ v.info[q].type = "query",
         NEW u, u = SetBottoms(v, qs, item)
  PROVE  /\ Shape(u) /\ (Marks(v) => Marks(u))
         /\ Retold(u, v, [q \in Tabs |-> IF q \in qs THEN item ELSE v.bottom[q]])
<1>. DEFINE bottom == [q \in Tabs |-> IF q \in qs THEN item ELSE v.bottom[q]]
            x == [v EXCEPT !.bottom = [q \in Tabs |-> IF q \in qs THEN item ELSE @[q]]]
<1>1. v \in Workspaces
  BY DEF Shape
<1>2. bottom \in [Tabs -> 0 .. MaxTabs]
  BY <1>1, FieldsAre
<1>3. x = [v EXCEPT !.bottom = bottom]
  BY <1>1 DEF Workspaces
<1>4. u = IF v.visible # NoConn /\ v.active[v.visible] \in qs THEN Show(Hide(x, Screen(v)), Screen(x)) ELSE x
  BY DEF SetBottoms
<1>5. \A q \in Tabs : bottom[q] = IF q \in qs THEN item ELSE v.bottom[q]
  OBVIOUS
<1>. HIDE DEF bottom, x
<1>6. Retold(x, v, bottom) /\ x.marked = v.marked /\ x.evicted = v.evicted
  BY <1>1, <1>2, <1>3 DEF Workspaces, Retold
<1>7. Open(x) = Open(v)
  BY <1>6 DEF Open, Retold
<1>8. RowsInv(x)
  BY <1>6, <1>7 DEF Shape, RowsInv, Retold
<1>9. Shape(x)
  <2>1. OrderInv(x) /\ InfoInv(x) /\ OnceInv(x) /\ ActiveInv(x)
    BY <1>6, <1>7 DEF Shape, Retold, OrderInv, InfoInv, OnceInv, Scoped, ActiveInv
  <2>2. BottomInv(x)
    <3>. SUFFICES ASSUME NEW q \in Tabs, bottom[q] # None
                  PROVE  /\ v.info[q].type = "query" /\ bottom[q] < v.next
                         /\ bottom[q] \in Open(v) => v.info[bottom[q]].type = "table"
                         /\ \A c \in Conns : bottom[q] \in ToSet(v.tabs[c]) => q \in ToSet(v.tabs[c])
      BY <1>6, <1>7 DEF BottomInv, Retold
    <3>1. CASE q \notin qs
      BY <1>5, <3>1 DEF Shape, BottomInv
    <3>2. CASE q \in qs
      <4>1. PICK c \in Conns : /\ item \in ToSet(v.tabs[c]) /\ v.info[item].type = "table"
                               /\ q \in ToSet(v.tabs[c]) /\ v.info[q].type = "query"
        BY <1>5, <3>2
      <4>2. item < v.next /\ \A d \in Conns : item \in ToSet(v.tabs[d]) => d = c
        BY <4>1, OpenIs
      <4>. QED BY <1>5, <3>2, <4>1, <4>2
    <3>. QED BY <3>1, <3>2
  <2>. QED BY <1>6, <1>8, <2>1, <2>2 DEF Shape, Retold
<1>10. CASE v.visible # NoConn /\ v.active[v.visible] \in qs
  <2>. DEFINE s == Screen(v)
              t == Screen(x)
  <2>. HIDE DEF s, t
  <2>1. /\ Repainted(u, x) /\ u.marked = (x.marked \ {s}) \cup ({t} \cap x.loaded)
        /\ u.evicted = x.evicted \ ({t} \cap x.loaded)
    BY <1>4, <1>6, <1>10, SwapIs DEF s, t, Retold
  <2>2. RowsInv(u)
    BY <1>8, <2>1, RowsSwap
  <2>3. Shape(u)
    BY <1>9, <2>1, <2>2, RepaintKeeps
  <2>4. Retold(u, v, bottom)
    BY <1>6, <2>1 DEF Retold, Repainted
  <2>5. Screen(u) = t
    BY <2>1, SurfaceFrame DEF Screen, t, Repainted
  <2>6. Marks(v) => Marks(u)
    BY <1>6, <2>1, <2>4, <2>5 DEF Marks, s, Retold
  <2>. QED BY <2>3, <2>4, <2>6 DEF bottom
<1>11. CASE ~(v.visible # NoConn /\ v.active[v.visible] \in qs)
  <2>1. u = x
    BY <1>4, <1>11
  <2>2. Screen(x) = Screen(v)
    <3>1. CASE v.visible = NoConn
      BY <1>6, <3>1 DEF Screen, Retold
    <3>2. CASE v.visible # NoConn
      <4>. DEFINE a == v.active[v.visible]
      <4>1. a \in Tabs \cup {None} /\ a \notin qs
        BY <1>1, <1>11, <3>2, FieldsAre, WorkBounds DEF Tabs, None
      <4>2. Screen(v) = SurfaceOf(v, a) /\ Screen(x) = SurfaceOf(x, a)
        BY <1>6, <3>2 DEF Screen, Retold
      <4>. HIDE DEF a
      <4>3. a \in Tabs => x.bottom[a] = v.bottom[a]
        BY <1>5, <1>6, <4>1 DEF Retold
      <4>4. Type(x, a) = Type(v, a)
        BY <1>6 DEF Type, Retold
      <4>5. SurfaceOf(x, a) = SurfaceOf(v, a)
        BY <4>1, <4>3, <4>4 DEF SurfaceOf, Type
      <4>. QED BY <4>2, <4>5
    <3>. QED BY <3>1, <3>2
  <2>3. Marks(v) => Marks(u)
    BY <1>6, <2>1, <2>2 DEF Marks, Retold
  <2>. QED BY <1>6, <1>9, <2>1, <2>3 DEF bottom
<1>. QED BY <1>10, <1>11


Viewed(u, v, c) ==
  /\ u \in Workspaces
  /\ u.attached = v.attached /\ u.tabs = v.tabs /\ u.active = v.active /\ u.info = v.info
  /\ u.used = v.used /\ u.bottom = v.bottom /\ u.loaded = v.loaded /\ u.dirty = v.dirty
  /\ u.asking = v.asking /\ u.cascade = v.cascade /\ u.next = v.next
  /\ u.visible = c

LEMMA SetVisibleIs ==
  ASSUME NEW v, Shape(v), NEW c \in v.attached \cup {NoConn}, NEW u, u = SetVisible(v, c)
  PROVE  Shape(u) /\ Viewed(u, v, c) /\ (Marks(v) => Marks(u))
<1>. DEFINE h == Hide(v, Screen(v))
            x == [h EXCEPT !.visible = c]
            t == Screen(x)
<1>1. v \in Workspaces
  BY DEF Shape
<1>2. Repainted(h, v) /\ h.marked = v.marked \ {Screen(v)} /\ h.evicted = v.evicted
  BY <1>1, HideIs
<1>3. u = IF c = v.visible THEN v ELSE Show(x, t)
  BY DEF SetVisible
<1>. HIDE DEF h
<1>4. Viewed(x, v, c) /\ x.marked = v.marked \ {Screen(v)} /\ x.evicted = v.evicted
  BY <1>1, <1>2, FieldsAre DEF Workspaces, Repainted, Viewed
<1>. HIDE DEF x, t
<1>5. CASE c = v.visible
  BY <1>1, <1>3, <1>5 DEF Viewed
<1>6. CASE c # v.visible
  <2>1. /\ Repainted(u, x) /\ u.marked = x.marked \cup ({t} \cap x.loaded)
        /\ u.evicted = x.evicted \ ({t} \cap x.loaded)
    BY <1>3, <1>4, <1>6, ShowIs DEF Viewed
  <2>2. Viewed(u, v, c)
    BY <1>4, <2>1 DEF Viewed, Repainted
  <2>3. Open(u) = Open(v)
    BY <2>2 DEF Open, Viewed
  <2>4. RowsInv(u)
    BY <1>4, <2>1, <2>2, <2>3 DEF Shape, RowsInv, Viewed
  <2>5. OrderInv(u) /\ InfoInv(u) /\ OnceInv(u) /\ BottomInv(u) /\ ActiveInv(u)
    BY <2>2, <2>3 DEF Shape, Viewed, OrderInv, InfoInv, OnceInv, Scoped, BottomInv, ActiveInv
  <2>6. Screen(u) = t
    <3>1. \A a : SurfaceOf(u, a) = SurfaceOf(x, a)
      BY <1>4, <2>2, SurfaceFrame DEF Viewed
    <3>. QED BY <1>4, <2>2, <3>1 DEF Screen, t, Viewed
  <2>7. Marks(v) => Marks(u)
    BY <1>4, <2>1, <2>2, <2>6 DEF Marks, Viewed
  <2>. QED BY <2>2, <2>4, <2>5, <2>7 DEF Shape, Viewed
<1>. QED BY <1>5, <1>6

(* The screen is that of the visible connection's active tab.              *)
LEMMA ScreenFrame ==
  ASSUME NEW v, Shape(v), NEW u, u.visible = v.visible,
         v.visible # NoConn => u.active[v.visible] = v.active[v.visible],
         \A a \in Tabs : v.visible # NoConn /\ a = v.active[v.visible] =>
            u.info[a].type = v.info[a].type /\ u.bottom[a] = v.bottom[a]
  PROVE  Screen(u) = Screen(v)
<1>1. CASE v.visible = NoConn
  BY <1>1 DEF Screen
<1>2. CASE v.visible # NoConn
  <2>. DEFINE a == v.active[v.visible]
  <2>1. a \in Tabs \cup {None}
    BY <1>2, FieldsAre, WorkBounds DEF Shape, Tabs, None
  <2>2. Screen(v) = SurfaceOf(v, a) /\ Screen(u) = SurfaceOf(u, a)
    BY <1>2 DEF Screen
  <2>3. a \in Tabs => u.info[a].type = v.info[a].type /\ u.bottom[a] = v.bottom[a]
    BY <1>2
  <2>. HIDE DEF a
  <2>4. SurfaceOf(u, a) = SurfaceOf(v, a)
    BY <2>1, <2>3 DEF SurfaceOf, Type
  <2>. QED BY <2>2, <2>4
<1>. QED BY <1>1, <1>2

Added(u, v, c, info) ==
  /\ u \in Workspaces
  /\ u.attached = v.attached /\ u.active = v.active /\ u.visible = v.visible
  /\ u.used = v.used /\ u.bottom = v.bottom /\ u.loaded = v.loaded /\ u.dirty = v.dirty
  /\ u.asking = v.asking /\ u.cascade = v.cascade /\ u.marked = v.marked /\ u.evicted = v.evicted
  /\ u.next = v.next + 1
  /\ u.tabs = [v.tabs EXCEPT ![c] = Append(v.tabs[c], v.next)]
  /\ u.info = [v.info EXCEPT ![v.next] = info]

(* What a new tab may be.                                                  *)
Fits(v, c, info) ==
  /\ info \in Infos /\ info.type # "none"
  /\ info.type \in {"table", "object"} <=> info.name \in Names
  /\ info.parent # None => /\ info.type = "table" /\ info.parent \in ToSet(v.tabs[c])
                           /\ v.info[info.parent].type = "query"
  /\ \A t \in ToSet(v.tabs[c]) : v.info[t] = info => info.type = "query"

LEMMA AddIs ==
  ASSUME NEW v, Shape(v), NEW c \in Conns, v.next \in Tabs, NEW type, NEW name, NEW parent,
         NEW info, info = [type |-> type, name |-> name, parent |-> parent], Fits(v, c, info),
         NEW u, u = Add(v, c, type, name, parent)
  PROVE  /\ Shape(u) /\ Added(u, v, c, info) /\ (Marks(v) => Marks(u))
         /\ ToSet(u.tabs[c]) = ToSet(v.tabs[c]) \cup {v.next}
         /\ \A d \in Conns : d # c => u.tabs[d] = v.tabs[d]
         /\ u.info[v.next] = info /\ \A t \in Tabs : t # v.next => u.info[t] = v.info[t]
<1>. DEFINE n == v.next
<1>1. v \in Workspaces /\ n \in Tabs /\ n \in Nat
  BY WorkBounds DEF Shape
<1>2. u = [v EXCEPT !.tabs[c] = Append(@, n), !.next = @ + 1, !.info[n] = info]
  BY DEF Add
<1>3. /\ v.tabs[c] \in Seq(Tabs) /\ Append(v.tabs[c], n) \in Seq(Tabs)
      /\ n + 1 \in 1 .. MaxTabs + 1 /\ info \in Infos
  BY <1>1, FieldsAre, WorkBounds DEF Tabs, Fits
<1>4. Added(u, v, c, info) /\ u.next \in Nat
  <2>. DEFINE tabs  == [v.tabs EXCEPT ![c] = Append(v.tabs[c], n)]
              infos == [v.info EXCEPT ![n] = info]
  <2>1. tabs \in [Conns -> Seq(Tabs)] /\ infos \in [Tabs -> Infos]
    BY <1>1, <1>3, FieldsAre
  <2>2. u = [v EXCEPT !.tabs = tabs, !.next = n + 1, !.info = infos]
    BY <1>1, <1>2, FieldsAre DEF Workspaces
  <2>. HIDE DEF tabs, infos
  <2>3. /\ u \in Workspaces /\ u.tabs = tabs /\ u.next = n + 1 /\ u.info = infos
        /\ u.attached = v.attached /\ u.active = v.active /\ u.visible = v.visible
        /\ u.used = v.used /\ u.bottom = v.bottom /\ u.loaded = v.loaded /\ u.dirty = v.dirty
        /\ u.asking = v.asking /\ u.cascade = v.cascade /\ u.marked = v.marked /\ u.evicted = v.evicted
    BY <1>1, <1>3, <2>1, <2>2 DEF Workspaces
  <2>. QED BY <1>1, <2>3 DEF Added, tabs, infos
<1>. HIDE DEF n
<1>5. /\ u.tabs[c] = Append(v.tabs[c], n) /\ \A d \in Conns : d # c => u.tabs[d] = v.tabs[d]
      /\ u.info[n] = info /\ \A t \in Tabs : t # n => u.info[t] = v.info[t]
  BY <1>1, <1>4, FieldsAre DEF Added, n
<1>6. ToSet(u.tabs[c]) = ToSet(v.tabs[c]) \cup {n}
  BY <1>1, <1>3, <1>5 DEF ToSet
<1>7. \A d \in Conns : n \notin ToSet(v.tabs[d]) /\ \A t \in ToSet(v.tabs[d]) : t \in Tabs /\ t < n
  <2>1. \A d \in Conns : \A t \in ToSet(v.tabs[d]) : t \in Tabs /\ t < n
    BY OpenIs DEF n
  <2>. QED BY <1>1, <2>1
<1>8. Open(u) = Open(v) \cup {n} /\ n \notin Open(v)
  <2>1. Open(u) \subseteq Open(v) \cup {n}
    BY <1>5, <1>6 DEF Open
  <2>2. n \in ToSet(u.tabs[c]) /\ \A d \in Conns : ToSet(v.tabs[d]) \subseteq ToSet(u.tabs[d])
    BY <1>5, <1>6
  <2>3. Open(v) \cup {n} \subseteq Open(u)
    BY <2>2 DEF Open
  <2>4. n \notin Open(v)
    BY <1>7 DEF Open
  <2>. QED BY <2>1, <2>3, <2>4
<1>9. OrderInv(u)
  <2>1. ASSUME NEW d \in Conns PROVE Increasing(u.tabs[d]) /\ \A t \in ToSet(u.tabs[d]) : t < u.next
    <3>1. Increasing(v.tabs[d])
      BY DEF Shape, OrderInv
    <3>4. u.next = n + 1 /\ \A t \in Tabs : t < n => t < n + 1
      BY <1>1, <1>4, WorkBounds DEF Added, n
    <3>2. CASE d # c
      BY <1>5, <1>7, <3>1, <3>2, <3>4
    <3>3. CASE d = c
      <4>. DEFINE q == v.tabs[c]
                  l == Len(q)
      <4>1. q \in Seq(Tabs) /\ l \in Nat /\ DOMAIN q = 1 .. l /\ \A i \in 1 .. l : q[i] < n
        BY <1>3, <1>7 DEF ToSet
      <4>2. DOMAIN Append(q, n) = 1 .. l + 1 /\ Append(q, n)[l + 1] = n
            /\ \A i \in 1 .. l : Append(q, n)[i] = q[i]
        BY <1>1, <4>1
      <4>. HIDE DEF q, l
      <4>3. \A i, j \in 1 .. l + 1 : i < j => Append(q, n)[i] < Append(q, n)[j]
        <5>. SUFFICES ASSUME NEW i \in 1 .. l + 1, NEW j \in 1 .. l + 1, i < j
                      PROVE  Append(q, n)[i] < Append(q, n)[j]
          OBVIOUS
        <5>1. i \in 1 .. l
          BY <4>1
        <5>2. CASE j = l + 1
          BY <4>1, <4>2, <5>1, <5>2
        <5>3. CASE j # l + 1
          <6>1. j \in 1 .. l
            BY <4>1, <5>3
          <6>. QED BY <3>1, <3>3, <4>1, <4>2, <5>1, <6>1 DEF Increasing, q
        <5>. QED BY <5>2, <5>3
      <4>4. Increasing(u.tabs[d])
        BY <1>5, <3>3, <4>2, <4>3 DEF Increasing, q
      <4>5. \A t \in ToSet(u.tabs[d]) : t < u.next
        <5>1. n < n + 1
          BY <1>1
        <5>. QED BY <1>6, <1>7, <3>3, <3>4, <5>1
      <4>. QED BY <4>4, <4>5
    <3>. QED BY <3>2, <3>3
  <2>2. ASSUME NEW d \in Conns, NEW e \in Conns, NEW t \in ToSet(u.tabs[d]), t \in ToSet(u.tabs[e])
        PROVE  d = e
    <3>1. CASE t = n
      BY <1>5, <1>7, <2>2, <3>1
    <3>2. CASE t # n
      <4>1. t \in ToSet(v.tabs[d]) /\ t \in ToSet(v.tabs[e])
        BY <1>5, <1>6, <2>2, <3>2
      <4>. QED BY <4>1 DEF Shape, OrderInv
    <3>. QED BY <3>1, <3>2
  <2>3. IsInjective(u.used)
    BY <1>4 DEF Shape, OrderInv, Added
  <2>. QED BY <2>1, <2>2, <2>3 DEF OrderInv
<1>10. InfoInv(u)
  <2>1. \A t \in Tabs : IF t \in Open(u) THEN u.info[t].type # "none" ELSE u.info[t] = NoTab
    BY <1>5, <1>8 DEF Shape, InfoInv, Fits
  <2>2. \A t \in Tabs : u.info[t].type \in {"table", "object"} <=> u.info[t].name \in Names
    BY <1>5 DEF Shape, InfoInv, Fits
  <2>3. ASSUME NEW d \in Conns, NEW t \in ToSet(u.tabs[d]), u.info[t].parent # None
        PROVE  Scoped(u, d, t)
    <3>1. CASE t = n
      <4>1. d = c /\ u.info[t] = info
        <5>1. d = c
          <6>1. CASE d # c
            BY <1>5, <1>7, <3>1, <6>1
          <6>. QED BY <6>1
        <5>. QED BY <1>5, <3>1, <5>1
      <4>2. /\ info.type = "table" /\ info.parent \in ToSet(v.tabs[c])
            /\ v.info[info.parent].type = "query"
        BY <2>3, <4>1 DEF Fits
      <4>3. info.parent \in Tabs /\ info.parent # n
        BY <1>7, <4>2
      <4>. QED BY <1>5, <1>6, <3>1, <4>1, <4>2, <4>3 DEF Scoped
    <3>2. CASE t # n
      <4>1. t \in ToSet(v.tabs[d]) /\ t \in Tabs /\ u.info[t] = v.info[t]
        <5>1. t \in ToSet(v.tabs[d])
          <6>1. CASE d = c
            BY <1>6, <3>2, <6>1
          <6>2. CASE d # c
            BY <1>5, <6>2
          <6>. QED BY <6>1, <6>2
        <5>. QED BY <1>5, <1>7, <3>2, <5>1
      <4>2. Scoped(v, d, t)
        BY <2>3, <4>1 DEF Shape, InfoInv
      <4>3. v.info[t].parent \in ToSet(v.tabs[d]) /\ v.info[t].parent \in Tabs /\ v.info[t].parent # n
        BY <1>7, <4>2 DEF Scoped
      <4>4. v.info[t].parent \in ToSet(u.tabs[d]) /\ u.info[v.info[t].parent] = v.info[v.info[t].parent]
        BY <1>5, <1>6, <4>3
      <4>. QED BY <4>1, <4>2, <4>4 DEF Scoped
    <3>. QED BY <3>1, <3>2
  <2>4. ASSUME NEW t \in Tabs PROVE u.info[t].parent < t
    <3>1. CASE t # n
      BY <1>5, <3>1 DEF Shape, InfoInv
    <3>2. CASE t = n
      <4>1. info.parent # None => info.parent < n
        BY <1>7 DEF Fits
      <4>2. None < n
        BY <1>1, WorkBounds DEF Tabs, None
      <4>. QED BY <1>5, <3>2, <4>1, <4>2
    <3>. QED BY <3>1, <3>2
  <2>. QED BY <2>1, <2>2, <2>3, <2>4 DEF InfoInv
<1>11. OnceInv(u)
  <2>. SUFFICES ASSUME NEW d \in Conns, NEW s \in ToSet(u.tabs[d]), NEW t \in ToSet(u.tabs[d]),
                       s # t, u.info[s] = u.info[t]
                PROVE  u.info[s].type = "query"
    BY DEF OnceInv
  <2>1. CASE s # n /\ t # n
    <3>1. s \in ToSet(v.tabs[d]) /\ t \in ToSet(v.tabs[d])
      BY <1>5, <1>6, <2>1
    <3>2. s \in Tabs /\ t \in Tabs
      BY <1>7, <3>1
    <3>. QED BY <1>5, <2>1, <3>1, <3>2 DEF Shape, OnceInv
  <2>2. CASE s = n \/ t = n
    <3>1. d = c /\ u.info[s] = info
      BY <1>5, <1>7, <2>2
    <3>2. \E x \in ToSet(v.tabs[c]) : v.info[x] = info
      <4>1. CASE s = n
        <5>1. t \in ToSet(v.tabs[c]) /\ t \in Tabs
          BY <1>6, <1>7, <3>1, <4>1
        <5>. QED BY <1>5, <3>1, <4>1, <5>1
      <4>2. CASE s # n
        <5>1. s \in ToSet(v.tabs[c]) /\ s \in Tabs
          BY <1>6, <1>7, <3>1, <4>2
        <5>. QED BY <1>5, <3>1, <4>2, <5>1
      <4>. QED BY <4>1, <4>2
    <3>. QED BY <3>1, <3>2 DEF Fits
  <2>. QED BY <2>1, <2>2
<1>12. ActiveInv(u)
  <2>1. ASSUME NEW d \in Conns, u.active[d] # None
        PROVE  u.active[d] \in ToSet(u.tabs[d]) /\ u.info[u.active[d]].parent = None
    <3>1. v.active[d] \in ToSet(v.tabs[d]) /\ v.info[v.active[d]].parent = None
      BY <1>4, <2>1 DEF Shape, ActiveInv, Added
    <3>2. v.active[d] \in Tabs /\ v.active[d] # n
      BY <1>7, <3>1
    <3>. QED BY <1>4, <1>5, <1>6, <3>1, <3>2 DEF Added
  <2>. QED BY <1>4, <2>1 DEF Shape, ActiveInv, Added
<1>13. BottomInv(u)
  <2>. SUFFICES ASSUME NEW q \in Tabs, v.bottom[q] # None
                PROVE  /\ u.info[q].type = "query" /\ v.bottom[q] < u.next
                       /\ v.bottom[q] \in Open(u) => u.info[v.bottom[q]].type = "table"
                       /\ \A d \in Conns : v.bottom[q] \in ToSet(u.tabs[d]) => q \in ToSet(u.tabs[d])
    BY <1>4 DEF BottomInv, Added
  <2>1. /\ v.info[q].type = "query" /\ v.bottom[q] < v.next
        /\ v.bottom[q] \in Open(v) => v.info[v.bottom[q]].type = "table"
        /\ \A d \in Conns : v.bottom[q] \in ToSet(v.tabs[d]) => q \in ToSet(v.tabs[d])
    BY DEF Shape, BottomInv
  <2>2. q # n /\ v.bottom[q] \in Tabs /\ v.bottom[q] # n
    <3>1. q \in Open(v)
      BY <2>1 DEF Shape, InfoInv, NoTab
    <3>2. v.bottom[q] \in Tabs
      BY <1>1, FieldsAre, WorkBounds DEF Tabs, None
    <3>3. v.bottom[q] \in Nat
      BY <3>2, WorkBounds
    <3>. QED BY <1>1, <1>8, <2>1, <3>1, <3>2, <3>3 DEF n
  <2>3. v.bottom[q] < n + 1
    <3>1. v.bottom[q] \in Nat
      BY <2>2, WorkBounds
    <3>. QED BY <1>1, <2>1, <3>1 DEF n
  <2>. QED BY <1>4, <1>5, <1>6, <1>8, <2>1, <2>2, <2>3 DEF Added
<1>14. RowsInv(u)
  <2>1. \A t \in v.loaded : t \in Tabs /\ t # n
    BY <1>1, <1>8, FieldsAre DEF Shape, RowsInv
  <2>. QED BY <1>4, <1>5, <1>8, <2>1 DEF Shape, RowsInv, Added
<1>15. Marks(v) => Marks(u)
  <2>1. \A a \in Tabs : v.visible # NoConn /\ a = v.active[v.visible] => a # n
    <3>. SUFFICES ASSUME v.visible # NoConn, v.active[v.visible] \in Tabs
                  PROVE  v.active[v.visible] # n
      OBVIOUS
    <3>1. v.visible \in Conns /\ v.active[v.visible] # None
      BY <1>1, FieldsAre, WorkBounds
    <3>2. v.active[v.visible] \in ToSet(v.tabs[v.visible])
      BY <3>1 DEF Shape, ActiveInv
    <3>. QED BY <1>7, <3>1, <3>2
  <2>2. Screen(u) = Screen(v)
    BY <1>4, <1>5, <2>1, ScreenFrame DEF Added
  <2>. QED BY <1>4, <2>2 DEF Marks, Added
<1>. QED BY <1>4, <1>5, <1>6, <1>9, <1>10, <1>11, <1>12, <1>13, <1>14, <1>15 DEF Shape, Added, n


----------
(* Tabs close. *)

(* The tabs of gone are, with all there was of them. *)
Pruned(u, v, gone) ==
  /\ u \in Workspaces /\ u.next = v.next /\ IsInjective(u.used)
  /\ \A d \in Conns : Increasing(u.tabs[d]) /\ ToSet(u.tabs[d]) = ToSet(v.tabs[d]) \ gone
  /\ \A t \in Tabs : u.info[t] = IF t \in gone THEN NoTab ELSE v.info[t]
  /\ \A t \in Tabs : u.bottom[t] = IF t \in gone THEN None ELSE v.bottom[t]
  /\ u.loaded = v.loaded \ gone /\ u.dirty = v.dirty \ gone
  /\ u.asking \in {v.asking, None} \ gone /\ u.cascade \in {v.cascade, NoCascade}

(* No tab stays whose query tab goes.                                      *)
Whole(v, gone) == \A t \in Open(v) \ gone : v.info[t].parent \notin gone

LEMMA PrunedOpen ==
  ASSUME NEW v, NEW u, NEW gone, Pruned(u, v, gone)
  PROVE  Open(u) = Open(v) \ gone
BY DEF Pruned, Open

LEMMA PrunedIs ==
  ASSUME NEW v, Shape(v), NEW gone \in SUBSET Tabs, Whole(v, gone), NEW u, Pruned(u, v, gone),
         ActiveInv(u), u.marked \subseteq u.loaded, u.evicted \subseteq v.evicted \cap u.loaded,
         u.marked \cap u.evicted = {}
  PROVE  Shape(u)
<1>1. Open(u) = Open(v) \ gone
  BY PrunedOpen
<1>2. OrderInv(u)
  BY DEF Shape, OrderInv, Pruned
<1>3. InfoInv(u)
  <2>1. \A t \in Tabs : IF t \in Open(u) THEN u.info[t].type # "none" ELSE u.info[t] = NoTab
    BY <1>1 DEF Shape, InfoInv, Pruned
  <2>2. ASSUME NEW t \in Tabs PROVE u.info[t].type \in {"table", "object"} <=> u.info[t].name \in Names
    <3>1. CASE t \in gone
      BY <3>1, WorkspaceAssumption DEF Pruned, NoTab
    <3>2. CASE t \notin gone
      BY <3>2 DEF Shape, InfoInv, Pruned
    <3>. QED BY <3>1, <3>2
  <2>3. ASSUME NEW d \in Conns, NEW t \in ToSet(u.tabs[d]), u.info[t].parent # None
        PROVE  Scoped(u, d, t)
    <3>1. t \in ToSet(v.tabs[d]) /\ t \notin gone
      BY DEF Pruned
    <3>2. t \in Tabs /\ t \in Open(v) \ gone
      BY <3>1, OpenIs
    <3>3. u.info[t] = v.info[t]
      BY <3>1, <3>2 DEF Pruned
    <3>4. Scoped(v, d, t)
      BY <2>3, <3>1, <3>3 DEF Shape, InfoInv
    <3>. DEFINE p == v.info[t].parent
    <3>5. p \in ToSet(v.tabs[d]) /\ p \notin gone
      BY <3>2, <3>4 DEF Scoped, Whole
    <3>6. p \in ToSet(u.tabs[d]) /\ p \in Tabs
      BY <3>5, OpenIs DEF Pruned
    <3>7. u.info[p] = v.info[p]
      BY <3>5, <3>6 DEF Pruned
    <3>. QED BY <3>3, <3>4, <3>6, <3>7 DEF Scoped
  <2>4. \A t \in Tabs : u.info[t].parent < t
    BY WorkBounds DEF Shape, InfoInv, Pruned, NoTab, Tabs, None
  <2>. QED BY <2>1, <2>2, <2>3, <2>4 DEF InfoInv
<1>4. OnceInv(u)
  <2>. SUFFICES ASSUME NEW d \in Conns, NEW s \in ToSet(u.tabs[d]), NEW t \in ToSet(u.tabs[d]),
                       s # t, u.info[s] = u.info[t]
                PROVE  u.info[s].type = "query"
    BY DEF OnceInv
  <2>1. s \in ToSet(v.tabs[d]) \ gone /\ t \in ToSet(v.tabs[d]) \ gone
    BY DEF Pruned
  <2>2. s \in Tabs /\ t \in Tabs
    BY <2>1, OpenIs
  <2>3. u.info[s] = v.info[s] /\ u.info[t] = v.info[t]
    BY <2>1, <2>2 DEF Pruned
  <2>. QED BY <2>1, <2>3 DEF Shape, OnceInv
<1>5. BottomInv(u)
  <2>. SUFFICES ASSUME NEW q \in Tabs, u.bottom[q] # None
                PROVE  /\ u.info[q].type = "query" /\ u.bottom[q] < u.next
                       /\ u.bottom[q] \in Open(u) => u.info[u.bottom[q]].type = "table"
                       /\ \A c \in Conns : u.bottom[q] \in ToSet(u.tabs[c]) => q \in ToSet(u.tabs[c])
    BY DEF BottomInv
  <2>1. q \notin gone /\ u.bottom[q] = v.bottom[q] /\ u.info[q] = v.info[q]
    BY DEF Pruned
  <2>. DEFINE b == v.bottom[q]
  <2>2. /\ v.info[q].type = "query" /\ b < v.next
        /\ b \in Open(v) => v.info[b].type = "table"
        /\ \A c \in Conns : b \in ToSet(v.tabs[c]) => q \in ToSet(v.tabs[c])
    BY <2>1 DEF Shape, BottomInv
  <2>3. b \in Tabs
    BY <2>1, FieldsAre, WorkBounds DEF Shape, Tabs, None
  <2>. HIDE DEF b
  <2>4. b \in Open(u) => u.info[b].type = "table"
    BY <1>1, <2>2, <2>3 DEF Pruned
  <2>5. \A c \in Conns : b \in ToSet(u.tabs[c]) => q \in ToSet(u.tabs[c])
    BY <2>1, <2>2 DEF Pruned
  <2>. QED BY <2>1, <2>2, <2>4, <2>5 DEF Pruned, b
<1>6. RowsInv(u)
  <2>1. \A t \in u.loaded : u.info[t].type \in {"table", "query"}
    BY FieldsAre DEF Shape, RowsInv, Pruned
  <2>. QED BY <1>1, <2>1 DEF Shape, RowsInv, Pruned
<1>. QED BY <1>2, <1>3, <1>4, <1>5, <1>6 DEF Shape, Pruned

LEMMA PrunedDialog ==
  ASSUME NEW v, Shape(v), NEW gone \in SUBSET Tabs, NEW u, Pruned(u, v, gone), NEW b,
         DialogInv(v, b), PanelInv(v, b)
  PROVE  DialogInv(u, b) /\ PanelInv(u, b)
<1>1. Open(u) = Open(v) \ gone
  BY PrunedOpen
<1>2. \A t \in Tabs : u.info[t].parent \in {v.info[t].parent, None}
  BY DEF Pruned, NoTab
<1>3. PanelInv(u, b)
  BY <1>2 DEF PanelInv
<1>4. u.asking # None => u.asking \in Open(u) /\ \A t \in Tabs : u.info[t].parent # u.asking
  BY <1>1, <1>2 DEF DialogInv, Pruned
<1>5. u.cascade # NoCascade => u.cascade = v.cascade /\ v.cascade # NoCascade
  BY DEF Pruned
<1>6. u.cascade # NoCascade => \A t \in Tabs : u.info[t].parent = u.cascade.query => t \in ToSet(u.cascade.children)
  BY <1>2, <1>5 DEF DialogInv
<1>7. u.cascade # NoCascade => \A t \in ToSet(u.cascade.children) : t \in Open(u) => u.info[t].type = "table"
  <2>1. \A t \in Open(u) : t \in Tabs /\ u.info[t] = v.info[t]
    <3>1. \A t \in Open(v) : t \in Tabs
      BY OpenIs DEF Open
    <3>. QED BY <1>1, <3>1 DEF Pruned
  <2>. QED BY <1>1, <1>5, <2>1 DEF DialogInv
<1>9. u.cascade # NoCascade /\ u.cascade.query \in Open(u) => u.info[u.cascade.query].type = "query"
  <2>1. \A t \in Open(u) : t \in Tabs /\ u.info[t] = v.info[t]
    <3>1. \A t \in Open(v) : t \in Tabs
      BY OpenIs DEF Open
    <3>. QED BY <1>1, <3>1 DEF Pruned
  <2>. QED BY <1>1, <1>5, <2>1 DEF DialogInv
<1>8. (u.asking # None \/ u.cascade # NoCascade) /\ b => Tight(u)
  <2>. SUFFICES ASSUME Tight(v), NEW q \in Tabs, u.bottom[q] \in Open(u)
                PROVE  u.info[u.bottom[q]].parent = q
    BY DEF DialogInv, Pruned, Tight
  <2>1. \A t \in Open(v) : t \in Tabs
    BY OpenIs DEF Open
  <2>2. u.bottom[q] \in Open(v) \ gone /\ u.bottom[q] # None
    BY <1>1, <2>1, WorkBounds
  <2>3. u.bottom[q] = v.bottom[q]
    BY <2>2 DEF Pruned
  <2>. QED BY <2>1, <2>2, <2>3 DEF Pruned, Tight
<1>. QED BY <1>3, <1>4, <1>5, <1>6, <1>7, <1>8, <1>9 DEF DialogInv

LEMMA PrunedTwice ==
  ASSUME NEW v, NEW u, NEW x, NEW g \in SUBSET Tabs, NEW h \in SUBSET Tabs,
         Pruned(u, v, g), Pruned(x, u, h)
  PROVE  Pruned(x, v, g \cup h)
<1>1. \A d \in Conns : Increasing(x.tabs[d]) /\ ToSet(x.tabs[d]) = ToSet(v.tabs[d]) \ (g \cup h)
  BY DEF Pruned
<1>2. /\ \A t \in Tabs : x.info[t] = IF t \in g \cup h THEN NoTab ELSE v.info[t]
      /\ \A t \in Tabs : x.bottom[t] = IF t \in g \cup h THEN None ELSE v.bottom[t]
  BY DEF Pruned
<1>3. x.asking \in {v.asking, None} \ (g \cup h)
  BY WorkBounds DEF Pruned
<1>. QED BY <1>1, <1>2, <1>3 DEF Pruned

LEMMA NextActiveIs ==
  ASSUME NEW v, NEW rest \in Seq(Tabs), NEW t, NEW i \in Nat \ {0}
  PROVE  NextActive(v, rest, t, i) \in ToSet(rest) \cup {None}
<1>. DEFINE n     == Len(rest)
            same  == {j \in DOMAIN rest : Stack(v, t) # "none" /\ Stack(v, rest[j]) = Stack(v, t)}
            after == {j \in same : j >= i}
<1>1. n \in Nat /\ DOMAIN rest = 1 .. n
  OBVIOUS
<1>2. same \subseteq 1 .. n /\ after \subseteq same
  BY <1>1
<1>3. NextActive(v, rest, t, i) = CASE rest = <<>> -> None
        [] rest # <<>> /\ after # {} -> rest[Min(after)]
        [] rest # <<>> /\ after = {} /\ same # {} -> rest[Max(same)]
        [] OTHER -> rest[Min({i, n})]
  BY DEF NextActive
<1>. HIDE DEF same, after
<1>4. after # {} => Min(after) \in 1 .. n
  <2>1. after \subseteq Nat
    BY <1>1, <1>2
  <2>. QED BY <1>2, <2>1, MinOf
<1>5. same # {} => Max(same) \in 1 .. n
  BY <1>1, <1>2, MaxOf
<1>6. rest # <<>> => Min({i, n}) \in 1 .. n
  <2>1. {i, n} \subseteq Nat
    BY <1>1
  <2>2. Min({i, n}) \in {i, n} /\ Min({i, n}) <= n
    BY <2>1, MinOf
  <2>3. rest # <<>> => n >= 1
    BY <1>1
  <2>. HIDE DEF n
  <2>. QED BY <1>1, <2>2, <2>3
<1>7. \A j \in 1 .. n : rest[j] \in ToSet(rest)
  BY <1>1 DEF ToSet
<1>. HIDE DEF n
<1>. QED BY <1>3, <1>4, <1>5, <1>6, <1>7

(* The next tab is one that stays, and is no scoped child.                 *)
NextOf(v, c, rest, a, i) == Normal([v EXCEPT !.tabs[c] = rest], NextActive(v, rest, a, i))

LEMMA NextIs ==
  ASSUME NEW v, Shape(v), NEW c \in Conns, NEW gone \in SUBSET Tabs, Whole(v, gone),
         NEW rest \in Seq(Tabs), ToSet(rest) = ToSet(v.tabs[c]) \ gone, NEW a, NEW i \in Nat \ {0},
         NEW t, t = NextOf(v, c, rest, a, i)
  PROVE  t \in 0 .. MaxTabs /\ (t # None => t \in ToSet(rest) /\ v.info[t].parent = None)
<1>. DEFINE y == [v EXCEPT !.tabs[c] = rest]
            n == NextActive(v, rest, a, i)
<1>1. n \in ToSet(rest) \cup {None}
  BY NextActiveIs
<1>2. v \in Workspaces
  BY DEF Shape
<1>3. y.info = v.info /\ y.tabs[c] = rest /\ \A d \in Conns : d # c => y.tabs[d] = v.tabs[d]
  BY <1>2 DEF Workspaces
<1>4. t = IF n # None /\ y.info[n].parent \in Open(y) THEN y.info[n].parent ELSE n
  BY DEF NextOf, Normal
<1>. HIDE DEF n, y
<1>5. \A x \in ToSet(rest) : x \in ToSet(v.tabs[c]) /\ x \in Tabs /\ x \in 0 .. MaxTabs /\ x \in Open(v) \ gone
  BY OpenIs, WorkBounds DEF Tabs
<1>6. CASE n = None
  BY <1>4, <1>6, WorkBounds DEF None
<1>7. CASE n # None
  <2>. DEFINE p == v.info[n].parent
  <2>1. n \in ToSet(rest)
    BY <1>1, <1>7
  <2>2. CASE p = None
    <3>1. None \notin Open(y)
      <4>1. \A d \in Conns : None \notin ToSet(v.tabs[d])
        BY OpenIs, WorkBounds
      <4>2. None \notin ToSet(rest)
        BY <4>1
      <4>. QED BY <1>3, <4>1, <4>2 DEF Open
    <3>. QED BY <1>3, <1>4, <1>5, <2>1, <2>2, <3>1
  <2>3. CASE p # None
    <3>1. p \in ToSet(v.tabs[c]) /\ v.info[p].type = "query"
      BY <1>5, <2>1, <2>3 DEF Shape, InfoInv, Scoped
    <3>2. p \in ToSet(rest)
      BY <1>5, <2>1, <3>1 DEF Whole
    <3>3. t = p
      <4>1. p \in Open(y)
        BY <1>3, <3>2 DEF Open
      <4>. QED BY <1>3, <1>4, <1>7, <4>1
    <3>4. v.info[p].parent = None
      BY <3>1 DEF Shape, InfoInv, Scoped
    <3>. QED BY <1>5, <3>2, <3>3, <3>4
  <2>. QED BY <2>2, <2>3
<1>. QED BY <1>6, <1>7

LEMMA ForgetIs ==
  ASSUME NEW v \in Workspaces, NEW gone \in SUBSET Tabs, NEW u, u = Forget(v, gone)
  PROVE  /\ u \in Workspaces /\ (IsInjective(v.used) => IsInjective(u.used))
         /\ u.attached = v.attached /\ u.tabs = v.tabs /\ u.active = v.active /\ u.visible = v.visible
         /\ u.cascade = v.cascade /\ u.next = v.next
         /\ \A t \in Tabs : u.info[t] = IF t \in gone THEN NoTab ELSE v.info[t]
         /\ \A t \in Tabs : u.bottom[t] = IF t \in gone THEN None ELSE v.bottom[t]
         /\ u.loaded = v.loaded \ gone /\ u.marked = v.marked \ gone /\ u.evicted = v.evicted \ gone
         /\ u.dirty = v.dirty \ gone /\ u.asking = IF v.asking \in gone THEN None ELSE v.asking
<1>. DEFINE info   == [t \in Tabs |-> IF t \in gone THEN NoTab ELSE v.info[t]]
            bottom == [t \in Tabs |-> IF t \in gone THEN None ELSE v.bottom[t]]
            used   == Only(v.used, Tabs \ gone)
            asking == IF v.asking \in gone THEN None ELSE v.asking
<1>1. NoTab \in Infos /\ None \in 0 .. MaxTabs
  BY WorkBounds DEF NoTab, Infos, None
<1>2. /\ info \in [Tabs -> Infos] /\ bottom \in [Tabs -> 0 .. MaxTabs] /\ asking \in 0 .. MaxTabs
      /\ used \in Seq(Tabs) /\ (IsInjective(v.used) => IsInjective(used))
  BY <1>1, FieldsAre, OnlyIs
<1>3. u = [v EXCEPT !.info = info, !.bottom = bottom, !.used = used, !.loaded = v.loaded \ gone,
                    !.marked = v.marked \ gone, !.evicted = v.evicted \ gone,
                    !.dirty = v.dirty \ gone, !.asking = asking]
  BY DEF Forget, Workspaces
<1>4. /\ \A t \in Tabs : info[t] = IF t \in gone THEN NoTab ELSE v.info[t]
      /\ \A t \in Tabs : bottom[t] = IF t \in gone THEN None ELSE v.bottom[t]
  OBVIOUS
<1>. DEFINE loaded  == v.loaded \ gone
            marked  == v.marked \ gone
            evicted == v.evicted \ gone
            dirty   == v.dirty \ gone
<1>5. {loaded, marked, evicted, dirty} \subseteq SUBSET Tabs
  BY FieldsAre
<1>6. u = [v EXCEPT !.info = info, !.bottom = bottom, !.used = used, !.loaded = loaded,
                    !.marked = marked, !.evicted = evicted, !.dirty = dirty, !.asking = asking]
  BY <1>3
<1>. HIDE DEF info, bottom, used, asking, loaded, marked, evicted, dirty
<1>. DEFINE x == [v EXCEPT !.info = info, !.bottom = bottom, !.used = used, !.asking = asking]
<1>7. u \in Workspaces
  <2>1. x \in Workspaces
    BY <1>2 DEF Workspaces
  <2>. DEFINE y == [x EXCEPT !.loaded = loaded, !.marked = marked]
  <2>2. u = [y EXCEPT !.evicted = evicted, !.dirty = dirty]
    BY <1>6 DEF Workspaces
  <2>. HIDE DEF x
  <2>3. y \in Workspaces
    BY <1>5, <2>1 DEF Workspaces
  <2>. HIDE DEF y
  <2>. QED BY <1>5, <2>2, <2>3 DEF Workspaces
<1>8. /\ u.info = info /\ u.bottom = bottom /\ u.asking = asking /\ u.used = used
      /\ u.attached = v.attached /\ u.tabs = v.tabs /\ u.active = v.active /\ u.visible = v.visible
      /\ u.cascade = v.cascade /\ u.next = v.next
  BY <1>6 DEF Workspaces
<1>9. u.loaded = loaded /\ u.marked = marked /\ u.evicted = evicted /\ u.dirty = dirty
  BY <1>6 DEF Workspaces
<1>. QED BY <1>2, <1>4, <1>7, <1>8, <1>9 DEF asking, loaded, marked, evicted, dirty


LEMMA ClosedIs ==
  ASSUME NEW v, Shape(v), NEW c \in Conns, NEW t \in ToSet(v.tabs[c]), Whole(v, {t}), NEW previous,
         NEW u, u = Closed(v, c, t, previous)
  PROVE  /\ Shape(u) /\ Pruned(u, v, {t}) /\ u.visible = v.visible /\ u.attached = v.attached
         /\ Marks(v) /\ (SurfaceOf(v, t) \in v.loaded => SurfaceOf(v, t) \in {t, previous}) => Marks(u)
<1>. DEFINE i    == CHOOSE j \in DOMAIN v.tabs[c] : v.tabs[c][j] = t
            rest == Without(v.tabs[c], t)
            next == IF v.active[c] = t
                    THEN Normal([v EXCEPT !.tabs[c] = rest], NextActive(v, rest, t, i)) ELSE v.active[c]
            f    == Forget(v, {t})
            k    == IF f.cascade.query = t THEN NoCascade ELSE f.cascade
            x    == [f EXCEPT !.tabs[c] = rest, !.active[c] = next, !.cascade = k]
<1>1. v \in Workspaces /\ t \in Tabs /\ v.tabs[c] \in Seq(Tabs)
  BY OpenIs, FieldsAre DEF Shape
<1>2. i \in Nat \ {0}
  <2>1. \E j \in DOMAIN v.tabs[c] : v.tabs[c][j] = t
    BY DEF ToSet
  <2>2. i \in DOMAIN v.tabs[c]
    BY <2>1
  <2>. HIDE DEF i
  <2>. QED BY <1>1, <2>2
<1>3. rest \in Seq(Tabs) /\ ToSet(rest) = ToSet(v.tabs[c]) \ {t} /\ Increasing(rest)
  <2>1. Only(v.tabs[c], Tabs \ {t}) = rest
    BY DEF Without
  <2>2. ToSet(v.tabs[c]) \subseteq Tabs /\ Increasing(v.tabs[c])
    BY OpenIs DEF Shape, OrderInv
  <2>. HIDE DEF rest
  <2>3. rest \in Seq(Tabs) /\ ToSet(rest) = ToSet(v.tabs[c]) \cap (Tabs \ {t})
    BY <1>1, <2>1, OnlyIs
  <2>4. Increasing(rest)
    <3>1. Tabs \subseteq Nat
      BY WorkBounds
    <3>. QED BY <1>1, <2>1, <2>2, <3>1, OnlyIs
  <2>. QED BY <2>2, <2>3, <2>4
<1>. HIDE DEF i, rest
<1>4. next \in 0 .. MaxTabs /\ (next # None => next \in ToSet(rest) /\ v.info[next].parent = None)
  <2>1. CASE v.active[c] = t
    <3>1. next = NextOf(v, c, rest, t, i)
      BY <2>1 DEF NextOf
    <3>. HIDE DEF next
    <3>. QED BY <1>1, <1>2, <1>3, <3>1, NextIs
  <2>2. CASE v.active[c] # t
    <3>1. next = v.active[c]
      BY <2>2
    <3>. HIDE DEF next
    <3>. QED BY <1>1, <1>3, <2>2, <3>1, FieldsAre DEF Shape, ActiveInv
  <2>. QED BY <2>1, <2>2
<1>5. u = IF v.active[c] = t THEN Finalize(x, c, previous, next) ELSE x
  BY DEF Closed, i, rest
<1>6. next # v.active[c] => v.active[c] = t
  OBVIOUS
<1>. HIDE DEF next
<1>7. /\ f \in Workspaces /\ (IsInjective(v.used) => IsInjective(f.used))
      /\ f.attached = v.attached /\ f.tabs = v.tabs /\ f.active = v.active /\ f.visible = v.visible
      /\ f.cascade = v.cascade /\ f.next = v.next
      /\ \A a \in Tabs : f.info[a] = IF a \in {t} THEN NoTab ELSE v.info[a]
      /\ \A a \in Tabs : f.bottom[a] = IF a \in {t} THEN None ELSE v.bottom[a]
      /\ f.loaded = v.loaded \ {t} /\ f.marked = v.marked \ {t} /\ f.evicted = v.evicted \ {t}
      /\ f.dirty = v.dirty \ {t} /\ f.asking = IF v.asking \in {t} THEN None ELSE v.asking
  BY <1>1, ForgetIs
<1>. HIDE DEF f
<1>8. /\ x \in Workspaces
      /\ x.attached = v.attached /\ x.tabs = [v.tabs EXCEPT ![c] = rest]
      /\ x.active = [v.active EXCEPT ![c] = next] /\ x.visible = v.visible
      /\ x.info = f.info /\ x.bottom = f.bottom /\ x.loaded = v.loaded \ {t}
      /\ x.marked = v.marked \ {t} /\ x.evicted = v.evicted \ {t} /\ x.dirty = f.dirty
      /\ x.asking = f.asking /\ x.cascade = k /\ x.next = v.next /\ x.used = f.used
  <2>. DEFINE tabs   == [v.tabs EXCEPT ![c] = rest]
              active == [v.active EXCEPT ![c] = next]
  <2>1. tabs \in [Conns -> Seq(Tabs)] /\ active \in [Conns -> 0 .. MaxTabs]
    BY <1>1, <1>3, <1>4, FieldsAre
  <2>2. k \in [query : 0 .. MaxTabs, children : Seq(Tabs)]
    <3>1. <<>> \in Seq(Tabs) /\ None \in 0 .. MaxTabs
      BY WorkBounds DEF None
    <3>. QED BY <1>7, <3>1, FieldsAre DEF NoCascade
  <2>3. x = [f EXCEPT !.tabs = tabs, !.active = active, !.cascade = k]
    BY <1>7 DEF Workspaces
  <2>. HIDE DEF tabs, active, k, x
  <2>4. x \in Workspaces
    BY <1>7, <2>1, <2>2, <2>3 DEF Workspaces
  <2>5. /\ x.attached = f.attached /\ x.tabs = tabs /\ x.active = active /\ x.visible = f.visible
        /\ x.info = f.info /\ x.bottom = f.bottom /\ x.loaded = f.loaded
        /\ x.marked = f.marked /\ x.evicted = f.evicted /\ x.dirty = f.dirty
        /\ x.asking = f.asking /\ x.cascade = k /\ x.next = f.next /\ x.used = f.used
    BY <1>7, <2>3 DEF Workspaces
  <2>. QED BY <1>7, <2>4, <2>5 DEF tabs, active
<1>9. k \in {v.cascade, NoCascade}
  BY <1>7
<1>. HIDE DEF x, k
<1>10. /\ x.tabs[c] = rest /\ \A d \in Conns : d # c => x.tabs[d] = v.tabs[d]
       /\ x.active[c] = next /\ \A d \in Conns : d # c => x.active[d] = v.active[d]
  BY <1>1, <1>8, FieldsAre
<1>11. \A d \in Conns : d # c => t \notin ToSet(v.tabs[d])
  BY OpenIs
<1>12. Pruned(x, v, {t})
  <2>1. ASSUME NEW d \in Conns PROVE Increasing(x.tabs[d]) /\ ToSet(x.tabs[d]) = ToSet(v.tabs[d]) \ {t}
    <3>1. CASE d = c
      BY <1>3, <1>10, <3>1
    <3>2. CASE d # c
      BY <1>10, <1>11, <3>2 DEF Shape, OrderInv
    <3>. QED BY <3>1, <3>2
  <2>2. x.asking \in {v.asking, None} \ {t}
    BY <1>1, <1>7, <1>8, WorkBounds
  <2>3. /\ \A a \in Tabs : x.info[a] = IF a \in {t} THEN NoTab ELSE v.info[a]
        /\ \A a \in Tabs : x.bottom[a] = IF a \in {t} THEN None ELSE v.bottom[a]
    BY <1>7, <1>8
  <2>4. IsInjective(x.used)
    BY <1>7, <1>8 DEF Shape, OrderInv
  <2>. QED BY <1>7, <1>8, <1>9, <2>1, <2>2, <2>3, <2>4 DEF Pruned
<1>13. ActiveInv(x)
  <2>1. ASSUME NEW d \in Conns, x.active[d] # None
        PROVE  x.active[d] \in ToSet(x.tabs[d]) /\ x.info[x.active[d]].parent = None
    <3>. DEFINE a == x.active[d]
    <3>1. a \in ToSet(x.tabs[d]) /\ v.info[a].parent = None
      <4>1. CASE d = c
        BY <1>4, <1>10, <2>1, <4>1
      <4>2. CASE d # c
        BY <1>10, <2>1, <4>2 DEF Shape, ActiveInv
      <4>. QED BY <4>1, <4>2
    <3>2. a \in ToSet(v.tabs[d]) \ {t}
      BY <1>12, <3>1 DEF Pruned
    <3>3. a \in Tabs
      BY <3>2, OpenIs
    <3>4. x.info[a] = v.info[a]
      BY <1>12, <3>2, <3>3 DEF Pruned
    <3>. QED BY <3>1, <3>4
  <2>. QED BY <1>8, <2>1 DEF Shape, ActiveInv
<1>14. Shape(x)
  <2>1. x.marked \subseteq x.loaded /\ x.evicted \subseteq v.evicted \cap x.loaded /\ x.marked \cap x.evicted = {}
    BY <1>8 DEF Shape, RowsInv
  <2>. QED BY <1>1, <1>12, <1>13, <2>1, PrunedIs
<1>15. CASE ~(v.active[c] = t /\ v.visible = c)
  <2>1. u = x
    BY <1>5, <1>8, <1>15 DEF Finalize
  <2>2. v.visible # NoConn => x.active[v.visible] = v.active[v.visible]
    BY <1>1, <1>6, <1>10, <1>15, FieldsAre
  <2>3. ASSUME NEW a \in Tabs, v.visible # NoConn, a = v.active[v.visible] PROVE a # t
    <3>1. v.visible \in Conns /\ v.active[v.visible] # None
      BY <1>1, <2>3, FieldsAre, WorkBounds
    <3>2. a \in ToSet(v.tabs[v.visible])
      BY <2>3, <3>1 DEF Shape, ActiveInv
    <3>. QED BY <1>11, <1>15, <2>3, <3>1, <3>2
  <2>4. Screen(x) = Screen(v)
    <3>1. \A a \in Tabs : v.visible # NoConn /\ a = v.active[v.visible] =>
            x.info[a].type = v.info[a].type /\ x.bottom[a] = v.bottom[a]
      BY <1>7, <1>8, <2>3
    <3>. QED BY <1>8, <2>2, <3>1, ScreenFrame
  <2>5. Marks(v) => Marks(x)
    BY <1>8, <2>4 DEF Marks
  <2>. QED BY <1>8, <1>12, <1>14, <2>1, <2>5
<1>16. CASE v.active[c] = t /\ v.visible = c
  <2>. DEFINE r == SurfaceOf(x, next)
              s == SurfaceOf(v, t)
  <2>1. u = Show(Hide(x, previous), r)
    BY <1>5, <1>8, <1>16 DEF Finalize
  <2>2. Screen(v) = s
    BY <1>16, WorkspaceAssumption DEF Screen
  <2>. HIDE DEF r, s
  <2>3. /\ Repainted(u, x) /\ u.marked = (x.marked \ {previous}) \cup ({r} \cap x.loaded)
        /\ u.evicted = x.evicted \ ({r} \cap x.loaded)
    BY <1>8, <2>1, SwapIs
  <2>4. RowsInv(u)
    BY <1>14, <2>3, RowsSwap DEF Shape
  <2>5. Shape(u)
    BY <1>14, <2>3, <2>4, RepaintKeeps
  <2>6. Pruned(u, v, {t})
    BY <1>12, <2>3 DEF Pruned, Repainted
  <2>7. Screen(u) = r
    <3>1. u.visible = c /\ u.visible # NoConn /\ u.active[u.visible] = next
      BY <1>8, <1>10, <1>16, <2>3, WorkspaceAssumption DEF Repainted
    <3>2. SurfaceOf(u, next) = r
      BY <2>3, SurfaceFrame DEF r, Repainted
    <3>. QED BY <3>1, <3>2 DEF Screen
  <2>8. ASSUME Marks(v), s \in v.loaded => s \in {t, previous} PROVE Marks(u)
    <3>1. v.marked = {s} \cap v.loaded
      BY <2>2, <2>8 DEF Marks
    <3>2. u.marked = {r} \cap x.loaded
      BY <1>8, <2>3, <2>8, <3>1
    <3>. QED BY <2>3, <2>7, <3>2 DEF Marks, Repainted
  <2>. QED BY <1>8, <2>3, <2>5, <2>6, <2>8 DEF Repainted, s
<1>. QED BY <1>15, <1>16

LEMMA ForceCloseIs ==
  ASSUME NEW v, Shape(v), NEW c \in Conns, NEW t \in Tabs,
         t \in ToSet(v.tabs[c]) => Whole(v, {t}), NEW u, u = ForceClose(v, c, t)
  PROVE  /\ Shape(u) /\ Pruned(u, v, {t} \cap ToSet(v.tabs[c]))
         /\ u.visible = v.visible /\ u.attached = v.attached
         /\ Marks(v) /\ (v.info[t].type = "query" => v.bottom[t] \notin v.loaded) => Marks(u)
<1>1. CASE t \notin ToSet(v.tabs[c])
  <2>1. u = v
    BY <1>1 DEF ForceClose
  <2>2. \A d \in Conns : Increasing(v.tabs[d])
    BY DEF Shape, OrderInv
  <2>3. Pruned(v, v, {})
    BY <2>2 DEF Pruned, Shape, OrderInv
  <2>. QED BY <1>1, <2>1, <2>3
<1>2. CASE t \in ToSet(v.tabs[c])
  <2>. DEFINE previous == IF Type(v, t) = "table" THEN t ELSE None
  <2>1. u = Closed(v, c, t, previous)
    BY <1>2 DEF ForceClose
  <2>2. None \notin v.loaded
    BY FieldsAre, WorkBounds DEF Shape
  <2>3. ASSUME v.info[t].type = "query" => v.bottom[t] \notin v.loaded, SurfaceOf(v, t) \in v.loaded
        PROVE  SurfaceOf(v, t) = t
    BY <2>2, <2>3, WorkBounds DEF SurfaceOf, Type
  <2>. HIDE DEF previous
  <2>4. /\ Shape(u) /\ Pruned(u, v, {t}) /\ u.visible = v.visible /\ u.attached = v.attached
        /\ Marks(v) /\ (SurfaceOf(v, t) \in v.loaded => SurfaceOf(v, t) \in {t, previous}) => Marks(u)
    BY <1>2, <2>1, ClosedIs
  <2>5. {t} \cap ToSet(v.tabs[c]) = {t}
    BY <1>2
  <2>. QED BY <2>3, <2>4, <2>5
<1>. QED BY <1>1, <1>2


(* The workspace after each of the first closes.                          *)
CloseRun(f, v, c, ts, n) ==
  /\ f = [i \in 0 .. n |-> f[i]] /\ f[0] = v
  /\ \A i \in 1 .. n : f[i] = ForceClose(f[i - 1], c, ts[i])

LEMMA CloseRunExists ==
  ASSUME NEW v, NEW c, NEW ts, Len(ts) \in Nat
  PROVE  \E f : CloseRun(f, v, c, ts, Len(ts))
<1>. DEFINE T == {n \in 0 .. Len(ts) : ~ \E f : CloseRun(f, v, c, ts, n)}
<1>1. SUFFICES ASSUME T # {} PROVE FALSE
  OBVIOUS
<1>2. PICK n \in T : \A m \in T : n <= m
  <2>1. T \subseteq Nat
    OBVIOUS
  <2>. HIDE DEF T
  <2>. QED BY <1>1, <2>1, LeastNat
<1>3. n # 0
  <2>. DEFINE g == [i \in 0 .. 0 |-> v]
  <2>1. g = [i \in 0 .. 0 |-> g[i]] /\ g[0] = v
    OBVIOUS
  <2>. HIDE DEF g
  <2>2. CloseRun(g, v, c, ts, 0)
    BY <2>1 DEF CloseRun
  <2>. QED BY <2>2
<1>4. n - 1 \in 0 .. Len(ts) /\ n - 1 \notin T /\ n \in 1 .. Len(ts)
  BY <1>2, <1>3
<1>5. PICK f : CloseRun(f, v, c, ts, n - 1)
  BY <1>4
<1>6. /\ f[0] = v
      /\ \A i \in 1 .. (n - 1) : f[i] = ForceClose(f[i - 1], c, ts[i])
  BY <1>5 DEF CloseRun
<1>. DEFINE last == ForceClose(f[n - 1], c, ts[n])
            g    == [i \in 0 .. n |-> IF i = n THEN last ELSE f[i]]
<1>. HIDE DEF last
<1>7. g = [i \in 0 .. n |-> g[i]]
  OBVIOUS
<1>8. g[0] = v
  BY <1>4, <1>6
<1>9. ASSUME NEW i \in 1 .. n
      PROVE  g[i] = ForceClose(g[i - 1], c, ts[i])
  <2>1. g[i - 1] = f[i - 1]
    BY <1>4
  <2>2. CASE i = n
    <3>1. g[n] = last
      BY <1>4
    <3>. HIDE DEF g
    <3>. QED BY <2>1, <2>2, <3>1 DEF last
  <2>3. CASE i # n
    <3>1. i \in 1 .. (n - 1) /\ g[i] = f[i]
      BY <1>4, <2>3
    <3>. HIDE DEF g
    <3>. QED BY <1>6, <2>1, <3>1
  <2>. QED BY <2>2, <2>3
<1>10. CloseRun(g, v, c, ts, n)
  <2>. HIDE DEF g
  <2>. QED BY <1>7, <1>8, <1>9 DEF CloseRun
<1>. QED BY <1>10

LEMMA CloseAllIsRun ==
  ASSUME NEW v, NEW c, NEW ts, Len(ts) \in Nat
  PROVE  \E f : CloseRun(f, v, c, ts, Len(ts)) /\ CloseAll(v, c, ts) = f[Len(ts)]
<1>. DEFINE Body(f) == [i \in 0 .. Len(ts) |->
              IF i = 0 THEN v ELSE ForceClose(f[i - 1], c, ts[i])]
            h == CHOOSE f : f = Body(f)
<1>1. CloseAll(v, c, ts) = h[Len(ts)]
  BY DEF CloseAll
<1>2. PICK f : CloseRun(f, v, c, ts, Len(ts))
  BY CloseRunExists
<1>3. f = Body(f)
  <2>1. f = [i \in 0 .. Len(ts) |-> f[i]]
    BY <1>2 DEF CloseRun
  <2>2. ASSUME NEW i \in 0 .. Len(ts)
        PROVE  f[i] = IF i = 0 THEN v ELSE ForceClose(f[i - 1], c, ts[i])
    <3>1. CASE i = 0
      BY <1>2, <3>1 DEF CloseRun
    <3>2. CASE i # 0
      <4>1. i \in 1 .. Len(ts)
        BY <3>2
      <4>. QED BY <1>2, <3>2, <4>1 DEF CloseRun
    <3>. QED BY <3>1, <3>2
  <2>. QED BY <2>1, <2>2
<1>4. h = Body(h)
  BY <1>3
<1>5. \A i \in 0 .. Len(ts) : h[i] = f[i]
  <2>. DEFINE T == {i \in 0 .. Len(ts) : h[i] # f[i]}
  <2>1. SUFFICES ASSUME T # {} PROVE FALSE
    OBVIOUS
  <2>2. PICK n \in T : \A m \in T : n <= m
    <3>1. T \subseteq Nat
      OBVIOUS
    <3>. HIDE DEF T
    <3>. QED BY <2>1, <3>1, LeastNat
  <2>3. h[n] = Body(h)[n] /\ f[n] = Body(f)[n]
    BY <1>3, <1>4
  <2>4. n # 0
    BY <2>2, <2>3
  <2>5. n - 1 \in 0 .. Len(ts) /\ n - 1 \notin T
    BY <2>2, <2>4
  <2>6. h[n - 1] = f[n - 1]
    BY <2>5
  <2>7. /\ h[n] = ForceClose(h[n - 1], c, ts[n])
        /\ f[n] = ForceClose(f[n - 1], c, ts[n])
    BY <2>2, <2>3, <2>4
  <2>. QED BY <2>2, <2>6, <2>7
<1>6. CloseAll(v, c, ts) = f[Len(ts)]
  <2>. HIDE DEF h
  <2>. QED BY <1>1, <1>5
<1>. QED BY <1>2, <1>6

Closes(u, v, gone) ==
  Shape(u) /\ Pruned(u, v, gone) /\ u.visible = v.visible /\ u.attached = v.attached

(* Tables and objects close one by one.                                    *)
LEMMA CloseRunIs ==
  ASSUME NEW v, Shape(v), NEW c \in Conns, NEW n \in Nat, NEW ts, \A i \in 1 .. n : ts[i] \in Tabs,
         \A i \in 1 .. n : v.info[ts[i]].type # "query", NEW f, CloseRun(f, v, c, ts, n)
  PROVE  /\ Closes(f[n], v, {ts[i] : i \in 1 .. n} \cap ToSet(v.tabs[c]))
         /\ Marks(v) => Marks(f[n])
<1>. DEFINE Gone(i) == {ts[j] : j \in 1 .. i} \cap ToSet(v.tabs[c])
            Good(i) == Closes(f[i], v, Gone(i)) /\ (Marks(v) => Marks(f[i]))
            B == {i \in 0 .. n : ~Good(i)}
<1>1. f[0] = v /\ \A i \in 1 .. n : f[i] = ForceClose(f[i - 1], c, ts[i])
  BY DEF CloseRun
<1>2. SUFFICES ASSUME B # {} PROVE FALSE
  <2>1. B = {} => Good(n)
    <3>. HIDE DEF Good
    <3>. QED OBVIOUS
  <2>. QED BY <2>1
<1>3. PICK i \in B : \A m \in B : i <= m
  <2>1. B \subseteq Nat
    OBVIOUS
  <2>. HIDE DEF B
  <2>. QED BY <1>2, <2>1, LeastNat
<1>4. i # 0
  <2>1. Gone(0) = {}
    OBVIOUS
  <2>2. Pruned(v, v, {})
    BY DEF Pruned, Shape, OrderInv
  <2>3. Good(0)
    BY <1>1, <2>1, <2>2 DEF Closes
  <2>. HIDE DEF Good
  <2>. QED BY <1>3, <2>3
<1>5. i - 1 \in 0 .. n /\ i - 1 \notin B /\ i \in 1 .. n
  <2>1. i \in 0 .. n
    OBVIOUS
  <2>. HIDE DEF B
  <2>. QED BY <1>3, <1>4, <2>1
<1>6. Good(i - 1)
  <2>. HIDE DEF Good
  <2>. QED BY <1>5
<1>. DEFINE e == f[i - 1]
            t == ts[i]
            g == Gone(i - 1)
            h == {t} \cap ToSet(e.tabs[c])
<1>7. Shape(e) /\ Pruned(e, v, g) /\ e.visible = v.visible /\ e.attached = v.attached /\ (Marks(v) => Marks(e))
  BY <1>6 DEF Closes
<1>8. t \in Tabs /\ v.info[t].type # "query" /\ f[i] = ForceClose(e, c, t)
  BY <1>1, <1>5
<1>9. Gone(i) = g \cup ({t} \cap ToSet(v.tabs[c]))
  <2>1. {ts[j] : j \in 1 .. i} = {ts[j] : j \in 1 .. (i - 1)} \cup {t}
    BY <1>5
  <2>. QED BY <2>1
<1>10. g \subseteq Tabs
  BY <1>5
<1>. HIDE DEF e, t, g
<1>11. e.info[t].type # "query" /\ t # None
  BY <1>7, <1>8, WorkBounds DEF Pruned, NoTab
<1>12. Whole(e, {t})
  <2>. SUFFICES ASSUME NEW x \in Open(e), e.info[x].parent = t PROVE FALSE
    BY DEF Whole
  <2>1. PICK d \in Conns : x \in ToSet(e.tabs[d])
    BY DEF Open
  <2>2. Scoped(e, d, x)
    BY <1>7, <1>11, <2>1 DEF Shape, InfoInv
  <2>. QED BY <1>11, <2>2 DEF Scoped
<1>13. /\ Shape(f[i]) /\ Pruned(f[i], e, h) /\ f[i].visible = e.visible /\ f[i].attached = e.attached
       /\ Marks(e) => Marks(f[i])
  BY <1>7, <1>8, <1>11, <1>12, ForceCloseIs
<1>14. h \subseteq Tabs /\ g \cup h = Gone(i)
  <2>1. h = {t} \cap (ToSet(v.tabs[c]) \ g)
    BY <1>7 DEF Pruned
  <2>. HIDE DEF h, Gone
  <2>. QED BY <1>8, <1>9, <2>1
<1>. HIDE DEF h, Gone
<1>15. Pruned(f[i], v, Gone(i))
  BY <1>7, <1>10, <1>13, <1>14, PrunedTwice
<1>16. Good(i)
  BY <1>7, <1>13, <1>15 DEF Closes
<1>. HIDE DEF Good
<1>. QED BY <1>3, <1>16

LEMMA CloseAllIs ==
  ASSUME NEW v, Shape(v), NEW c \in Conns, NEW ts \in Seq(Tabs),
         \A t \in ToSet(ts) : v.info[t].type # "query", NEW u, u = CloseAll(v, c, ts)
  PROVE  Closes(u, v, ToSet(ts) \cap ToSet(v.tabs[c])) /\ (Marks(v) => Marks(u))
<1>. DEFINE n == Len(ts)
<1>1. n \in Nat /\ DOMAIN ts = 1 .. n /\ ToSet(ts) = {ts[i] : i \in 1 .. n}
  BY DEF ToSet
<1>2. PICK f : CloseRun(f, v, c, ts, n) /\ u = f[n]
  BY <1>1, CloseAllIsRun
<1>3. \A i \in 1 .. n : ts[i] \in Tabs /\ v.info[ts[i]].type # "query"
  BY <1>1
<1>. HIDE DEF n
<1>4. /\ Closes(f[n], v, {ts[i] : i \in 1 .. n} \cap ToSet(v.tabs[c]))
      /\ Marks(v) => Marks(f[n])
  BY <1>1, <1>2, <1>3, CloseRunIs
<1>. QED BY <1>1, <1>2, <1>4

(* A query tab closes after the tabs under it.                             *)
LEMMA CloseGroupIs ==
  ASSUME NEW v, Shape(v), NEW c \in Conns, NEW kids \in Seq(Tabs), NEW q \in ToSet(v.tabs[c]),
         \A t \in ToSet(kids) : v.info[t].type # "query",
         \A t \in Tabs : v.info[t].parent = q => t \in ToSet(kids), v.info[q].type = "query",
         NEW u, u = CloseAll(v, c, Append(kids, q))
  PROVE  /\ Closes(u, v, (ToSet(kids) \cup {q}) \cap ToSet(v.tabs[c]))
         /\ Marks(v) /\ (v.bottom[q] \in v.loaded => v.bottom[q] \in ToSet(kids) \cap ToSet(v.tabs[c]))
              => Marks(u)
<1>. DEFINE n  == Len(kids)
            ts == Append(kids, q)
<1>1. q \in Tabs /\ n \in Nat /\ DOMAIN kids = 1 .. n /\ ToSet(kids) = {kids[i] : i \in 1 .. n}
  BY OpenIs DEF ToSet
<1>2. ts \in Seq(Tabs) /\ Len(ts) = n + 1 /\ ts[n + 1] = q /\ \A i \in 1 .. n : ts[i] = kids[i]
  BY <1>1
<1>. HIDE DEF ts, n
<1>3. PICK f : CloseRun(f, v, c, ts, n + 1) /\ u = f[n + 1]
  <2>1. Len(ts) \in Nat /\ u = CloseAll(v, c, ts)
    BY <1>1, <1>2 DEF ts
  <2>2. PICK f : CloseRun(f, v, c, ts, Len(ts)) /\ CloseAll(v, c, ts) = f[Len(ts)]
    BY <2>1, CloseAllIsRun
  <2>. QED BY <1>2, <2>1, <2>2
<1>4. f[0] = v /\ \A i \in 1 .. n + 1 : f[i] = ForceClose(f[i - 1], c, ts[i])
  BY <1>3 DEF CloseRun
<1>. DEFINE g == [i \in 0 .. n |-> f[i]]
            e == f[n]
<1>5. CloseRun(g, v, c, ts, n) /\ g[n] = e
  <2>1. g = [i \in 0 .. n |-> g[i]]
    OBVIOUS
  <2>2. g[0] = v /\ g[n] = e
    BY <1>1, <1>4
  <2>3. ASSUME NEW i \in 1 .. n PROVE g[i] = ForceClose(g[i - 1], c, ts[i])
    <3>1. g[i] = f[i] /\ g[i - 1] = f[i - 1] /\ i \in 1 .. n + 1
      BY <1>1
    <3>. HIDE DEF g
    <3>. QED BY <1>4, <3>1
  <2>. HIDE DEF g
  <2>. QED BY <2>1, <2>2, <2>3 DEF CloseRun
<1>6. u = ForceClose(e, c, q)
  <2>1. n + 1 \in 1 .. n + 1 /\ (n + 1) - 1 = n
    BY <1>1
  <2>2. f[n + 1] = ForceClose(f[(n + 1) - 1], c, ts[n + 1])
    BY <1>4, <2>1
  <2>. QED BY <1>2, <1>3, <2>1, <2>2
<1>. HIDE DEF g, e
<1>. DEFINE gone == ToSet(kids) \cap ToSet(v.tabs[c])
<1>7. Closes(e, v, gone) /\ (Marks(v) => Marks(e))
  <2>1. \A i \in 1 .. n : ts[i] \in Tabs /\ v.info[ts[i]].type # "query"
    BY <1>1, <1>2
  <2>2. {ts[i] : i \in 1 .. n} = ToSet(kids)
    BY <1>1, <1>2
  <2>3. Closes(g[n], v, {ts[i] : i \in 1 .. n} \cap ToSet(v.tabs[c])) /\ (Marks(v) => Marks(g[n]))
    BY <1>1, <1>5, <2>1, CloseRunIs
  <2>. QED BY <1>5, <2>2, <2>3
<1>8. gone \subseteq Tabs
  BY OpenIs
<1>9. q \notin ToSet(kids) /\ q \in ToSet(e.tabs[c]) /\ e.info[q] = v.info[q] /\ e.bottom[q] = v.bottom[q]
  BY <1>1, <1>7 DEF Closes, Pruned
<1>10. Whole(e, {q})
  <2>. SUFFICES ASSUME NEW x \in Open(e), e.info[x].parent = q PROVE FALSE
    BY DEF Whole
  <2>1. PICK d \in Conns : x \in ToSet(e.tabs[d])
    BY DEF Open
  <2>2. x \in Tabs /\ q # None
    BY <1>1, <1>7, <2>1, OpenIs, WorkBounds DEF Closes
  <2>3. x \notin gone /\ v.info[x].parent = q /\ x \in ToSet(v.tabs[d])
    BY <1>7, <2>1, <2>2 DEF Closes, Pruned, NoTab
  <2>4. x \in ToSet(kids)
    BY <2>2, <2>3
  <2>5. Scoped(v, d, x)
    BY <2>2, <2>3 DEF Shape, InfoInv
  <2>6. d = c
    BY <2>3, <2>5, OpenIs DEF Scoped
  <2>. QED BY <2>3, <2>4, <2>6
<1>11. e.loaded = v.loaded \ gone
  BY <1>7 DEF Closes, Pruned
<1>12. /\ Shape(u) /\ Pruned(u, e, {q} \cap ToSet(e.tabs[c]))
       /\ u.visible = e.visible /\ u.attached = e.attached
       /\ Marks(e) /\ (e.info[q].type = "query" => e.bottom[q] \notin e.loaded) => Marks(u)
  BY <1>1, <1>6, <1>7, <1>10, ForceCloseIs DEF Closes
<1>13. {q} \cap ToSet(e.tabs[c]) = {q}
  BY <1>9
<1>14. gone \cup {q} = (ToSet(kids) \cup {q}) \cap ToSet(v.tabs[c])
  OBVIOUS
<1>. HIDE DEF gone
<1>15. Pruned(u, v, gone \cup {q})
  BY <1>1, <1>7, <1>8, <1>12, <1>13, PrunedTwice DEF Closes
<1>16. Closes(u, v, (ToSet(kids) \cup {q}) \cap ToSet(v.tabs[c]))
  BY <1>7, <1>12, <1>14, <1>15 DEF Closes
<1>17. ASSUME Marks(v), v.bottom[q] \in v.loaded => v.bottom[q] \in ToSet(kids) \cap ToSet(v.tabs[c])
       PROVE  Marks(u)
  BY <1>7, <1>9, <1>11, <1>12, <1>17 DEF gone
<1>. QED BY <1>16, <1>17


----------
(* The steps. *)

(* Why a tab may close in a step although it has unsaved changes.          *)
Purpose(t) ==
  \/ t = w.asking \/ t = w.cascade.query \/ t \in ToSet(w.cascade.children)
  \/ CloseWorkspace(ConnOf(w, t)) \/ Merged
  \/ \E c \in Conns, n \in Names : DropObject(c, n)

(* The two parts of LimitSparesDirty, of a step.                           *)
Spared ==
  \A t \in w.dirty : t \in Open(w')
    \/ t = w.asking \/ t = w.cascade.query \/ t \in ToSet(w.cascade.children)
    \/ CloseWorkspace(ConnOf(w, t)) \/ Merged
    \/ \E c \in Conns, n \in Names : DropObject(c, n)

Limited ==
  \A c \in Conns : \A t \in ToSet(w'.tabs[c]) \ Open(w) :
    LET group == {x \in ToSet(w'.tabs[c]) : w'.info[x].type = w'.info[t].type
                                           /\ w'.info[x].parent = None}
    IN  Type(w', t) # "query" /\ w'.info[t].parent = None /\ Limit # 0 =>
          Cardinality(group) <= Limit \/ group \ {t} \subseteq w'.dirty

Sparing == Spared /\ Limited

LEMMA TabsGo ==
  ASSUME WorkIInv, Open(w') \subseteq Open(w), \A t \in w.dirty \ Open(w') : Purpose(t)
  PROVE  Sparing
<1>1. Spared
  BY DEF Spared, Purpose
<1>2. Limited
  <2>1. \A c \in Conns : ToSet(w'.tabs[c]) \subseteq Open(w)
    BY DEF Open
  <2>. QED BY <2>1 DEF Limited
<1>. QED BY <1>1, <1>2 DEF Sparing

LEMMA TabsStand ==
  ASSUME WorkIInv, w'.tabs = w.tabs
  PROVE  Sparing
<1>1. Open(w') = Open(w) /\ w.dirty \subseteq Open(w)
  BY DEF Open, WorkIInv, Shape, RowsInv
<1>. QED BY <1>1, TabsGo

LEMMA TabsCome ==
  ASSUME WorkIInv, NEW u, w' = u, Shape(u), w.dirty \subseteq Open(u),
         \A t \in Open(u) \ Open(w) : u.info[t].type = "query"
  PROVE  Sparing
<1>1. Spared
  BY DEF Spared
<1>2. Limited
  <2>1. ASSUME NEW c \in Conns, NEW t \in ToSet(u.tabs[c]) \ Open(w) PROVE Type(u, t) = "query"
    <3>1. t \in Open(u) /\ t # None
      BY OpenIs, WorkBounds DEF Open
    <3>. QED BY <2>1, <3>1 DEF Type
  <2>. QED BY <2>1 DEF Limited
<1>. QED BY <1>1, <1>2 DEF Sparing

LEMMA BecomeIs ==
  ASSUME WorkIInv, NEW v, Become(v), Shape(v), DialogInv(v, panel), PanelInv(v, panel),
         Marks(w) /\ (panel \/ ~Dangling(w)) => Marks(v)
  PROVE  WorkIInv' /\ (v.tabs = w.tabs => Sparing)
<1>1. w' = v /\ panel' = panel /\ Note(FALSE)
  BY DEF Become
<1>2. stray' = (Wrong(v) /\ (stray \/ Gap(FALSE)))
  BY <1>1 DEF Note
<1>3. stray' \in BOOLEAN
  BY <1>2
<1>4. Wrong(v) => stray'
  <2>. SUFFICES ASSUME Wrong(v) PROVE stray \/ Gap(FALSE)
    BY <1>2
  <2>1. CASE Wrong(w)
    BY <2>1 DEF WorkIInv, ScreenIsActive
  <2>2. CASE ~Wrong(w)
    <3>1. ~panel /\ Dangling(w)
      BY <2>2 DEF WorkIInv, Wrong, Marks
    <3>. QED BY <3>1 DEF Gap
  <2>. QED BY <2>1, <2>2
<1>5. Shape(w') /\ DialogInv(w', panel') /\ PanelInv(w', panel')
  BY <1>1
<1>6. panel' \in BOOLEAN
  BY <1>1 DEF WorkIInv
<1>7. Wrong(w') => stray'
  BY <1>1, <1>4
<1>8. WorkIInv'
  BY <1>3, <1>5, <1>6, <1>7 DEF WorkIInv, ScreenIsActive
<1>. QED BY <1>1, <1>8, TabsStand

(* Rows change, and panels go back to the result.                          *)
Calm(u, v) ==
  /\ u \in Workspaces
  /\ u.attached = v.attached /\ u.tabs = v.tabs /\ u.active = v.active /\ u.visible = v.visible
  /\ u.info = v.info /\ u.used = v.used /\ u.next = v.next
  /\ \A q \in Tabs : u.bottom[q] \in {v.bottom[q], None}

LEMMA CalmIs ==
  ASSUME NEW v, Shape(v), NEW u, Calm(u, v), RowsInv(u)
  PROVE  Shape(u)
<1>1. Open(u) = Open(v)
  BY DEF Open, Calm
<1>2. OrderInv(u) /\ InfoInv(u) /\ OnceInv(u) /\ ActiveInv(u)
  BY <1>1 DEF Shape, Calm, OrderInv, InfoInv, OnceInv, Scoped, ActiveInv
<1>3. BottomInv(u)
  <2>1. \A q \in Tabs : u.bottom[q] # None => u.bottom[q] = v.bottom[q]
    BY DEF Calm
  <2>. QED BY <1>1, <2>1 DEF Shape, Calm, BottomInv
<1>. QED BY <1>2, <1>3 DEF Shape, Calm

LEMMA DialogFrame ==
  ASSUME NEW v, Shape(v), NEW u, NEW b, DialogInv(v, b), PanelInv(v, b),
         u.tabs = v.tabs, u.info = v.info, \A q \in Tabs : u.bottom[q] \in {v.bottom[q], None},
         u.asking \in {v.asking, None}, u.cascade \in {v.cascade, NoCascade}
  PROVE  DialogInv(u, b) /\ PanelInv(u, b)
<1>1. Open(u) = Open(v) /\ None \notin Open(v)
  <2>1. Open(u) = Open(v)
    BY DEF Open
  <2>2. \A d \in Conns : None \notin ToSet(v.tabs[d])
    BY OpenIs, WorkBounds
  <2>. QED BY <2>1, <2>2 DEF Open
<1>2. Tight(v) => Tight(u)
  BY <1>1 DEF Tight
<1>3. PanelInv(u, b)
  BY DEF PanelInv
<1>4. CASE u.cascade = NoCascade
  BY <1>1, <1>2, <1>3, <1>4 DEF DialogInv
<1>5. CASE u.cascade # NoCascade
  <2>1. u.cascade = v.cascade
    BY <1>5
  <2>. QED BY <1>1, <1>2, <1>3, <2>1 DEF DialogInv
<1>. QED BY <1>4, <1>5

LEMMA FreeDialog ==
  ASSUME NEW v, NEW b, v.asking = None, v.cascade = NoCascade
  PROVE  DialogInv(v, b)
BY DEF DialogInv

LEMMA AddQueryIs ==
  ASSUME NEW v, Shape(v), NEW c \in Conns, v.next \in Tabs, NEW u, u = AddQuery(v, c)
  PROVE  /\ Shape(u) /\ (Marks(v) => Marks(u))
         /\ u.asking = v.asking /\ u.cascade = v.cascade /\ u.active[c] = v.next
         /\ u.info[v.next] = [type |-> "query", name |-> NoConn, parent |-> None]
         /\ \A t \in Tabs : t # v.next => u.info[t] = v.info[t]
         /\ ToSet(u.tabs[c]) = ToSet(v.tabs[c]) \cup {v.next} /\ v.next \notin ToSet(v.tabs[c])
         /\ u.dirty = v.dirty /\ \A d \in Conns : d # c => u.tabs[d] = v.tabs[d]
<1>. DEFINE info == [type |-> "query", name |-> NoConn, parent |-> None]
            x    == Add(v, c, "query", NoConn, None)
<1>1. Fits(v, c, info)
  BY WorkBounds, WorkspaceAssumption DEF Fits, Infos, None
<1>. HIDE DEF x
<1>2. /\ Shape(x) /\ Added(x, v, c, info) /\ (Marks(v) => Marks(x))
      /\ ToSet(x.tabs[c]) = ToSet(v.tabs[c]) \cup {v.next}
      /\ \A d \in Conns : d # c => x.tabs[d] = v.tabs[d]
      /\ x.info[v.next] = info /\ \A t \in Tabs : t # v.next => x.info[t] = v.info[t]
  <2>. HIDE DEF info
  <2>1. info = [type |-> "query", name |-> NoConn, parent |-> None]
    BY DEF info
  <2>. QED BY <1>1, <2>1, AddIs DEF x
<1>3. u = Activate(x, c, v.next)
  BY DEF AddQuery, x
<1>4. v.next \in ToSet(x.tabs[c]) /\ x.info[v.next].parent = None
  BY <1>2
<1>5. Shape(u) /\ Activated(u, x, c, v.next) /\ (Marks(x) => Marks(u))
  BY <1>2, <1>3, <1>4, ActivateIs
<1>6. u.active[c] = v.next
  BY <1>2, <1>5, FieldsAre DEF Shape, Activated
<1>7. v.next \notin ToSet(v.tabs[c])
  <2>1. v.next \in Nat
    BY WorkBounds
  <2>. QED BY <2>1 DEF Shape, OrderInv
<1>. QED BY <1>2, <1>5, <1>6, <1>7 DEF Activated, Added

(* Sequences without repetition.                                           *)

LEMMA PlaceIs ==
  ASSUME NEW T, NEW s \in Seq(T), IsInjective(s)
  PROVE  /\ \A j \in 1 .. Len(s) : Place(s, s[j]) = j
         /\ \A x \in ToSet(s) : Place(s, x) \in 1 .. Len(s) /\ s[Place(s, x)] = x
<1>1. Len(s) \in Nat /\ DOMAIN s = 1 .. Len(s)
  OBVIOUS
<1>2. ASSUME NEW j \in 1 .. Len(s) PROVE Place(s, s[j]) = j
  BY <1>1 DEF Place, IsInjective
<1>3. \A x \in ToSet(s) : \E j \in 1 .. Len(s) : s[j] = x
  BY <1>1 DEF ToSet
<1>. QED BY <1>2, <1>3

LEMMA IncreasingIs ==
  ASSUME NEW s \in Seq(Tabs), Increasing(s)
  PROVE  /\ IsInjective(s)
         /\ \A x, y \in ToSet(s) : Place(s, x) < Place(s, y) <=> x < y
<1>1. Len(s) \in Nat /\ DOMAIN s = 1 .. Len(s) /\ \A i \in 1 .. Len(s) : s[i] \in Nat
  <2>1. Len(s) \in Nat /\ DOMAIN s = 1 .. Len(s) /\ \A i \in 1 .. Len(s) : s[i] \in Tabs
    OBVIOUS
  <2>. QED BY <2>1, WorkBounds
<1>2. \A i, j \in 1 .. Len(s) : i < j => s[i] < s[j]
  BY <1>1 DEF Increasing
<1>3. IsInjective(s)
  <2>. SUFFICES ASSUME NEW i \in 1 .. Len(s), NEW j \in 1 .. Len(s), s[i] = s[j], i # j PROVE FALSE
    BY <1>1 DEF IsInjective
  <2>1. i < j \/ j < i
    OBVIOUS
  <2>. QED BY <1>1, <1>2, <2>1
<1>4. ASSUME NEW x \in ToSet(s), NEW y \in ToSet(s) PROVE Place(s, x) < Place(s, y) <=> x < y
  <2>. DEFINE a == Place(s, x)
              b == Place(s, y)
  <2>1. a \in 1 .. Len(s) /\ b \in 1 .. Len(s) /\ s[a] = x /\ s[b] = y
    BY <1>3, PlaceIs
  <2>. HIDE DEF a, b
  <2>2. a < b => x < y
    BY <1>2, <2>1
  <2>3. b < a => y < x
    BY <1>2, <2>1
  <2>4. a = b => x = y
    BY <2>1
  <2>5. x \in Nat /\ y \in Nat
    BY <1>1, <2>1
  <2>6. a < b <=> x < y
    BY <2>1, <2>2, <2>3, <2>4, <2>5
  <2>. QED BY <2>6 DEF a, b
<1>. QED BY <1>3, <1>4

LEMMA CardIs ==
  ASSUME NEW T, NEW s \in Seq(T), IsInjective(s)
  PROVE  IsFiniteSet(ToSet(s)) /\ Cardinality(ToSet(s)) = Len(s)
<1>. DEFINE n == Len(s)
            S == ToSet(s)
<1>1. n \in Nat /\ DOMAIN s = 1 .. n
  OBVIOUS
<1>2. s \in [1 .. n -> S] /\ \A x \in S : \E j \in 1 .. n : s[j] = x
  BY <1>1 DEF ToSet
<1>. HIDE DEF n, S
<1>3. s \in Bijection(1 .. n, S)
  BY <1>1, <1>2 DEF Bijection, Injection, Surjection, IsInjective
<1>4. ExistsBijection(1 .. n, S)
  BY <1>3 DEF ExistsBijection
<1>5. IsFiniteSet(1 .. n) /\ Cardinality(1 .. n) = n
  BY <1>1, FS_Interval
<1>6. IsFiniteSet(S) /\ Cardinality(S) = n
  BY <1>4, <1>5, FS_Bijection
<1>. QED BY <1>6 DEF n, S

LEMMA ConcatIs ==
  ASSUME NEW s \in Seq(Tabs), NEW z \in Seq(Tabs), IsInjective(s), IsInjective(z),
         ToSet(s) \cap ToSet(z) = {}, NEW g, g = s \o z
  PROVE  /\ g \in Seq(Tabs) /\ IsInjective(g) /\ ToSet(g) = ToSet(s) \cup ToSet(z)
         /\ \A x \in ToSet(s) : Place(g, x) = Place(s, x)
         /\ \A x \in ToSet(s), y \in ToSet(z) : Place(g, x) < Place(g, y)
<1>. DEFINE m == Len(s)
            n == Len(z)
<1>1. m \in Nat /\ n \in Nat /\ DOMAIN s = 1 .. m /\ DOMAIN z = 1 .. n
  OBVIOUS
<1>2. g \in Seq(Tabs) /\ Len(g) = m + n /\ DOMAIN g = 1 .. m + n
      /\ \A j \in 1 .. m + n : g[j] = IF j <= m THEN s[j] ELSE z[j - m]
  <2>1. g \in Seq(Tabs) /\ Len(g) = m + n
        /\ \A j \in 1 .. m + n : g[j] = IF j <= m THEN s[j] ELSE z[j - m]
    BY ConcatProperties
  <2>. QED BY <2>1
<1>. HIDE DEF m, n
<1>3. /\ \A j \in 1 .. m : s[j] \in ToSet(s) /\ j \in 1 .. m + n /\ g[j] = s[j]
      /\ \A j \in 1 .. n : z[j] \in ToSet(z) /\ m + j \in 1 .. m + n /\ g[m + j] = z[j]
  <2>1. \A j \in 1 .. m : s[j] \in ToSet(s) /\ j \in 1 .. m + n /\ g[j] = s[j]
    BY <1>1, <1>2 DEF ToSet
  <2>2. ASSUME NEW j \in 1 .. n PROVE z[j] \in ToSet(z) /\ m + j \in 1 .. m + n /\ g[m + j] = z[j]
    <3>1. m + j \in 1 .. m + n /\ ~(m + j <= m) /\ (m + j) - m = j
      BY <1>1
    <3>2. g[m + j] = z[(m + j) - m]
      BY <1>2, <3>1
    <3>. QED BY <1>1, <3>1, <3>2 DEF ToSet
  <2>. QED BY <2>1, <2>2
<1>4. \A j \in 1 .. m + n : j \in 1 .. m \/ \E l \in 1 .. n : j = m + l
  <2>. SUFFICES ASSUME NEW j \in 1 .. m + n, j \notin 1 .. m PROVE \E l \in 1 .. n : j = m + l
    OBVIOUS
  <2>1. j - m \in 1 .. n /\ j = m + (j - m)
    BY <1>1
  <2>. QED BY <2>1
<1>5. IsInjective(g)
  <2>. SUFFICES ASSUME NEW j \in 1 .. m + n, NEW k \in 1 .. m + n, g[j] = g[k] PROVE j = k
    BY <1>2 DEF IsInjective
  <2>1. CASE j \in 1 .. m /\ k \in 1 .. m
    BY <1>1, <1>3, <2>1 DEF IsInjective
  <2>2. CASE j \notin 1 .. m /\ k \notin 1 .. m
    <3>1. PICK a \in 1 .. n : j = m + a
      BY <1>4, <2>2
    <3>2. PICK b \in 1 .. n : k = m + b
      BY <1>4, <2>2
    <3>3. z[a] = z[b]
      BY <1>3, <3>1, <3>2
    <3>. QED BY <1>1, <3>1, <3>2, <3>3 DEF IsInjective
  <2>3. CASE (j \in 1 .. m) # (k \in 1 .. m)
    <3>1. \A a \in 1 .. m, b \in 1 .. n : s[a] # z[b]
      BY <1>3
    <3>2. \A a \in 1 .. m, b \in 1 .. n : g[a] # g[m + b]
      BY <1>3, <3>1
    <3>3. CASE j \in 1 .. m
      BY <1>4, <2>3, <3>2, <3>3
    <3>4. CASE j \notin 1 .. m
      <4>1. k \in 1 .. m
        BY <2>3, <3>4
      <4>2. PICK l \in 1 .. n : j = m + l
        BY <1>4, <3>4
      <4>3. g[k] # g[j]
        BY <3>2, <4>1, <4>2
      <4>. QED BY <4>3
    <3>. QED BY <3>3, <3>4
  <2>. QED BY <2>1, <2>2, <2>3
<1>6. ToSet(g) = ToSet(s) \cup ToSet(z)
  <2>1. ToSet(g) \subseteq ToSet(s) \cup ToSet(z)
    <3>. SUFFICES ASSUME NEW j \in 1 .. m + n PROVE g[j] \in ToSet(s) \cup ToSet(z)
      BY <1>2 DEF ToSet
    <3>. QED BY <1>3, <1>4
  <2>2. ToSet(s) \cup ToSet(z) \subseteq ToSet(g)
    <3>1. \A j \in 1 .. m + n : g[j] \in ToSet(g)
      BY <1>2 DEF ToSet
    <3>2. \A j \in 1 .. m : s[j] \in ToSet(g)
      BY <1>3, <3>1
    <3>3. \A j \in 1 .. n : z[j] \in ToSet(g)
      BY <1>3, <3>1
    <3>. QED BY <1>1, <3>2, <3>3 DEF ToSet
  <2>. QED BY <2>1, <2>2
<1>7. \A j \in 1 .. m + n : Place(g, g[j]) = j
  BY <1>2, <1>5, PlaceIs
<1>8. \A x \in ToSet(s) : Place(s, x) \in 1 .. m /\ s[Place(s, x)] = x
  BY PlaceIs DEF m
<1>9. \A x \in ToSet(s) : Place(g, x) = Place(s, x)
  <2>. SUFFICES ASSUME NEW x \in ToSet(s) PROVE Place(g, x) = Place(s, x)
    OBVIOUS
  <2>. DEFINE j == Place(s, x)
  <2>1. j \in 1 .. m /\ s[j] = x
    BY <1>8
  <2>. HIDE DEF j
  <2>2. j \in 1 .. m + n /\ g[j] = x
    BY <1>3, <2>1
  <2>3. Place(g, x) = j
    BY <1>7, <2>2
  <2>. QED BY <2>3 DEF j
<1>10. ASSUME NEW x \in ToSet(s), NEW y \in ToSet(z) PROVE Place(g, x) < Place(g, y)
  <2>1. PICK j \in 1 .. n : z[j] = y
    BY <1>1 DEF ToSet
  <2>2. Place(g, y) = m + j
    BY <1>3, <1>7, <2>1
  <2>3. Place(g, x) \in 1 .. m
    BY <1>8, <1>9
  <2>. QED BY <1>1, <2>2, <2>3
<1>. QED BY <1>2, <1>5, <1>6, <1>9, <1>10

LEMMA OverflowAll ==
  ASSUME NEW v, Shape(v), NEW c \in Conns, NEW t \in ToSet(v.tabs[c]), NEW ts, ts = Overflow(v, c, t)
  PROVE  /\ ts \in Seq(Tabs) /\ (v.info[t].parent # None => ts = <<>>)
         /\ \A x \in ToSet(ts) : v.info[x].type \in {"table", "object"} /\ x # t /\ x \notin v.dirty
         /\ v.info[t].type \in {"table", "object"} /\ v.info[t].parent = None /\ Limit # 0 =>
              \/ Cardinality(Group(v, c, t) \ ToSet(ts)) <= Limit
              \/ (Group(v, c, t) \ ToSet(ts)) \ {t} \subseteq v.dirty
<1>. DEFINE limited == Type(v, t) \in {"table", "object"} /\ v.info[t].parent = None
            card == Cardinality(Group(v, c, t))
            over == Max({card - Limit, 0})
            S    == Group(v, c, t) \ ({t} \cup v.dirty)
            old  == Only(ByAge(v, c), S)
            m    == Min({over, Len(old)})
<1>1. v.tabs[c] \in Seq(Tabs) /\ v.used \in Seq(Tabs) /\ t \in Tabs
  BY FieldsAre, OpenIs DEF Shape
<1>2. ts = IF ~limited \/ Limit = 0 THEN <<>> ELSE SubSeq(old, 1, m)
  BY DEF Overflow
<1>3. ByAge(v, c) \in Seq(Tabs) /\ IsInjective(ByAge(v, c)) /\ ToSet(ByAge(v, c)) = ToSet(v.tabs[c])
  <2>. DEFINE s == v.tabs[c]
              a == Only(s, Tabs \ ToSet(v.used))
              b == Only(v.used, ToSet(s))
              g == ByAge(v, c)
  <2>1. s \in Seq(Tabs) /\ IsInjective(s) /\ IsInjective(v.used) /\ \A x \in ToSet(s) : x \in Tabs
    BY <1>1, IncreasingIs, OpenIs DEF Shape, OrderInv
  <2>2. g = a \o b
    BY DEF ByAge
  <2>. HIDE DEF s, g
  <2>3. a \in Seq(Tabs) /\ IsInjective(a) /\ ToSet(a) = ToSet(s) \cap (Tabs \ ToSet(v.used))
    BY <2>1, OnlyIs
  <2>4. b \in Seq(Tabs) /\ IsInjective(b) /\ ToSet(b) = ToSet(v.used) \cap ToSet(s)
    BY <1>1, <2>1, OnlyIs
  <2>. HIDE DEF a, b
  <2>5. ToSet(a) \cap ToSet(b) = {} /\ ToSet(a) \cup ToSet(b) = ToSet(s)
    BY <2>1, <2>3, <2>4
  <2>6. g \in Seq(Tabs) /\ IsInjective(g) /\ ToSet(g) = ToSet(a) \cup ToSet(b)
    BY <2>2, <2>3, <2>4, <2>5, ConcatIs
  <2>. QED BY <2>5, <2>6 DEF s, g
<1>4. old \in Seq(Tabs) /\ IsInjective(old) /\ ToSet(old) = S
  <2>1. old \in Seq(Tabs) /\ IsInjective(old) /\ ToSet(old) = ToSet(ByAge(v, c)) \cap S
    <3>. HIDE DEF S
    <3>. QED BY <1>3, OnlyIs
  <2>2. S \subseteq ToSet(v.tabs[c])
    BY DEF Group
  <2>. HIDE DEF S, old
  <2>. QED BY <1>3, <2>1, <2>2
<1>5. card \in Nat /\ IsFiniteSet(Group(v, c, t))
  <2>1. IsFiniteSet(Tabs)
    BY WorkBounds, FS_Interval DEF Tabs
  <2>2. Group(v, c, t) \subseteq Tabs
    BY OpenIs DEF Group
  <2>. QED BY <2>1, <2>2, FS_Subset, FS_CardinalityType
<1>. HIDE DEF limited, card, S, old
<1>6. over \in Nat /\ over >= card - Limit
  <2>1. Limit \in Nat
    BY WorkBounds
  <2>2. \E x \in {card - Limit, 0} : \A y \in {card - Limit, 0} : x >= y
    BY <1>5, <2>1
  <2>3. over \in {card - Limit, 0} /\ over >= 0 /\ over >= card - Limit
    BY <2>2 DEF Max
  <2>. QED BY <1>5, <2>1, <2>3
<1>. HIDE DEF over
<1>7. m \in 0 .. Len(old)
  <2>1. Len(old) \in Nat
    BY <1>4
  <2>2. {over, Len(old)} \subseteq Nat
    BY <1>6, <2>1
  <2>3. m \in {over, Len(old)} /\ m <= Len(old)
    BY <2>2, MinOf
  <2>. QED BY <1>6, <2>1, <2>3
<1>8. m = over \/ m = Len(old)
  <2>1. {over, Len(old)} \subseteq Nat
    BY <1>4, <1>6
  <2>2. m \in {over, Len(old)}
    BY <2>1, MinOf
  <2>. QED BY <2>2
<1>. HIDE DEF m
<1>9. /\ SubSeq(old, 1, m) \in Seq(Tabs) /\ ToSet(SubSeq(old, 1, m)) \subseteq ToSet(old)
      /\ Len(SubSeq(old, 1, m)) = m /\ IsInjective(SubSeq(old, 1, m))
      /\ m = Len(old) => SubSeq(old, 1, m) = old
  <2>1. Len(old) \in Nat /\ DOMAIN old = 1 .. Len(old)
    BY <1>4
  <2>2. SubSeq(old, 1, m) = [i \in 1 .. m |-> old[i]]
    BY <1>4, <1>7
  <2>3. \A i \in 1 .. m : i \in 1 .. Len(old) /\ old[i] \in Tabs
    BY <1>4, <1>7
  <2>8. m \in Nat
    BY <1>7, <2>1
  <2>. DEFINE g == SubSeq(old, 1, m)
  <2>9. g = [i \in 1 .. m |-> old[i]]
    BY <2>2
  <2>. HIDE DEF g
  <2>4. g \in Seq(Tabs) /\ DOMAIN g = 1 .. m /\ Len(g) = m /\ \A i \in 1 .. m : g[i] = old[i]
    BY <2>3, <2>8, <2>9
  <2>5. IsInjective(g)
    BY <1>4, <2>1, <2>3, <2>4 DEF IsInjective
  <2>6. ToSet(g) \subseteq ToSet(old)
    BY <2>1, <2>3, <2>4 DEF ToSet
  <2>7. m = Len(old) => g = old
    BY <1>4, <2>1, <2>4
  <2>. QED BY <2>4, <2>5, <2>6, <2>7 DEF g
<1>10. ASSUME NEW x \in ToSet(ts)
      PROVE  v.info[x].type \in {"table", "object"} /\ x # t /\ x \notin v.dirty
  <2>1. limited /\ x \in S
    <3>1. CASE ~limited \/ Limit = 0
      BY <1>2, <3>1 DEF ToSet
    <3>2. CASE ~(~limited \/ Limit = 0)
      BY <1>2, <1>4, <1>9, <3>2
    <3>. QED BY <3>1, <3>2
  <2>2. x \in Group(v, c, t) /\ x # t /\ x \notin v.dirty
    BY <2>1 DEF S
  <2>3. x \in Tabs
    BY <2>2, OpenIs DEF Group
  <2>. QED BY <2>1, <2>2, <2>3, WorkBounds DEF Group, Type, limited
<1>11. ts \in Seq(Tabs)
  BY <1>2, <1>9
<1>12. v.info[t].parent # None => ts = <<>>
  BY <1>2 DEF limited
<1>13. ASSUME v.info[t].type \in {"table", "object"}, v.info[t].parent = None, Limit # 0
       PROVE  \/ Cardinality(Group(v, c, t) \ ToSet(ts)) <= Limit
              \/ (Group(v, c, t) \ ToSet(ts)) \ {t} \subseteq v.dirty
  <2>1. ts = SubSeq(old, 1, m)
    <3>1. limited
      BY <1>1, <1>13, WorkBounds DEF limited, Type
    <3>. QED BY <1>2, <1>13, <3>1
  <2>2. CASE m = Len(old)
    <3>1. ToSet(ts) = S
      BY <1>4, <1>9, <2>1, <2>2
    <3>. QED BY <3>1 DEF S
  <2>3. CASE m = over
    <3>1. ToSet(ts) \subseteq S /\ Cardinality(ToSet(ts)) = over
      BY <1>4, <1>9, <2>1, <2>3, CardIs
    <3>2. Group(v, c, t) \cap ToSet(ts) = ToSet(ts)
      BY <3>1 DEF S
    <3>3. Cardinality(Group(v, c, t) \ ToSet(ts)) = card - over
      <4>. DEFINE G == Group(v, c, t)
                  R == ToSet(ts)
      <4>1. IsFiniteSet(G) /\ Cardinality(R) = over /\ G \cap R = R /\ Cardinality(G) = card
        BY <1>5, <3>1, <3>2 DEF card
      <4>. HIDE DEF G, R
      <4>2. Cardinality(G \ R) = Cardinality(G) - Cardinality(G \cap R)
        BY <4>1, FS_Difference
      <4>. QED BY <4>1, <4>2 DEF G, R
    <3>4. card - over <= Limit
      BY <1>5, <1>6, WorkBounds
    <3>. QED BY <3>3, <3>4
  <2>. QED BY <1>8, <2>2, <2>3
<1>. QED BY <1>10, <1>11, <1>12, <1>13

LEMMA OverflowIs ==
  ASSUME NEW v, Shape(v), NEW c \in Conns, NEW t \in ToSet(v.tabs[c]), NEW ts, ts = Overflow(v, c, t)
  PROVE  /\ ts \in Seq(Tabs) /\ (v.info[t].parent # None => ts = <<>>)
         /\ \A x \in ToSet(ts) : v.info[x].type \in {"table", "object"} /\ x # t /\ x \notin v.dirty
<1>1. ts \in Seq(Tabs)
  BY OverflowAll
<1>2. v.info[t].parent # None => ts = <<>>
  <2>. DEFINE lim == Type(v, t) \in {"table", "object"} /\ v.info[t].parent = None
  <2>1. ASSUME ~lim
        PROVE  ts = <<>>
    BY <2>1 DEF Overflow
  <2>. QED BY <2>1
<1>3. ASSUME NEW x \in ToSet(ts)
      PROVE  v.info[x].type \in {"table", "object"} /\ x # t /\ x \notin v.dirty
  BY OverflowAll
<1>. QED BY <1>1, <1>2, <1>3

LEMMA OverflowFits ==
  ASSUME NEW v, Shape(v), NEW c \in Conns, NEW t \in ToSet(v.tabs[c]), NEW ts, ts = Overflow(v, c, t)
  PROVE  v.info[t].type \in {"table", "object"} /\ v.info[t].parent = None /\ Limit # 0 =>
              \/ Cardinality(Group(v, c, t) \ ToSet(ts)) <= Limit
              \/ (Group(v, c, t) \ ToSet(ts)) \ {t} \subseteq v.dirty
BY OverflowAll


LEMMA ShowInIs ==
  ASSUME NEW v, Shape(v), NEW c \in Conns, NEW p, NEW t,
         p # None => /\ t \in ToSet(v.tabs[c]) /\ v.info[t].type = "table"
                     /\ p \in ToSet(v.tabs[c]) /\ v.info[p].type = "query",
         NEW u, u = ShowIn(v, p, t)
  PROVE  /\ Shape(u) /\ (Marks(v) => Marks(u))
         /\ u.asking = v.asking /\ u.cascade = v.cascade /\ u.info = v.info
         /\ u.tabs = v.tabs /\ u.dirty = v.dirty
<1>1. CASE p = None
  BY <1>1 DEF ShowIn
<1>2. CASE p # None
  <2>1. u = SetBottoms(v, {p}, t)
    BY <1>2 DEF ShowIn, SetBottom
  <2>2. p \in Tabs /\ t \in Tabs /\ t \in 0 .. MaxTabs
    BY <1>2, OpenIs, WorkBounds DEF Tabs
  <2>3. \E d \in Conns : /\ t \in ToSet(v.tabs[d]) /\ v.info[t].type = "table"
                         /\ \A q \in {p} : q \in ToSet(v.tabs[d]) /\ v.info[q].type = "query"
    BY <1>2
  <2>4. {p} \in SUBSET Tabs
    BY <2>2
  <2>5. /\ Shape(u) /\ (Marks(v) => Marks(u))
        /\ Retold(u, v, [q \in Tabs |-> IF q \in {p} THEN t ELSE v.bottom[q]])
    BY <2>1, <2>2, <2>3, <2>4, SetBottomsIs
  <2>. QED BY <2>5 DEF Retold
<1>. QED BY <1>1, <1>2

(* The tabs with a query tab opened.                                       *)
LEMMA QueryComes ==
  ASSUME NEW v, Shape(v), NEW c \in Conns, v.next \in Tabs, NEW u, u = AddQuery(v, c)
  PROVE  /\ Open(u) = Open(v) \cup {v.next} /\ u.dirty = v.dirty
         /\ \A t \in Open(u) \ Open(v) : u.info[t].type = "query"
<1>1. /\ u.info[v.next] = [type |-> "query", name |-> NoConn, parent |-> None] /\ u.dirty = v.dirty
      /\ ToSet(u.tabs[c]) = ToSet(v.tabs[c]) \cup {v.next} /\ \A d \in Conns : d # c => u.tabs[d] = v.tabs[d]
  BY AddQueryIs
<1>2. Open(u) = Open(v) \cup {v.next}
  <2>1. \A d \in Conns : ToSet(u.tabs[d]) = ToSet(v.tabs[d]) \cup IF d = c THEN {v.next} ELSE {}
    BY <1>1
  <2>. QED BY <2>1 DEF Open
<1>. QED BY <1>1, <1>2

LEMMA OpenQueryTabKeeps ==
  ASSUME WorkIInv, NEW c \in Conns, OpenQueryTab(c)
  PROVE  WorkIInv' /\ Sparing
<1>. DEFINE u == AddQuery(w, c)
<1>1. Shape(w) /\ w.next \in Tabs /\ Become(u) /\ w.asking = None /\ w.cascade = NoCascade
  BY DEF WorkIInv, OpenQueryTab, At, Free
<1>. HIDE DEF u
<1>2. /\ Shape(u) /\ (Marks(w) => Marks(u)) /\ u.asking = w.asking /\ u.cascade = w.cascade
      /\ u.info[w.next] = [type |-> "query", name |-> NoConn, parent |-> None]
      /\ \A t \in Tabs : t # w.next => u.info[t] = w.info[t]
  BY <1>1, AddQueryIs DEF u
<1>3. DialogInv(u, panel)
  BY <1>1, <1>2, FreeDialog
<1>4. PanelInv(u, panel)
  BY <1>2 DEF WorkIInv, PanelInv
<1>5. Sparing
  <2>1. Open(u) = Open(w) \cup {w.next} /\ \A t \in Open(u) \ Open(w) : u.info[t].type = "query"
    BY <1>1, QueryComes DEF u
  <2>2. w.dirty \subseteq Open(u) /\ w' = u
    BY <1>1, <2>1 DEF Shape, RowsInv, Become
  <2>. QED BY <1>2, <2>1, <2>2, TabsCome
<1>. QED BY <1>1, <1>2, <1>3, <1>4, <1>5, BecomeIs

LEMMA OpenTabKeeps ==
  ASSUME WorkIInv, NEW c \in Conns, NEW type \in {"table", "object"}, NEW name \in Names,
         OpenTab(c, type, name)
  PROVE  WorkIInv' /\ Sparing
<1>. DEFINE v    == IF OpensQuery(c, type) THEN AddQuery(w, c) ELSE w
            p    == Parent(v, c, type)
            old  == Existing(c, type, name, p)
            info == [type |-> type, name |-> name, parent |-> p]
            x    == Add(v, c, type, name, p)
            y    == Activate(x, c, IF p = None THEN v.next ELSE p)
            z    == EnforceLimit(y, c, v.next)
<1>1. /\ Shape(w) /\ w.asking = None /\ w.cascade = NoCascade /\ PanelInv(w, panel)
      /\ OpensQuery(c, type) => w.next \in Tabs
  BY DEF WorkIInv, OpenTab, At, Free
<1>2. \/ \E t \in old : Become(ShowIn(Activate(v, c, IF p = None THEN t ELSE p), p, t))
      \/ old = {} /\ v.next \in Tabs /\ Become(ShowIn(z, p, v.next))
  BY DEF OpenTab
<1>3. /\ Shape(v) /\ (Marks(w) => Marks(v)) /\ v.asking = None /\ v.cascade = NoCascade
      /\ PanelInv(v, panel) /\ ToSet(w.tabs[c]) \subseteq ToSet(v.tabs[c])
      /\ \A t \in ToSet(w.tabs[c]) : v.info[t] = w.info[t]
      /\ \A t \in ToSet(v.tabs[c]) \ ToSet(w.tabs[c]) : v.info[t].type = "query"
      /\ OpensQuery(c, type) => v.active[c] \in ToSet(v.tabs[c]) /\ v.info[v.active[c]].type = "query"
      /\ v.dirty = w.dirty /\ Open(w) \subseteq Open(v)
      /\ \A t \in Open(v) \ Open(w) : v.info[t].type = "query"
  <2>1. CASE ~OpensQuery(c, type)
    BY <1>1, <2>1
  <2>2. CASE OpensQuery(c, type)
    <3>1. v = AddQuery(w, c) /\ panel /\ w.next \in Tabs
      BY <1>1, <2>2 DEF OpensQuery
    <3>. HIDE DEF v
    <3>2. /\ Shape(v) /\ (Marks(w) => Marks(v))
          /\ v.asking = w.asking /\ v.cascade = w.cascade /\ v.active[c] = w.next
          /\ v.info[w.next] = [type |-> "query", name |-> NoConn, parent |-> None]
          /\ \A t \in Tabs : t # w.next => v.info[t] = w.info[t]
          /\ ToSet(v.tabs[c]) = ToSet(w.tabs[c]) \cup {w.next} /\ w.next \notin ToSet(w.tabs[c])
      BY <1>1, <3>1, AddQueryIs
    <3>3. \A t \in ToSet(w.tabs[c]) : v.info[t] = w.info[t]
      BY <1>1, <3>2, OpenIs
    <3>4. PanelInv(v, panel)
      BY <3>1 DEF PanelInv
    <3>5. /\ v.dirty = w.dirty /\ Open(w) \subseteq Open(v)
          /\ \A t \in Open(v) \ Open(w) : v.info[t].type = "query"
      BY <1>1, <3>1, QueryComes
    <3>. QED BY <1>1, <3>2, <3>3, <3>4, <3>5
  <2>. QED BY <2>1, <2>2
<1>. HIDE DEF z
<1>4. v.active[c] \in 0 .. MaxTabs
  BY <1>3, FieldsAre DEF Shape
<1>5. p # None => /\ type = "table" /\ panel /\ p \in ToSet(v.tabs[c])
                  /\ v.info[p].type = "query" /\ v.info[p].parent = None
  <2>. SUFFICES ASSUME p # None
                PROVE  /\ type = "table" /\ panel /\ p \in ToSet(v.tabs[c])
                       /\ v.info[p].type = "query" /\ v.info[p].parent = None
    OBVIOUS
  <2>1. type = "table" /\ panel /\ p = v.active[c]
    BY DEF Parent
  <2>2. p \in ToSet(v.tabs[c]) /\ v.info[p].parent = None
    <3>. HIDE DEF p, v
    <3>. QED BY <1>3, <2>1 DEF Shape, ActiveInv
  <2>3. v.info[p].type = "query"
    <3>1. CASE OpensQuery(c, type)
      <4>. HIDE DEF p, v
      <4>. QED BY <1>3, <2>1, <3>1
    <3>2. CASE ~OpensQuery(c, type)
      BY <2>1, <3>2 DEF OpensQuery, Type
    <3>. QED BY <3>1, <3>2
  <2>. HIDE DEF p, v
  <2>. QED BY <2>1, <2>2, <2>3
<1>6. p \in 0 .. MaxTabs
  <2>1. p = None \/ p = v.active[c]
    BY DEF Parent
  <2>. HIDE DEF p, v
  <2>. QED BY <1>4, <2>1, WorkBounds DEF None
<1>. HIDE DEF v, p, x, y
<1>7. \A t \in old : t \in ToSet(w.tabs[c]) /\ w.info[t] = info
  BY DEF Existing
<1>. HIDE DEF old
<1>8. ASSUME NEW t \in old, Become(ShowIn(Activate(v, c, IF p = None THEN t ELSE p), p, t))
      PROVE  WorkIInv' /\ Sparing
  <2>. DEFINE a == IF p = None THEN t ELSE p
              s == Activate(v, c, a)
              u == ShowIn(s, p, t)
  <2>1. t \in ToSet(v.tabs[c]) /\ v.info[t] = info
    BY <1>3, <1>7
  <2>2. a \in ToSet(v.tabs[c]) /\ v.info[a].parent = None
    BY <1>5, <2>1
  <2>3. Become(u)
    BY <1>8
  <2>. HIDE DEF a, s, u
  <2>4. Shape(s) /\ Activated(s, v, c, a) /\ (Marks(v) => Marks(s))
    BY <1>3, <2>2, ActivateIs DEF s
  <2>5. p # None => /\ t \in ToSet(s.tabs[c]) /\ s.info[t].type = "table"
                    /\ p \in ToSet(s.tabs[c]) /\ s.info[p].type = "query"
    BY <1>5, <2>1, <2>4 DEF Activated
  <2>6. /\ Shape(u) /\ (Marks(s) => Marks(u))
        /\ u.asking = s.asking /\ u.cascade = s.cascade /\ u.info = s.info
        /\ u.tabs = s.tabs
    BY <2>4, <2>5, ShowInIs DEF u
  <2>7. DialogInv(u, panel)
    BY <1>3, <2>4, <2>6, FreeDialog DEF Activated
  <2>8. PanelInv(u, panel)
    BY <1>3, <2>4, <2>6 DEF Activated, PanelInv
  <2>9. Sparing
    <3>1. Open(u) = Open(v) /\ u.info = v.info /\ w' = u
      BY <2>3, <2>4, <2>6 DEF Activated, Open, Become
    <3>2. w.dirty \subseteq Open(u)
      BY <1>1, <1>3, <3>1 DEF Shape, RowsInv
    <3>. QED BY <1>3, <2>6, <3>1, <3>2, TabsCome
  <2>. QED BY <1>3, <2>3, <2>4, <2>6, <2>7, <2>8, <2>9, BecomeIs
<1>9. ASSUME old = {}, v.next \in Tabs, Become(ShowIn(z, p, v.next))
      PROVE  WorkIInv' /\ Sparing
  <2>. DEFINE n == v.next
              a == IF p = None THEN n ELSE p
              u == ShowIn(z, p, n)
              ts == Overflow(y, c, n)
              gone == ToSet(ts) \cap ToSet(y.tabs[c])
  <2>1. Fits(v, c, info)
    <3>1. info \in Infos /\ info.type # "none" /\ (info.type \in {"table", "object"} <=> info.name \in Names)
      BY <1>6 DEF Infos
    <3>2. info.parent # None => /\ info.type = "table" /\ info.parent \in ToSet(v.tabs[c])
                                /\ v.info[info.parent].type = "query"
      BY <1>5
    <3>3. ASSUME NEW t \in ToSet(v.tabs[c]), v.info[t] = info PROVE info.type = "query"
      <4>1. CASE t \in ToSet(w.tabs[c])
        <5>1. w.info[t] = info
          BY <1>3, <3>3, <4>1
        <5>2. t \in old
          BY <4>1, <5>1 DEF old, Existing
        <5>. QED BY <1>9, <5>2
      <4>2. CASE t \notin ToSet(w.tabs[c])
        BY <1>3, <3>3, <4>2
      <4>. QED BY <4>1, <4>2
    <3>. QED BY <3>1, <3>2, <3>3 DEF Fits
  <2>2. /\ Shape(x) /\ Added(x, v, c, info) /\ (Marks(v) => Marks(x))
        /\ ToSet(x.tabs[c]) = ToSet(v.tabs[c]) \cup {n}
        /\ \A d \in Conns : d # c => x.tabs[d] = v.tabs[d]
        /\ x.info[n] = info /\ \A t \in Tabs : t # n => x.info[t] = v.info[t]
    <3>1. x = Add(v, c, type, name, p) /\ info = [type |-> type, name |-> name, parent |-> p]
      BY DEF x
    <3>. HIDE DEF info
    <3>. QED BY <1>3, <1>9, <2>1, <3>1, AddIs
  <2>3. n \notin ToSet(v.tabs[c])
    <3>1. n \in Nat
      BY <1>9, WorkBounds
    <3>. QED BY <1>3, <3>1 DEF Shape, OrderInv
  <2>4. a \in ToSet(x.tabs[c]) /\ x.info[a].parent = None
    <3>1. CASE p = None
      BY <2>2, <3>1
    <3>2. CASE p # None
      <4>1. p \in ToSet(v.tabs[c]) /\ v.info[p].parent = None /\ p # n
        BY <1>5, <2>3, <3>2
      <4>2. p \in Tabs
        BY <1>3, <4>1, OpenIs
      <4>. QED BY <2>2, <3>2, <4>1, <4>2
    <3>. QED BY <3>1, <3>2
  <2>5. y = Activate(x, c, a) /\ Become(u) /\ z = CloseAll(y, c, ts)
    BY <1>9 DEF y, z, EnforceLimit
  <2>. HIDE DEF a, u, ts
  <2>6. Shape(y) /\ Activated(y, x, c, a) /\ (Marks(x) => Marks(y))
    BY <2>2, <2>4, <2>5, ActivateIs
  <2>7. n \in ToSet(y.tabs[c]) /\ y.info[n] = info
    BY <2>2, <2>6 DEF Activated
  <2>8. /\ ts \in Seq(Tabs) /\ (p # None => ts = <<>>)
        /\ \A t \in ToSet(ts) : y.info[t].type # "query" /\ t # n /\ t \notin y.dirty
    <3>1. /\ ts \in Seq(Tabs) /\ (y.info[n].parent # None => ts = <<>>)
          /\ \A t \in ToSet(ts) : y.info[t].type \in {"table", "object"} /\ t # n /\ t \notin y.dirty
      <4>1. ts = Overflow(y, c, n)
        BY DEF ts
      <4>. HIDE DEF n, info
      <4>2. Shape(y) /\ n \in ToSet(y.tabs[c])
        BY <2>6, <2>7
      <4>. QED BY <4>1, <4>2, OverflowIs
    <3>. QED BY <2>7, <3>1
  <2>9. Closes(z, y, gone) /\ (Marks(y) => Marks(z))
    BY <2>5, <2>6, <2>8, CloseAllIs
  <2>10. z.asking = None /\ z.cascade = NoCascade
    BY <1>3, <2>2, <2>6, <2>9 DEF Closes, Pruned, Activated, Added
  <2>11. p # None => /\ n \in ToSet(z.tabs[c]) /\ z.info[n].type = "table"
                     /\ p \in ToSet(z.tabs[c]) /\ z.info[p].type = "query"
    <3>. SUFFICES ASSUME p # None
                  PROVE  /\ n \in ToSet(z.tabs[c]) /\ z.info[n].type = "table"
                         /\ p \in ToSet(z.tabs[c]) /\ z.info[p].type = "query"
      OBVIOUS
    <3>1. gone = {}
      BY <2>8 DEF ToSet
    <3>. HIDE DEF gone
    <3>2. p \in ToSet(v.tabs[c]) /\ p \in Tabs /\ p # n /\ v.info[p].type = "query" /\ type = "table"
      BY <1>3, <1>5, <2>3, OpenIs
    <3>3. p \in ToSet(y.tabs[c]) /\ y.info[p].type = "query"
      BY <2>2, <2>6, <3>2 DEF Activated
    <3>4. z.info[p] = y.info[p] /\ z.info[n] = y.info[n] /\ ToSet(z.tabs[c]) = ToSet(y.tabs[c])
      BY <1>9, <2>9, <3>1, <3>2 DEF Closes, Pruned
    <3>. QED BY <2>7, <3>2, <3>3, <3>4
  <2>12. /\ Shape(u) /\ (Marks(z) => Marks(u))
         /\ u.asking = z.asking /\ u.cascade = z.cascade /\ u.info = z.info
        /\ u.tabs = z.tabs /\ u.dirty = z.dirty
    <3>1. Shape(z)
      BY <2>9 DEF Closes
    <3>. HIDE DEF n
    <3>. QED BY <2>11, <3>1, ShowInIs DEF u
  <2>13. DialogInv(u, panel)
    BY <2>10, <2>12, FreeDialog
  <2>14. PanelInv(u, panel)
    <3>1. CASE panel
      BY <3>1 DEF PanelInv
    <3>2. CASE ~panel
      <4>1. \A t \in Tabs : v.info[t].parent = None
        BY <1>3, <3>2 DEF PanelInv
      <4>2. \A t \in Tabs : y.info[t].parent = None
        BY <1>5, <2>2, <2>6, <3>2, <4>1 DEF Activated
      <4>3. \A t \in Tabs : z.info[t].parent = None
        BY <2>9, <4>2 DEF Closes, Pruned, NoTab
      <4>. QED BY <2>12, <4>3 DEF PanelInv
    <3>. QED BY <3>1, <3>2
  <2>15. /\ \A d \in Conns : ToSet(u.tabs[d]) = ToSet(y.tabs[d]) \ gone
         /\ \A t \in Tabs \ gone : u.info[t] = y.info[t]
         /\ u.dirty = y.dirty \ gone /\ y.dirty = w.dirty /\ gone \cap w.dirty = {}
         /\ n \notin gone /\ gone \subseteq Tabs /\ Open(u) = Open(y) \ gone
    <3>1. y.dirty = w.dirty
      BY <1>3, <2>2, <2>6 DEF Activated, Added
    <3>2. gone \subseteq ToSet(ts) /\ gone \subseteq Tabs
      BY <2>6, OpenIs
    <3>. HIDE DEF gone
    <3>3. gone \cap w.dirty = {} /\ n \notin gone
      BY <2>8, <3>1, <3>2
    <3>4. Open(z) = Open(y) \ gone
      BY <2>9, PrunedOpen DEF Closes
    <3>5. Open(u) = Open(z)
      BY <2>12 DEF Open
    <3>. QED BY <2>9, <2>12, <3>1, <3>2, <3>3, <3>4, <3>5 DEF Closes, Pruned
  <2>16. /\ Open(w) \subseteq Open(y)
         /\ \A d \in Conns : \A t \in ToSet(y.tabs[d]) : t \in Open(w) \/ (t = n /\ d = c) \/ y.info[t].type = "query"
    <3>1. /\ \A d \in Conns : ToSet(v.tabs[d]) \subseteq ToSet(y.tabs[d])
          /\ \A d \in Conns : \A t \in ToSet(y.tabs[d]) : t \in ToSet(v.tabs[d]) \/ (t = n /\ d = c)
      BY <2>2, <2>6 DEF Activated
    <3>2. Open(v) \subseteq Open(y)
      BY <3>1 DEF Open
    <3>3. ASSUME NEW d \in Conns, NEW t \in ToSet(v.tabs[d]), t \notin Open(w) PROVE y.info[t].type = "query"
      <4>1. t \in Open(v) /\ t \in Tabs
        BY <1>3, <3>3, OpenIs
      <4>2. v.info[t].type = "query"
        BY <1>3, <3>3, <4>1
      <4>3. t # n
        <5>1. Shape(v) /\ n \in Nat
          BY <1>3, <1>9, WorkBounds
        <5>2. t < n
          BY <5>1, OpenIs
        <5>. QED BY <5>1, <5>2
      <4>4. x.info[t] = v.info[t]
        BY <2>2, <4>1, <4>3
      <4>. QED BY <2>6, <4>2, <4>4 DEF Activated
    <3>. QED BY <1>3, <3>1, <3>2, <3>3
  <2>17. w' = u
    BY <2>5 DEF Become
  <2>18. Spared
    <3>1. w.dirty \subseteq Open(w)
      BY <1>1 DEF Shape, RowsInv
    <3>. QED BY <2>15, <2>16, <2>17, <3>1 DEF Spared
  <2>19. Limited
    <3>. SUFFICES ASSUME NEW d \in Conns, NEW t \in ToSet(u.tabs[d]), t \notin Open(w),
                         Type(u, t) # "query", u.info[t].parent = None, Limit # 0,
                         NEW group, group = {e \in ToSet(u.tabs[d]) : u.info[e].type = u.info[t].type
                                                                   /\ u.info[e].parent = None}
                  PROVE  Cardinality(group) <= Limit \/ group \ {t} \subseteq u.dirty
      BY <2>17 DEF Limited
    <3>1. t \in ToSet(y.tabs[d]) \ gone /\ t \in Tabs
      BY <2>6, <2>15, OpenIs
    <3>2. Type(u, t) = y.info[t].type /\ y.info[t].parent = None
      BY <2>15, <3>1, WorkBounds DEF Type
    <3>3. t = n /\ d = c
      BY <2>16, <3>1, <3>2
    <3>4. p = None
      BY <2>7, <3>2, <3>3
    <3>5. \A e \in ToSet(y.tabs[c]) : e \in Tabs /\ e # None
      BY <2>6, OpenIs, WorkBounds
    <3>6. group = Group(y, c, n) \ ToSet(ts)
      <4>1. ToSet(u.tabs[c]) = ToSet(y.tabs[c]) \ ToSet(ts)
        BY <2>15
      <4>2. \A e \in ToSet(y.tabs[c]) \ ToSet(ts) : u.info[e] = y.info[e] /\ Type(y, e) = y.info[e].type
        BY <2>15, <3>5 DEF Type
      <4>3. u.info[t] = y.info[n] /\ Type(y, n) = y.info[n].type
        BY <2>15, <3>1, <3>3, <3>5 DEF Type
      <4>. QED BY <3>3, <4>1, <4>2, <4>3 DEF Group
    <3>7. Cardinality(Group(y, c, n) \ ToSet(ts)) <= Limit \/ (Group(y, c, n) \ ToSet(ts)) \ {n} \subseteq y.dirty
      <4>1. y.info[n].type \in {"table", "object"} /\ y.info[n].parent = None
        BY <2>7, <3>4
      <4>. HIDE DEF n
      <4>. QED BY <2>6, <2>7, <4>1, OverflowFits DEF ts
    <3>8. group \cap gone = {}
      BY <3>6
    <3>. QED BY <2>15, <3>3, <3>6, <3>7, <3>8
  <2>20. Sparing
    BY <2>18, <2>19 DEF Sparing
  <2>. QED BY <1>3, <2>2, <2>5, <2>6, <2>9, <2>12, <2>13, <2>14, <2>20, BecomeIs
<1>. QED BY <1>2, <1>8, <1>9


(* A question is asked, or answered.                                       *)
Ask(v, a, k) == [v EXCEPT !.asking = a, !.cascade = k]

LEMMA AskIs ==
  ASSUME NEW v, Shape(v), NEW a \in 0 .. MaxTabs, NEW k \in [query : 0 .. MaxTabs, children : Seq(Tabs)],
         NEW u, u = Ask(v, a, k)
  PROVE  /\ Shape(u) /\ (Marks(v) => Marks(u)) /\ u.asking = a /\ u.cascade = k
         /\ u.tabs = v.tabs /\ u.info = v.info /\ u.bottom = v.bottom /\ u.loaded = v.loaded
<1>1. v \in Workspaces
  BY DEF Shape
<1>2. /\ u \in Workspaces /\ u.asking = a /\ u.cascade = k
      /\ u.attached = v.attached /\ u.tabs = v.tabs /\ u.active = v.active /\ u.visible = v.visible
      /\ u.info = v.info /\ u.bottom = v.bottom /\ u.loaded = v.loaded /\ u.marked = v.marked
      /\ u.evicted = v.evicted /\ u.dirty = v.dirty /\ u.next = v.next /\ u.used = v.used
  BY <1>1 DEF Workspaces, Ask
<1>3. Open(u) = Open(v)
  BY <1>2 DEF Open
<1>4. RowsInv(u)
  BY <1>2, <1>3 DEF Shape, RowsInv
<1>5. Calm(u, v)
  BY <1>2 DEF Calm
<1>6. Screen(u) = Screen(v)
  BY <1>2, ScreenFrame
<1>. QED BY <1>2, <1>4, <1>5, <1>6, CalmIs DEF Marks

LEMMA SettledIsTight ==
  ASSUME WorkIInv, Settled, panel
  PROVE  Tight(w)
<1>. SUFFICES ASSUME NEW q \in Tabs, w.bottom[q] \in Open(w)
              PROVE  w.info[w.bottom[q]].parent = q
  BY DEF Tight
<1>1. w.bottom[q] # None /\ q # None
  <2>1. \A d \in Conns : None \notin ToSet(w.tabs[d])
    BY OpenIs, WorkBounds DEF WorkIInv
  <2>. QED BY <2>1, WorkBounds DEF Open
<1>2. Type(w, q) = "query"
  BY <1>1 DEF WorkIInv, Shape, BottomInv, Type
<1>. QED BY <1>1, <1>2 DEF Settled, Stale

LEMMA RequestActivateTabKeeps ==
  ASSUME WorkIInv, NEW c \in Conns, NEW t \in Tabs, RequestActivateTab(c, t)
  PROVE  WorkIInv' /\ Sparing
<1>. DEFINE u == Activate(w, c, t)
<1>1. t \in ToSet(w.tabs[c]) /\ w.info[t].parent = None /\ Become(u) /\ Shape(w)
  BY DEF RequestActivateTab, WorkIInv
<1>. HIDE DEF u
<1>2. Shape(u) /\ Activated(u, w, c, t) /\ (Marks(w) => Marks(u))
  BY <1>1, ActivateIs DEF u
<1>3. DialogInv(u, panel) /\ PanelInv(u, panel)
  <2>1. /\ u.tabs = w.tabs /\ u.info = w.info /\ \A q \in Tabs : u.bottom[q] \in {w.bottom[q], None}
        /\ u.asking \in {w.asking, None} /\ u.cascade \in {w.cascade, NoCascade}
    BY <1>2 DEF Activated
  <2>. QED BY <1>1, <2>1, DialogFrame DEF WorkIInv
<1>. QED BY <1>1, <1>2, <1>3, BecomeIs DEF Activated

LEMMA ChildrenAre ==
  ASSUME NEW v, Shape(v), NEW c \in Conns, NEW q \in ToSet(v.tabs[c]), NEW kids, kids = Children(v, c, q)
  PROVE  /\ kids \in Seq(Tabs) /\ ToSet(kids) \subseteq ToSet(v.tabs[c])
         /\ \A t \in ToSet(kids) : v.info[t].type = "table" /\ v.info[t].parent = q
         /\ \A t \in Tabs : v.info[t].parent = q => t \in ToSet(kids) /\ v.info[q].type = "query"
<1>. DEFINE S == {t \in Tabs : v.info[t].parent = q}
<1>1. v.tabs[c] \in Seq(Tabs) /\ q \in Tabs /\ q # None
  BY FieldsAre, OpenIs, WorkBounds DEF Shape
<1>2. kids = Only(v.tabs[c], S)
  BY DEF Children
<1>. HIDE DEF S
<1>3. kids \in Seq(Tabs) /\ ToSet(kids) = ToSet(v.tabs[c]) \cap S
  BY <1>1, <1>2, OnlyIs
<1>4. ASSUME NEW t \in ToSet(kids) PROVE v.info[t].type = "table" /\ v.info[t].parent = q
  <2>1. t \in ToSet(v.tabs[c]) /\ v.info[t].parent = q
    BY <1>3 DEF S
  <2>. QED BY <1>1, <2>1 DEF Shape, InfoInv, Scoped
<1>5. ASSUME NEW t \in Tabs, v.info[t].parent = q PROVE t \in ToSet(kids) /\ v.info[q].type = "query"
  <2>1. t \in Open(v)
    BY <1>1, <1>5 DEF Shape, InfoInv, NoTab
  <2>2. PICK d \in Conns : t \in ToSet(v.tabs[d])
    BY <2>1 DEF Open
  <2>3. Scoped(v, d, t)
    BY <1>1, <1>5, <2>2 DEF Shape, InfoInv
  <2>4. d = c /\ v.info[q].type = "query"
    BY <1>5, <2>3, OpenIs DEF Scoped
  <2>. QED BY <1>3, <1>5, <2>2, <2>4 DEF S
<1>. QED BY <1>3, <1>4, <1>5

LEMMA SelectBottomKeeps ==
  ASSUME WorkIInv, NEW c \in Conns, NEW t \in 0 .. MaxTabs, SelectBottom(c, t)
  PROVE  WorkIInv' /\ Sparing
<1>. DEFINE q == w.active[c]
            u == SetBottoms(w, {q}, t)
            kids == Children(w, c, q)
<1>1. /\ Shape(w) /\ w.asking = None /\ w.cascade = NoCascade /\ Type(w, q) = "query"
      /\ t \in ToSet(kids) \cup {None} /\ Become(u)
  BY DEF SelectBottom, WorkIInv, At, Free, SetBottom
<1>. HIDE DEF q, u
<1>2. q \in ToSet(w.tabs[c]) /\ w.info[q].type = "query"
  BY <1>1 DEF Shape, ActiveInv, Type, q
<1>3. q \in Tabs
  BY <1>1, <1>2, OpenIs
<1>4. t # None => t \in ToSet(w.tabs[c]) /\ w.info[t].type = "table"
  BY <1>1, <1>2, ChildrenAre
<1>5. /\ Shape(u) /\ (Marks(w) => Marks(u))
      /\ Retold(u, w, [x \in Tabs |-> IF x \in {q} THEN t ELSE w.bottom[x]])
  <2>1. \/ t = None
        \/ \E d \in Conns : /\ t \in ToSet(w.tabs[d]) /\ w.info[t].type = "table"
                            /\ \A x \in {q} : x \in ToSet(w.tabs[d]) /\ w.info[x].type = "query"
    BY <1>2, <1>4
  <2>2. {q} \in SUBSET Tabs
    BY <1>3
  <2>. QED BY <1>1, <2>1, <2>2, SetBottomsIs DEF u
<1>6. DialogInv(u, panel) /\ PanelInv(u, panel)
  BY <1>1, <1>5, FreeDialog DEF Retold, PanelInv, WorkIInv
<1>. QED BY <1>1, <1>5, <1>6, BecomeIs DEF Retold

LEMMA ResetBottomKeeps ==
  ASSUME WorkIInv, NEW q \in Tabs, ResetBottom(q)
  PROVE  WorkIInv' /\ Sparing
<1>. DEFINE u == SetBottoms(w, {q}, None)
<1>1. Shape(w) /\ Become(u)
  BY DEF ResetBottom, WorkIInv, SetBottom
<1>. HIDE DEF u
<1>2. /\ Shape(u) /\ (Marks(w) => Marks(u))
      /\ Retold(u, w, [x \in Tabs |-> IF x \in {q} THEN None ELSE w.bottom[x]])
  <2>1. None \in 0 .. MaxTabs /\ {q} \in SUBSET Tabs
    BY WorkBounds DEF None
  <2>. QED BY <1>1, <2>1, SetBottomsIs DEF u
<1>3. DialogInv(u, panel) /\ PanelInv(u, panel)
  <2>1. /\ u.tabs = w.tabs /\ u.info = w.info /\ \A x \in Tabs : u.bottom[x] \in {w.bottom[x], None}
        /\ u.asking \in {w.asking, None} /\ u.cascade \in {w.cascade, NoCascade}
    BY <1>2 DEF Retold
  <2>. QED BY <1>1, <2>1, DialogFrame DEF WorkIInv
<1>. QED BY <1>1, <1>2, <1>3, BecomeIs DEF Retold


LEMMA CloseTabKeeps ==
  ASSUME WorkIInv, NEW c \in Conns, NEW t \in Tabs, CloseTab(c, t)
  PROVE  WorkIInv' /\ Sparing
<1>. DEFINE kids == IF Type(w, t) = "query" THEN Children(w, c, t) ELSE <<>>
            ask == [w EXCEPT !.asking = t]
            k   == [query |-> t, children |-> kids]
            cascade == [w EXCEPT !.cascade = k]
            s == SurfaceOf(w, t)
            clean == ({t} \cup ToSet(kids)) \cap w.dirty = {}
<1>1. /\ Shape(w) /\ w.asking = None /\ w.cascade = NoCascade /\ Settled /\ t \in ToSet(w.tabs[c])
      /\ DialogInv(w, panel) /\ PanelInv(w, panel)
  BY DEF CloseTab, WorkIInv, At, Free
<1>2. \/ kids = <<>> /\ Become(ask)
      \/ kids # <<>> /\ Become(cascade)
      \/ kids # <<>> /\ clean /\ Become(CloseAll(w, c, Append(kids, t)))
      \/ kids = <<>> /\ clean /\ Become(Closed(w, c, t, s))
  BY DEF CloseTab
<1>3. w \in Workspaces /\ t \in 0 .. MaxTabs /\ t # None
  BY <1>1, WorkBounds DEF Shape, Tabs
<1>4. /\ kids \in Seq(Tabs) /\ ToSet(kids) \subseteq ToSet(w.tabs[c])
      /\ \A x \in ToSet(kids) : w.info[x].type = "table" /\ w.info[x].parent = t
      /\ \A x \in Tabs : w.info[x].parent = t => x \in ToSet(kids) /\ w.info[t].type = "query"
  <2>1. /\ Children(w, c, t) \in Seq(Tabs) /\ ToSet(Children(w, c, t)) \subseteq ToSet(w.tabs[c])
        /\ \A x \in ToSet(Children(w, c, t)) : w.info[x].type = "table" /\ w.info[x].parent = t
        /\ \A x \in Tabs : w.info[x].parent = t => x \in ToSet(Children(w, c, t)) /\ w.info[t].type = "query"
    BY <1>1, ChildrenAre
  <2>2. Type(w, t) = w.info[t].type
    BY <1>3 DEF Type
  <2>3. CASE Type(w, t) = "query"
    BY <2>1, <2>3
  <2>4. CASE Type(w, t) # "query"
    <3>1. kids = <<>> /\ kids \in Seq(Tabs) /\ ToSet(kids) = {}
      BY <2>4 DEF ToSet
    <3>. HIDE DEF kids
    <3>. QED BY <2>1, <2>2, <2>4, <3>1
  <2>. QED BY <2>3, <2>4
<1>5. panel => Tight(w)
  BY <1>1, SettledIsTight
<1>. HIDE DEF kids
<1>6. kids = <<>> => ToSet(kids) = {}
  BY DEF ToSet
<1>7. ASSUME kids = <<>>, Become(ask) PROVE WorkIInv' /\ Sparing
  <2>1. w.cascade \in [query : 0 .. MaxTabs, children : Seq(Tabs)] /\ ask = Ask(w, t, w.cascade)
    BY <1>3 DEF Workspaces, Ask
  <2>. HIDE DEF ask
  <2>2. /\ Shape(ask) /\ (Marks(w) => Marks(ask)) /\ ask.asking = t /\ ask.cascade = w.cascade
        /\ ask.tabs = w.tabs /\ ask.info = w.info /\ ask.bottom = w.bottom /\ ask.loaded = w.loaded
    BY <1>1, <1>3, <2>1, AskIs
  <2>3. Open(ask) = Open(w) /\ t \in Open(w)
    BY <1>1, <2>2, OpenIs DEF Open
  <2>4. \A x \in Tabs : w.info[x].parent # t
    BY <1>4, <1>6, <1>7
  <2>5. panel => Tight(ask)
    BY <1>5, <2>2, <2>3 DEF Tight
  <2>6. DialogInv(ask, panel)
    BY <1>1, <2>2, <2>3, <2>4, <2>5 DEF DialogInv
  <2>7. PanelInv(ask, panel)
    BY <1>1, <2>2 DEF PanelInv
  <2>. QED BY <1>7, <2>2, <2>6, <2>7, BecomeIs
<1>8. ASSUME kids # <<>>, Become(cascade) PROVE WorkIInv' /\ Sparing
  <2>1. /\ k \in [query : 0 .. MaxTabs, children : Seq(Tabs)] /\ w.asking \in 0 .. MaxTabs
        /\ cascade = Ask(w, w.asking, k)
    BY <1>3, <1>4 DEF Workspaces, Ask
  <2>2. k.query = t /\ k.children = kids
    OBVIOUS
  <2>. HIDE DEF cascade, k
  <2>3. /\ Shape(cascade) /\ (Marks(w) => Marks(cascade)) /\ cascade.asking = w.asking /\ cascade.cascade = k
        /\ cascade.tabs = w.tabs /\ cascade.info = w.info /\ cascade.bottom = w.bottom
        /\ cascade.loaded = w.loaded
    BY <1>1, <1>3, <2>1, AskIs
  <2>4. Open(cascade) = Open(w)
    BY <2>3 DEF Open
  <2>5. w.info[t].type = "query"
    <3>1. PICK x : x \in ToSet(kids)
      <4>1. Len(kids) \in Nat /\ Len(kids) # 0 /\ DOMAIN kids = 1 .. Len(kids)
        BY <1>4, <1>8
      <4>2. kids[1] \in ToSet(kids)
        BY <4>1 DEF ToSet
      <4>. QED BY <4>2
    <3>2. x \in Tabs /\ w.info[x].parent = t
      BY <1>1, <1>4, <3>1, OpenIs
    <3>. QED BY <1>4, <3>2
  <2>6. panel => Tight(cascade)
    BY <1>5, <2>3, <2>4 DEF Tight
  <2>7. DialogInv(cascade, panel)
    BY <1>1, <1>3, <1>4, <2>2, <2>3, <2>4, <2>5, <2>6 DEF DialogInv
  <2>8. PanelInv(cascade, panel)
    BY <1>1, <2>3 DEF PanelInv
  <2>. QED BY <1>8, <2>3, <2>7, <2>8, BecomeIs
<1>9. ASSUME kids # <<>>, clean, Become(CloseAll(w, c, Append(kids, t))) PROVE WorkIInv' /\ Sparing
  <2>. DEFINE u == CloseAll(w, c, Append(kids, t))
              gone == (ToSet(kids) \cup {t}) \cap ToSet(w.tabs[c])
  <2>1. PICK x : x \in ToSet(kids)
    <3>1. Len(kids) \in Nat /\ Len(kids) # 0 /\ DOMAIN kids = 1 .. Len(kids)
      BY <1>4, <1>9
    <3>2. kids[1] \in ToSet(kids)
      BY <3>1 DEF ToSet
    <3>. QED BY <3>2
  <2>2. x \in Tabs /\ w.info[x].parent = t
    BY <1>1, <1>4, <2>1, OpenIs
  <2>3. panel /\ w.info[t].type = "query"
    BY <1>1, <1>3, <1>4, <2>2 DEF PanelInv
  <2>4. w.bottom[t] \in w.loaded => w.bottom[t] \in ToSet(kids) \cap ToSet(w.tabs[c])
    <3>. SUFFICES ASSUME w.bottom[t] \in w.loaded PROVE w.bottom[t] \in ToSet(kids) \cap ToSet(w.tabs[c])
      OBVIOUS
    <3>1. w.bottom[t] \in Open(w) /\ w.bottom[t] \in Tabs
      BY <1>1, FieldsAre DEF Shape, RowsInv
    <3>2. w.info[w.bottom[t]].parent = t
      BY <1>5, <2>3, <3>1 DEF Tight
    <3>. QED BY <1>4, <3>1, <3>2
  <2>5. \A y \in ToSet(kids) : w.info[y].type # "query"
    BY <1>4
  <2>6. Become(u)
    BY <1>9
  <2>7. Closes(u, w, gone) /\ (Marks(w) => Marks(u))
    <3>1. /\ Closes(u, w, gone)
          /\ Marks(w) /\ (w.bottom[t] \in w.loaded => w.bottom[t] \in ToSet(kids) \cap ToSet(w.tabs[c]))
               => Marks(u)
      BY <1>1, <1>4, <2>3, <2>5, CloseGroupIs
    <3>. QED BY <2>4, <3>1
  <2>8. gone \in SUBSET Tabs
    BY <1>1, OpenIs
  <2>10. gone \cap w.dirty = {}
    BY <1>9
  <2>. HIDE DEF u, gone
  <2>9. Shape(u) /\ DialogInv(u, panel) /\ PanelInv(u, panel)
    BY <1>1, <2>7, <2>8, PrunedDialog DEF Closes
  <2>11. Sparing
    <3>1. Open(u) = Open(w) \ gone /\ w' = u /\ w.dirty \subseteq Open(w)
      BY <1>1, <2>6, <2>7, PrunedOpen DEF Closes, Become, Shape, RowsInv
    <3>. QED BY <2>10, <3>1, TabsGo
  <2>. QED BY <2>6, <2>7, <2>9, <2>11, BecomeIs
<1>10. ASSUME kids = <<>>, clean, Become(Closed(w, c, t, s)) PROVE WorkIInv' /\ Sparing
  <2>. DEFINE u == Closed(w, c, t, s)
  <2>1. Whole(w, {t})
    <3>1. \A x \in Open(w) : x \in Tabs
      BY <1>1, OpenIs DEF Open
    <3>. QED BY <1>4, <1>6, <1>10, <3>1 DEF Whole
  <2>2. /\ Shape(u) /\ Pruned(u, w, {t})
        /\ Marks(w) /\ (SurfaceOf(w, t) \in w.loaded => SurfaceOf(w, t) \in {t, s}) => Marks(u)
    BY <1>1, <2>1, ClosedIs
  <2>3. Marks(w) => Marks(u)
    BY <2>2
  <2>4. Become(u)
    BY <1>10
  <2>. HIDE DEF u
  <2>5. {t} \in SUBSET Tabs
    OBVIOUS
  <2>6. DialogInv(u, panel) /\ PanelInv(u, panel)
    BY <1>1, <2>2, <2>5, PrunedDialog
  <2>7. Sparing
    <3>1. Open(u) = Open(w) \ {t} /\ w' = u /\ w.dirty \subseteq Open(w)
      BY <1>1, <2>2, <2>4, PrunedOpen DEF Become, Shape, RowsInv
    <3>. QED BY <1>10, <3>1, TabsGo
  <2>. QED BY <2>2, <2>3, <2>4, <2>6, <2>7, BecomeIs
<1>. QED BY <1>2, <1>7, <1>8, <1>9, <1>10

LEMMA ConfirmCloseKeeps ==
  ASSUME WorkIInv, NEW t \in Tabs, ConfirmClose(t)
  PROVE  WorkIInv' /\ Sparing
<1>. DEFINE c == ConnOf(w, t)
            u == ForceClose(w, c, t)
<1>1. /\ Shape(w) /\ t = w.asking /\ t # None /\ Become(u)
      /\ DialogInv(w, panel) /\ PanelInv(w, panel)
  BY WorkBounds DEF ConfirmClose, WorkIInv
<1>2. t \in Open(w) /\ (\A x \in Tabs : w.info[x].parent # t) /\ (panel => Tight(w))
  BY <1>1 DEF DialogInv
<1>3. c \in Conns
  <2>1. PICK d \in Conns : t \in ToSet(w.tabs[d])
    BY <1>2 DEF Open
  <2>2. c = d
    BY <1>1, <2>1, OpenIs
  <2>. QED BY <2>2
<1>. HIDE DEF c, u
<1>4. Whole(w, {t})
  <2>1. \A x \in Open(w) : x \in Tabs
    BY <1>1, OpenIs DEF Open
  <2>. QED BY <1>2, <2>1 DEF Whole
<1>5. /\ Shape(u) /\ Pruned(u, w, {t} \cap ToSet(w.tabs[c]))
      /\ Marks(w) /\ (w.info[t].type = "query" => w.bottom[t] \notin w.loaded) => Marks(u)
  <2>1. u = ForceClose(w, c, t) /\ Shape(w) /\ (t \in ToSet(w.tabs[c]) => Whole(w, {t}))
    BY <1>1, <1>4 DEF u
  <2>. QED BY <1>3, <2>1, ForceCloseIs
<1>6. ASSUME panel \/ ~Dangling(w) PROVE w.bottom[t] \notin w.loaded
  <2>. SUFFICES ASSUME w.bottom[t] \in w.loaded PROVE FALSE
    OBVIOUS
  <2>1. w.bottom[t] \in Open(w) /\ w.bottom[t] \in Tabs /\ w.bottom[t] # None
    BY <1>1, FieldsAre, WorkBounds DEF Shape, RowsInv
  <2>2. w.info[w.bottom[t]].parent = t
    BY <1>2, <1>6, <2>1 DEF Tight, Dangling
  <2>. QED BY <1>2, <2>1, <2>2
<1>7. {t} \cap ToSet(w.tabs[c]) \in SUBSET Tabs
  OBVIOUS
<1>8. DialogInv(u, panel) /\ PanelInv(u, panel)
  BY <1>1, <1>5, <1>7, PrunedDialog
<1>9. Sparing
  <2>1. Open(u) = Open(w) \ ({t} \cap ToSet(w.tabs[c])) /\ w' = u /\ w.dirty \subseteq Open(w)
    BY <1>1, <1>5, PrunedOpen DEF Become, Shape, RowsInv
  <2>2. Purpose(t)
    BY <1>1 DEF Purpose
  <2>. QED BY <2>1, <2>2, TabsGo
<1>. QED BY <1>1, <1>5, <1>6, <1>8, <1>9, BecomeIs

LEMMA CancelCloseKeeps ==
  ASSUME WorkIInv, NEW t \in Tabs, CancelClose(t)
  PROVE  WorkIInv' /\ Sparing
<1>. DEFINE u == [w EXCEPT !.asking = None]
<1>1. Shape(w) /\ w \in Workspaces /\ Become(u) /\ None \in 0 .. MaxTabs
  BY WorkBounds DEF CancelClose, WorkIInv, Shape, None
<1>2. u = Ask(w, None, w.cascade)
  BY <1>1 DEF Workspaces, Ask
<1>. HIDE DEF u
<1>3. /\ Shape(u) /\ (Marks(w) => Marks(u)) /\ u.asking = None /\ u.cascade = w.cascade
      /\ u.tabs = w.tabs /\ u.info = w.info /\ u.bottom = w.bottom
  BY <1>1, <1>2, FieldsAre, AskIs
<1>4. DialogInv(u, panel) /\ PanelInv(u, panel)
  <2>1. /\ \A q \in Tabs : u.bottom[q] \in {w.bottom[q], None}
        /\ u.asking \in {w.asking, None} /\ u.cascade \in {w.cascade, NoCascade}
    BY <1>3
  <2>. QED BY <1>1, <1>3, <2>1, DialogFrame DEF WorkIInv
<1>. QED BY <1>1, <1>3, <1>4, BecomeIs

LEMMA NoCascadeIs == NoCascade \in [query : 0 .. MaxTabs, children : Seq(Tabs)]
<1>1. None \in 0 .. MaxTabs /\ <<>> \in Seq(Tabs)
  BY WorkBounds DEF None
<1>. QED BY <1>1 DEF NoCascade

(* The cascade is answered.                                                *)
LEMMA UncascadedIs ==
  ASSUME WorkIInv, NEW v, v = [w EXCEPT !.cascade = NoCascade]
  PROVE  /\ Shape(v) /\ (Marks(w) => Marks(v)) /\ DialogInv(v, panel) /\ PanelInv(v, panel)
         /\ v.tabs = w.tabs /\ v.info = w.info /\ v.bottom = w.bottom /\ v.loaded = w.loaded
<1>1. Shape(w) /\ w \in Workspaces
  BY DEF WorkIInv, Shape
<1>2. v = Ask(w, w.asking, NoCascade)
  BY <1>1 DEF Workspaces, Ask
<1>3. /\ Shape(v) /\ (Marks(w) => Marks(v)) /\ v.asking = w.asking /\ v.cascade = NoCascade
      /\ v.tabs = w.tabs /\ v.info = w.info /\ v.bottom = w.bottom /\ v.loaded = w.loaded
  <2>1. w.asking \in 0 .. MaxTabs
    BY <1>1, FieldsAre
  <2>. QED BY <1>1, <1>2, <2>1, NoCascadeIs, AskIs
<1>4. DialogInv(v, panel) /\ PanelInv(v, panel)
  <2>1. /\ \A q \in Tabs : v.bottom[q] \in {w.bottom[q], None}
        /\ v.asking \in {w.asking, None} /\ v.cascade \in {w.cascade, NoCascade}
    BY <1>3
  <2>. QED BY <1>1, <1>3, <2>1, DialogFrame DEF WorkIInv
<1>. QED BY <1>3, <1>4

LEMMA CancelCascadeKeeps ==
  ASSUME WorkIInv, CancelCascade
  PROVE  WorkIInv' /\ Sparing
BY UncascadedIs, BecomeIs DEF CancelCascade

LEMMA ConfirmCascadeKeeps ==
  ASSUME WorkIInv, ConfirmCascade
  PROVE  WorkIInv' /\ Sparing
<1>. DEFINE q == w.cascade.query
            kids == w.cascade.children
            v == [w EXCEPT !.cascade = NoCascade]
            c == ConnOf(w, q)
            u == CloseAll(v, c, Append(kids, q))
            gone == (ToSet(kids) \cup {q}) \cap ToSet(v.tabs[c])
<1>1. /\ w.cascade # NoCascade /\ Shape(w) /\ DialogInv(w, panel)
      /\ Become(IF q \in Open(w) THEN u ELSE v)
  BY DEF ConfirmCascade, WorkIInv
<1>2. kids \in Seq(Tabs)
  BY <1>1, FieldsAre DEF Shape
<1>3. /\ Shape(v) /\ (Marks(w) => Marks(v)) /\ DialogInv(v, panel) /\ PanelInv(v, panel)
      /\ v.tabs = w.tabs /\ v.info = w.info /\ v.bottom = w.bottom /\ v.loaded = w.loaded
  <2>. HIDE DEF v
  <2>1. v = [w EXCEPT !.cascade = NoCascade]
    BY DEF v
  <2>. QED BY <2>1, UncascadedIs
<1>4. CASE q \notin Open(w)
  BY <1>1, <1>3, <1>4, BecomeIs
<1>5. CASE q \in Open(w)
  <2>1. Become(u)
    BY <1>1, <1>5
  <2>2. PICK d \in Conns : q \in ToSet(w.tabs[d])
    BY <1>5 DEF Open
  <2>3. c = d /\ c \in Conns /\ q \in ToSet(v.tabs[c])
    <3>1. c = d
      BY <1>1, <2>2, OpenIs
    <3>. QED BY <1>3, <2>2, <3>1
  <2>4. /\ v.info[q].type = "query"
        /\ \A t \in Tabs : v.info[t].parent = q => t \in ToSet(kids)
        /\ \A t \in ToSet(kids) : t \in Open(w) => w.info[t].type = "table"
        /\ panel => Tight(w)
    BY <1>1, <1>3, <1>5 DEF DialogInv
  <2>5. \A t \in ToSet(kids) : v.info[t].type # "query"
    <3>1. ToSet(kids) \subseteq Tabs
      BY <1>2 DEF ToSet
    <3>2. \A t \in Tabs : t \notin Open(w) => w.info[t].type = "none"
      BY <1>1 DEF Shape, InfoInv, NoTab
    <3>. QED BY <1>3, <2>4, <3>1, <3>2
  <2>. HIDE DEF q, kids, v, c, u, gone
  <2>6. /\ Closes(u, v, gone)
        /\ Marks(v) /\ (v.bottom[q] \in v.loaded => v.bottom[q] \in ToSet(kids) \cap ToSet(v.tabs[c]))
             => Marks(u)
    BY <1>2, <1>3, <2>3, <2>4, <2>5, CloseGroupIs DEF u, gone
  <2>7. gone \in SUBSET Tabs
    BY <1>3, <2>3, OpenIs DEF gone
  <2>8. Shape(u) /\ DialogInv(u, panel) /\ PanelInv(u, panel)
    BY <1>3, <2>6, <2>7, PrunedDialog DEF Closes
  <2>9. ASSUME panel \/ ~Dangling(w), v.bottom[q] \in v.loaded
        PROVE  v.bottom[q] \in ToSet(kids) \cap ToSet(v.tabs[c])
    <3>. DEFINE b == v.bottom[q]
    <3>1. b \in Open(w) /\ b \in Tabs /\ b # None /\ b = w.bottom[q] /\ q \in Tabs
      BY <1>1, <1>3, <2>2, <2>9, FieldsAre, OpenIs, WorkBounds DEF Shape, RowsInv
    <3>2. w.info[b].parent = q
      BY <2>4, <2>9, <3>1 DEF Tight, Dangling
    <3>3. b \in ToSet(kids)
      BY <1>3, <2>4, <3>1, <3>2
    <3>4. PICK e \in Conns : b \in ToSet(w.tabs[e])
      BY <3>1 DEF Open
    <3>5. q \in ToSet(w.tabs[e])
      BY <1>1, <3>1, <3>4 DEF Shape, BottomInv
    <3>6. e = c
      BY <1>1, <2>2, <2>3, <3>5, OpenIs
    <3>. QED BY <1>3, <3>3, <3>4, <3>6
  <2>10. Sparing
    <3>1. Open(u) = Open(w) \ gone /\ w' = u /\ w.dirty \subseteq Open(w)
      BY <1>1, <1>3, <2>1, <2>6, PrunedOpen DEF Closes, Become, Open, Shape, RowsInv
    <3>2. \A t \in gone : Purpose(t)
      BY DEF gone, q, kids, Purpose
    <3>. QED BY <3>1, <3>2, TabsGo
  <2>. QED BY <1>3, <2>1, <2>6, <2>8, <2>9, <2>10, BecomeIs
<1>. QED BY <1>4, <1>5


(* A step that may put the marks wrong.                                    *)
LEMMA NoteIs ==
  ASSUME WorkIInv, NEW v, w' = v, panel' \in BOOLEAN, NEW x, Note(x), Shape(v),
         DialogInv(v, panel'), PanelInv(v, panel'), Marks(w) /\ ~Gap(x) => Marks(v)
  PROVE  WorkIInv'
<1>1. stray' = (Wrong(v) /\ (stray \/ Gap(x)))
  BY DEF Note
<1>2. stray' \in BOOLEAN
  BY <1>1
<1>3. Wrong(v) => stray'
  <2>. SUFFICES ASSUME Wrong(v), ~Gap(x) PROVE stray
    BY <1>1
  <2>1. ~Marks(w)
    BY DEF Wrong, Marks
  <2>. QED BY <2>1 DEF WorkIInv, ScreenIsActive, Wrong, Marks
<1>4. Wrong(w') => stray'
  BY <1>3
<1>5. Shape(w') /\ DialogInv(w', panel') /\ PanelInv(w', panel')
  OBVIOUS
<1>. QED BY <1>2, <1>4, <1>5 DEF WorkIInv, ScreenIsActive

(* Rows change and nothing else does.                                      *)
LEMMA RowsStep ==
  ASSUME WorkIInv, NEW u, Become(u), Calm(u, w), u.bottom = w.bottom, RowsInv(u),
         u.asking = w.asking, u.cascade = w.cascade, Marks(w) => u.marked = {Screen(w)} \cap u.loaded
  PROVE  WorkIInv' /\ Sparing
<1>1. Shape(w) /\ DialogInv(w, panel) /\ PanelInv(w, panel)
  BY DEF WorkIInv
<1>2. Shape(u)
  BY <1>1, CalmIs
<1>3. DialogInv(u, panel) /\ PanelInv(u, panel)
  BY <1>1, DialogFrame DEF Calm
<1>4. Screen(u) = Screen(w)
  BY <1>1, ScreenFrame DEF Calm
<1>. QED BY <1>2, <1>3, <1>4, BecomeIs DEF Marks, Calm

Rows(v, loaded, marked, evicted, dirty) ==
  [v EXCEPT !.loaded = loaded, !.marked = marked, !.evicted = evicted, !.dirty = dirty]

LEMMA RowsFields ==
  ASSUME WorkIInv, NEW loaded \in SUBSET Tabs, NEW marked \in SUBSET Tabs, NEW evicted \in SUBSET Tabs,
         NEW dirty \in SUBSET Tabs, NEW u, u = Rows(w, loaded, marked, evicted, dirty)
  PROVE  /\ Calm(u, w) /\ u.bottom = w.bottom /\ u.asking = w.asking /\ u.cascade = w.cascade
         /\ u.loaded = loaded /\ u.marked = marked /\ u.evicted = evicted /\ u.dirty = dirty
<1>. DEFINE x == [w EXCEPT !.loaded = loaded, !.marked = marked]
<1>1. w \in Workspaces
  BY DEF WorkIInv, Shape
<1>2. x \in Workspaces
  BY <1>1 DEF Workspaces
<1>3. u = [x EXCEPT !.evicted = evicted, !.dirty = dirty]
  BY <1>1 DEF Workspaces, Rows
<1>4. u \in Workspaces
  <2>. HIDE DEF x
  <2>. QED BY <1>2, <1>3 DEF Workspaces
<1>5. /\ u.attached = w.attached /\ u.tabs = w.tabs /\ u.active = w.active /\ u.visible = w.visible
      /\ u.info = w.info /\ u.used = w.used /\ u.next = w.next /\ u.bottom = w.bottom
      /\ u.asking = w.asking /\ u.cascade = w.cascade
      /\ u.loaded = loaded /\ u.marked = marked /\ u.evicted = evicted /\ u.dirty = dirty
  BY <1>1 DEF Workspaces, Rows
<1>. QED BY <1>4, <1>5 DEF Calm

LEMMA LoadKeeps ==
  ASSUME WorkIInv, NEW t \in Tabs, Load(t)
  PROVE  WorkIInv' /\ Sparing
<1>. DEFINE s == Screen(w)
            loaded == w.loaded \cup {t}
            marked == IF s = t THEN w.marked \cup {t} ELSE w.marked \ {t}
            u == [w EXCEPT !.loaded = loaded, !.marked = marked]
<1>1. Shape(w) /\ w \in Workspaces /\ w.info[t].type = "table" /\ t \notin w.evicted
  BY WorkBounds DEF WorkIInv, Shape, Load, Type
<1>2. Become(u)
  <2>1. u = [w EXCEPT !.loaded = @ \cup {t}, !.marked = IF Screen(w) = t THEN @ \cup {t} ELSE @ \ {t}]
    BY <1>1 DEF Workspaces
  <2>. HIDE DEF u
  <2>. QED BY <2>1 DEF Load
<1>3. {loaded, marked, w.evicted, w.dirty} \subseteq SUBSET Tabs
  BY <1>1, FieldsAre
<1>4. u = Rows(w, loaded, marked, w.evicted, w.dirty)
  BY <1>1 DEF Workspaces, Rows
<1>5. t \in Open(w)
  BY <1>1 DEF Shape, InfoInv, NoTab
<1>. HIDE DEF u
<1>6. /\ Calm(u, w) /\ u.bottom = w.bottom /\ u.asking = w.asking /\ u.cascade = w.cascade
      /\ u.loaded = loaded /\ u.marked = marked /\ u.evicted = w.evicted /\ u.dirty = w.dirty
  <2>. HIDE DEF loaded, marked
  <2>. QED BY <1>3, <1>4, RowsFields
<1>7. Open(u) = Open(w)
  BY <1>6 DEF Open, Calm
<1>8. RowsInv(u)
  BY <1>1, <1>5, <1>6, <1>7 DEF Shape, RowsInv, Calm
<1>9. Marks(w) => u.marked = {s} \cap u.loaded
  <2>. HIDE DEF s
  <2>. QED BY <1>6 DEF Marks, s
<1>. QED BY <1>2, <1>6, <1>8, <1>9, RowsStep

LEMMA EditKeeps ==
  ASSUME WorkIInv, NEW t \in Tabs, Edit(t)
  PROVE  WorkIInv' /\ Sparing
<1>. DEFINE dirty == w.dirty \cup {t}
            u == [w EXCEPT !.dirty = dirty]
<1>1. Shape(w) /\ w \in Workspaces /\ w.visible # NoConn
  BY DEF WorkIInv, Shape, Edit
<1>2. Become(u)
  <2>1. u = [w EXCEPT !.dirty = @ \cup {t}]
    BY <1>1 DEF Workspaces
  <2>. HIDE DEF u
  <2>. QED BY <2>1 DEF Edit
<1>3. {w.loaded, w.marked, w.evicted, dirty} \subseteq SUBSET Tabs
  BY <1>1, FieldsAre
<1>4. u = Rows(w, w.loaded, w.marked, w.evicted, dirty)
  BY <1>1 DEF Workspaces, Rows
<1>. HIDE DEF u
<1>5. /\ Calm(u, w) /\ u.bottom = w.bottom /\ u.asking = w.asking /\ u.cascade = w.cascade
      /\ u.loaded = w.loaded /\ u.marked = w.marked /\ u.evicted = w.evicted /\ u.dirty = dirty
  <2>. HIDE DEF dirty
  <2>. QED BY <1>3, <1>4, RowsFields
<1>6. Open(u) = Open(w)
  BY <1>5 DEF Open, Calm
<1>7. t \in Open(w) /\ t \notin w.evicted
  <2>1. CASE t \in w.loaded \ w.evicted
    BY <1>1, <2>1 DEF Shape, RowsInv
  <2>2. CASE t = w.active[w.visible] /\ Type(w, t) = "object"
    <3>1. w.info[t].type = "object"
      BY <2>2, WorkBounds DEF Type
    <3>. QED BY <1>1, <3>1 DEF Shape, InfoInv, RowsInv, NoTab
  <2>. QED BY <2>1, <2>2 DEF Edit
<1>8. RowsInv(u)
  BY <1>1, <1>5, <1>6, <1>7 DEF Shape, RowsInv, Calm
<1>. QED BY <1>2, <1>5, <1>8, RowsStep DEF Marks

LEMMA SaveKeeps ==
  ASSUME WorkIInv, NEW t \in Tabs, Save(t)
  PROVE  WorkIInv' /\ Sparing
<1>. DEFINE dirty == w.dirty \ {t}
            u == [w EXCEPT !.dirty = dirty]
<1>1. Shape(w) /\ w \in Workspaces
  BY DEF WorkIInv, Shape
<1>2. Become(u)
  <2>1. u = [w EXCEPT !.dirty = @ \ {t}]
    BY <1>1 DEF Workspaces
  <2>. HIDE DEF u
  <2>. QED BY <2>1 DEF Save
<1>3. {w.loaded, w.marked, w.evicted, dirty} \subseteq SUBSET Tabs
  BY <1>1, FieldsAre
<1>4. u = Rows(w, w.loaded, w.marked, w.evicted, dirty)
  BY <1>1 DEF Workspaces, Rows
<1>. HIDE DEF u
<1>5. /\ Calm(u, w) /\ u.bottom = w.bottom /\ u.asking = w.asking /\ u.cascade = w.cascade
      /\ u.loaded = w.loaded /\ u.marked = w.marked /\ u.evicted = w.evicted /\ u.dirty = dirty
  <2>. HIDE DEF dirty
  <2>. QED BY <1>3, <1>4, RowsFields
<1>6. Open(u) = Open(w)
  BY <1>5 DEF Open, Calm
<1>7. RowsInv(u)
  BY <1>1, <1>5, <1>6 DEF Shape, RowsInv, Calm
<1>. QED BY <1>2, <1>5, <1>7, RowsStep DEF Marks

LEMMA EvictKeeps ==
  ASSUME WorkIInv, NEW t \in Tabs, Evict(t)
  PROVE  WorkIInv' /\ Sparing
<1>. DEFINE evicted == w.evicted \cup {t}
            u == [w EXCEPT !.evicted = evicted]
<1>1. Shape(w) /\ w \in Workspaces /\ t \in w.loaded \ (w.marked \cup w.evicted \cup w.dirty)
  BY DEF WorkIInv, Shape, Evict
<1>2. Become(u)
  <2>1. u = [w EXCEPT !.evicted = @ \cup {t}]
    BY <1>1 DEF Workspaces
  <2>. HIDE DEF u
  <2>. QED BY <2>1 DEF Evict
<1>3. {w.loaded, w.marked, evicted, w.dirty} \subseteq SUBSET Tabs
  BY <1>1, FieldsAre
<1>4. u = Rows(w, w.loaded, w.marked, evicted, w.dirty)
  BY <1>1 DEF Workspaces, Rows
<1>. HIDE DEF u
<1>5. /\ Calm(u, w) /\ u.bottom = w.bottom /\ u.asking = w.asking /\ u.cascade = w.cascade
      /\ u.loaded = w.loaded /\ u.marked = w.marked /\ u.evicted = evicted /\ u.dirty = w.dirty
  <2>. HIDE DEF evicted
  <2>. QED BY <1>3, <1>4, RowsFields
<1>6. Open(u) = Open(w)
  BY <1>5 DEF Open, Calm
<1>7. RowsInv(u)
  BY <1>1, <1>5, <1>6 DEF Shape, RowsInv, Calm
<1>. QED BY <1>2, <1>5, <1>7, RowsStep DEF Marks

LEMMA EndRunKeeps ==
  ASSUME WorkIInv, NEW q \in Tabs, NEW rows \in BOOLEAN, EndRun(q, rows)
  PROVE  WorkIInv' /\ Sparing
<1>. DEFINE shown  == w.visible = ConnOf(w, q) /\ w.active[w.visible] = q
            loaded == IF rows THEN w.loaded \cup {q} ELSE w.loaded \ {q}
            marked == IF rows /\ shown THEN w.marked \cup {q} ELSE w.marked \ {q}
            bottom == [w.bottom EXCEPT ![q] = None]
            x == [w EXCEPT !.loaded = loaded, !.marked = marked,
                           !.evicted = w.evicted \ {q}, !.dirty = w.dirty \ {q}]
            u == w'
<1>1. /\ Shape(w) /\ w \in Workspaces /\ DialogInv(w, panel) /\ PanelInv(w, panel)
      /\ w.info[q].type = "query" /\ panel' = panel /\ panel \in BOOLEAN /\ Note(w.bottom[q] \in w.marked)
  BY WorkBounds DEF WorkIInv, Shape, EndRun, Type
<1>2. bottom \in [Tabs -> 0 .. MaxTabs] /\ bottom[q] = None /\ \A a \in Tabs : a # q => bottom[a] = w.bottom[a]
  BY <1>1, FieldsAre, WorkBounds DEF None
<1>3. u = [x EXCEPT !.bottom = bottom]
  BY <1>1 DEF EndRun, Workspaces
<1>4. /\ Calm(x, w) /\ x.bottom = w.bottom /\ x.asking = w.asking /\ x.cascade = w.cascade
      /\ x.loaded = loaded /\ x.marked = marked /\ x.evicted = w.evicted \ {q} /\ x.dirty = w.dirty \ {q}
  <2>1. {loaded, marked, w.evicted \ {q}, w.dirty \ {q}} \subseteq SUBSET Tabs
    BY <1>1, FieldsAre
  <2>. HIDE DEF loaded, marked, x
  <2>2. x = Rows(w, loaded, marked, w.evicted \ {q}, w.dirty \ {q})
    BY DEF x, Rows
  <2>. QED BY <2>1, <2>2, RowsFields
<1>. HIDE DEF x, bottom, loaded, marked, u
<1>5. /\ Calm(u, w) /\ u.bottom = bottom /\ u.asking = w.asking /\ u.cascade = w.cascade
      /\ u.loaded = loaded /\ u.marked = marked /\ u.evicted = w.evicted \ {q} /\ u.dirty = w.dirty \ {q}
  <2>1. u \in Workspaces
    BY <1>2, <1>3, <1>4 DEF Calm, Workspaces
  <2>2. /\ u.bottom = bottom /\ u.asking = x.asking /\ u.cascade = x.cascade
        /\ u.loaded = x.loaded /\ u.marked = x.marked /\ u.evicted = x.evicted /\ u.dirty = x.dirty
        /\ u.attached = x.attached /\ u.tabs = x.tabs /\ u.active = x.active /\ u.visible = x.visible
        /\ u.info = x.info /\ u.used = x.used /\ u.next = x.next
    BY <1>3, <1>4 DEF Calm, Workspaces
  <2>3. \A a \in Tabs : bottom[a] \in {w.bottom[a], None}
    BY <1>2
  <2>. QED BY <1>4, <2>1, <2>2, <2>3 DEF Calm
<1>6. Open(u) = Open(w) /\ q \in Open(w)
  BY <1>1, <1>5 DEF Open, Calm, Shape, InfoInv, NoTab
<1>7. RowsInv(u)
  BY <1>1, <1>5, <1>6 DEF Shape, RowsInv, Calm, loaded, marked
<1>8. Shape(u)
  BY <1>1, <1>5, <1>7, CalmIs
<1>9. DialogInv(u, panel) /\ PanelInv(u, panel)
  BY <1>1, <1>5, DialogFrame DEF Calm
<1>10. PICK c \in Conns : q \in ToSet(w.tabs[c]) /\ ConnOf(w, q) = c
  <2>1. PICK c \in Conns : q \in ToSet(w.tabs[c])
    BY <1>6 DEF Open
  <2>. QED BY <1>1, <2>1, OpenIs
<1>11. shown <=> w.visible # NoConn /\ w.active[w.visible] = q
  <2>1. shown => w.visible # NoConn
    BY <1>10, WorkspaceAssumption
  <2>2. ASSUME w.visible # NoConn, w.active[w.visible] = q PROVE shown
    <3>1. w.visible \in Conns /\ q # None
      BY <1>1, <2>2, FieldsAre, WorkBounds
    <3>2. q \in ToSet(w.tabs[w.visible])
      BY <1>1, <2>2, <3>1 DEF Shape, ActiveInv
    <3>3. ConnOf(w, q) = w.visible
      BY <1>1, <3>1, <3>2, OpenIs
    <3>. QED BY <2>2, <3>3
  <2>. QED BY <2>1, <2>2
<1>. HIDE DEF shown
<1>12. ASSUME Marks(w), w.bottom[q] \notin w.marked PROVE Marks(u)
  <2>1. CASE shown
    <3>1. Screen(w) = SurfaceOf(w, q) /\ Screen(u) = SurfaceOf(u, q)
      BY <1>5, <1>11, <2>1 DEF Screen, Calm
    <3>2. Screen(u) = q
      BY <1>1, <1>2, <1>5, <3>1, WorkBounds DEF SurfaceOf, Type, Calm
    <3>3. Screen(w) = IF w.bottom[q] = None THEN q ELSE w.bottom[q]
      BY <1>1, <3>1, WorkBounds DEF SurfaceOf, Type
    <3>4. w.marked \subseteq {q}
      BY <1>12, <3>3 DEF Marks
    <3>5. u.marked = {q} \cap u.loaded
      BY <1>5, <2>1, <3>4 DEF loaded, marked
    <3>. QED BY <3>2, <3>5 DEF Marks
  <2>2. CASE ~shown
    <3>1. Screen(u) = Screen(w)
      <4>1. \A a \in Tabs : w.visible # NoConn /\ a = w.active[w.visible] =>
              u.info[a].type = w.info[a].type /\ u.bottom[a] = w.bottom[a]
        BY <1>2, <1>5, <1>11, <2>2 DEF Calm
      <4>. QED BY <1>1, <1>5, <4>1, ScreenFrame DEF Calm
    <3>2. Screen(w) # q
      <4>1. CASE w.visible = NoConn
        BY <4>1, WorkBounds DEF Screen
      <4>2. CASE w.visible # NoConn
        <5>. DEFINE a == w.active[w.visible]
        <5>1. a \in Tabs \cup {None} /\ a # q /\ Screen(w) = SurfaceOf(w, a)
          BY <1>1, <1>11, <2>2, <4>2, FieldsAre, WorkBounds DEF Tabs, None, Screen
        <5>. HIDE DEF a
        <5>2. CASE a = None
          BY <5>1, <5>2, WorkBounds DEF SurfaceOf, Type
        <5>3. CASE a # None /\ w.info[a].type = "query"
          BY <1>1, <5>1, <5>3, ApartIs
        <5>4. CASE a # None /\ w.info[a].type # "query"
          BY <5>1, <5>4, WorkBounds DEF SurfaceOf, Type
        <5>. QED BY <5>2, <5>3, <5>4
      <4>. QED BY <4>1, <4>2
    <3>3. u.marked = {Screen(w)} \cap u.loaded
      BY <1>5, <1>12, <2>2, <3>2 DEF loaded, marked, Marks
    <3>. QED BY <3>1, <3>3 DEF Marks
  <2>. QED BY <2>1, <2>2
<1>13. Marks(w) /\ ~Gap(w.bottom[q] \in w.marked) => Marks(u)
  BY <1>12 DEF Gap
<1>14. w' = u
  BY DEF u
<1>15. Sparing
  BY <1>5, <1>14, TabsStand DEF Calm
<1>. QED BY <1>1, <1>8, <1>9, <1>13, <1>14, <1>15, NoteIs


LEMMA RenameObjectKeeps ==
  ASSUME WorkIInv, NEW c \in Conns, NEW n \in Names, NEW m \in Names \ {n}, RenameObject(c, n, m)
  PROVE  WorkIInv' /\ Sparing
<1>. DEFINE info == [t \in Tabs |-> IF t \in ToSet(w.tabs[c]) /\ w.info[t].name = n
                                    THEN [w.info[t] EXCEPT !.name = m] ELSE w.info[t]]
            u == [w EXCEPT !.info = info]
<1>1. /\ Shape(w) /\ w \in Workspaces /\ w.info \in [Tabs -> Infos]
      /\ DialogInv(w, panel) /\ PanelInv(w, panel) /\ \A t \in ToSet(w.tabs[c]) : w.info[t].name # m
  BY FieldsAre DEF WorkIInv, Shape, RenameObject
<1>2. Become(u)
  <2>1. u = [w EXCEPT !.info = [t \in Tabs |-> IF t \in ToSet(w.tabs[c]) /\ @[t].name = n
                                               THEN [@[t] EXCEPT !.name = m] ELSE @[t]]]
    BY <1>1 DEF Workspaces
  <2>. HIDE DEF u
  <2>. QED BY <2>1 DEF RenameObject
<1>3. ASSUME NEW t \in Tabs
      PROVE  /\ info[t] \in Infos /\ info[t].type = w.info[t].type /\ info[t].parent = w.info[t].parent
             /\ info[t].name = IF t \in ToSet(w.tabs[c]) /\ w.info[t].name = n THEN m ELSE w.info[t].name
             /\ t \notin ToSet(w.tabs[c]) => info[t] = w.info[t]
  <2>1. info[t] = IF t \in ToSet(w.tabs[c]) /\ w.info[t].name = n
                  THEN [w.info[t] EXCEPT !.name = m] ELSE w.info[t]
    OBVIOUS
  <2>2. w.info[t] \in Infos
    BY <1>1
  <2>. HIDE DEF info
  <2>. QED BY <2>1, <2>2 DEF Infos
<1>4. info \in [Tabs -> Infos]
  BY <1>3
<1>. HIDE DEF info
<1>5. /\ u \in Workspaces /\ u.info = info
      /\ u.attached = w.attached /\ u.tabs = w.tabs /\ u.active = w.active /\ u.visible = w.visible
      /\ u.used = w.used /\ u.bottom = w.bottom /\ u.loaded = w.loaded /\ u.marked = w.marked
      /\ u.evicted = w.evicted /\ u.dirty = w.dirty /\ u.asking = w.asking /\ u.cascade = w.cascade
      /\ u.next = w.next
  BY <1>1, <1>4 DEF Workspaces
<1>. HIDE DEF u
<1>6. Open(u) = Open(w) /\ \A t \in Open(w) : t \in Tabs
  <2>1. \A t \in Open(w) : t \in Tabs
    BY <1>1, OpenIs DEF Open
  <2>. QED BY <1>5, <2>1 DEF Open
<1>7. \A t \in Tabs : u.info[t].type = w.info[t].type /\ u.info[t].parent = w.info[t].parent
  BY <1>3, <1>5
<1>8. OrderInv(u)
  BY <1>1, <1>5 DEF Shape, OrderInv
<1>9. InfoInv(u)
  <2>1. ASSUME NEW t \in Tabs
        PROVE  IF t \in Open(u) THEN u.info[t].type # "none" ELSE u.info[t] = NoTab
    <3>1. CASE t \in Open(u)
      BY <1>1, <1>6, <1>7, <3>1 DEF Shape, InfoInv
    <3>2. CASE t \notin Open(u)
      <4>1. t \notin ToSet(w.tabs[c])
        BY <1>6, <3>2 DEF Open
      <4>. QED BY <1>1, <1>3, <1>5, <1>6, <3>2, <4>1 DEF Shape, InfoInv
    <3>. QED BY <3>1, <3>2
  <2>2. ASSUME NEW t \in Tabs PROVE u.info[t].type \in {"table", "object"} <=> u.info[t].name \in Names
    <3>1. u.info[t].name = IF t \in ToSet(w.tabs[c]) /\ w.info[t].name = n THEN m ELSE w.info[t].name
      BY <1>3, <1>5
    <3>. QED BY <1>1, <1>7, <3>1 DEF Shape, InfoInv
  <2>3. ASSUME NEW d \in Conns, NEW t \in ToSet(u.tabs[d]), u.info[t].parent # None PROVE Scoped(u, d, t)
    <3>1. t \in ToSet(w.tabs[d]) /\ t \in Tabs /\ w.info[t].parent # None
      BY <1>1, <1>5, <1>7, <2>3, OpenIs
    <3>2. Scoped(w, d, t)
      BY <1>1, <3>1 DEF Shape, InfoInv
    <3>3. w.info[t].parent \in Tabs
      BY <1>1, <3>2, OpenIs DEF Scoped
    <3>. QED BY <1>5, <1>7, <3>1, <3>2, <3>3 DEF Scoped
  <2>4. \A t \in Tabs : u.info[t].parent < t
    BY <1>1, <1>7 DEF Shape, InfoInv
  <2>. QED BY <2>1, <2>2, <2>3, <2>4 DEF InfoInv
<1>10. OnceInv(u)
  <2>. SUFFICES ASSUME NEW d \in Conns, NEW s \in ToSet(u.tabs[d]), NEW t \in ToSet(u.tabs[d]),
                       s # t, u.info[s] = u.info[t]
                PROVE  u.info[s].type = "query"
    BY DEF OnceInv
  <2>1. s \in ToSet(w.tabs[d]) /\ t \in ToSet(w.tabs[d]) /\ s \in Tabs /\ t \in Tabs
    BY <1>1, <1>5, OpenIs
  <2>2. w.info[s] = w.info[t]
    <3>1. CASE d # c
      <4>1. s \notin ToSet(w.tabs[c]) /\ t \notin ToSet(w.tabs[c])
        BY <1>1, <2>1, <3>1, OpenIs
      <4>. QED BY <1>3, <1>5, <2>1, <4>1
    <3>2. CASE d = c
      <4>1. /\ info[s].name = (IF w.info[s].name = n THEN m ELSE w.info[s].name)
            /\ info[t].name = (IF w.info[t].name = n THEN m ELSE w.info[t].name)
        BY <1>3, <2>1, <3>2
      <4>2. w.info[s].name # m /\ w.info[t].name # m /\ info[s].name = info[t].name
        BY <1>1, <1>5, <2>1, <3>2
      <4>3. w.info[s].name = w.info[t].name
        BY <4>1, <4>2
      <4>4. w.info[s].type = w.info[t].type /\ w.info[s].parent = w.info[t].parent
        BY <1>7, <2>1
      <4>5. w.info[s] \in Infos /\ w.info[t] \in Infos
        BY <1>1, <2>1
      <4>. QED BY <4>3, <4>4, <4>5 DEF Infos
    <3>. QED BY <3>1, <3>2
  <2>. QED BY <1>1, <1>7, <2>1, <2>2 DEF Shape, OnceInv
<1>11. ActiveInv(u)
  <2>1. ASSUME NEW d \in Conns, w.active[d] # None
        PROVE  w.active[d] \in ToSet(w.tabs[d]) /\ u.info[w.active[d]].parent = None
    <3>1. w.active[d] \in ToSet(w.tabs[d]) /\ w.info[w.active[d]].parent = None
      BY <1>1, <2>1 DEF Shape, ActiveInv
    <3>2. w.active[d] \in Tabs
      BY <1>1, <3>1, OpenIs
    <3>. QED BY <1>7, <3>1, <3>2
  <2>. QED BY <1>1, <1>5, <2>1 DEF Shape, ActiveInv
<1>12. BottomInv(u)
  BY <1>1, <1>5, <1>6, <1>7 DEF Shape, BottomInv
<1>13. RowsInv(u)
  <2>1. \A t \in w.loaded : t \in Tabs
    BY <1>1, FieldsAre
  <2>. QED BY <1>1, <1>5, <1>6, <1>7, <2>1 DEF Shape, RowsInv
<1>14. Shape(u)
  BY <1>5, <1>8, <1>9, <1>10, <1>11, <1>12, <1>13 DEF Shape
<1>15. Marks(w) => Marks(u)
  <2>1. Screen(u) = Screen(w)
    BY <1>1, <1>5, <1>7, ScreenFrame
  <2>. QED BY <1>5, <2>1 DEF Marks
<1>16. DialogInv(u, panel) /\ PanelInv(u, panel)
  <2>1. Tight(w) => Tight(u)
    BY <1>5, <1>6, <1>7 DEF Tight
  <2>2. /\ \A t \in ToSet(u.cascade.children) : t \in Open(u) => u.info[t].type = w.info[t].type
        /\ u.cascade.query \in Open(u) => u.info[u.cascade.query].type = w.info[u.cascade.query].type
    BY <1>6, <1>7
  <2>. QED BY <1>1, <1>5, <1>6, <1>7, <2>1, <2>2 DEF DialogInv, PanelInv
<1>. QED BY <1>2, <1>5, <1>14, <1>15, <1>16, BecomeIs

LEMMA RemovedIs ==
  ASSUME NEW v, Shape(v), NEW c \in Conns, NEW gone \in SUBSET ToSet(v.tabs[c]),
         \A t \in gone : v.info[t].type # "query", NEW b, DialogInv(v, b), PanelInv(v, b),
         NEW y, y = Removed(v, c, gone)
  PROVE  Shape(y) /\ (Marks(v) => Marks(y)) /\ DialogInv(y, b) /\ PanelInv(y, b) /\ Open(y) \subseteq Open(v)
<1>. DEFINE parents == {q \in Tabs : v.bottom[q] \in gone /\ v.info[v.bottom[q]].parent = q}
            u    == SetBottoms(v, parents, None)
            rest == Only(v.tabs[c], Tabs \ gone)
            a    == v.active[c]
            i    == CHOOSE j \in DOMAIN v.tabs[c] : v.tabs[c][j] = a
            next == IF a \in gone THEN Normal([v EXCEPT !.tabs[c] = rest], NextActive(v, rest, a, i)) ELSE a
            f    == Forget(u, gone)
            x    == [f EXCEPT !.tabs[c] = rest, !.active[c] = next]
            s    == SurfaceOf(v, a)
            r    == SurfaceOf(x, next)
            bottom == [q \in Tabs |-> IF q \in parents THEN None ELSE v.bottom[q]]
<1>1. v \in Workspaces /\ v.tabs[c] \in Seq(Tabs) /\ gone \in SUBSET Tabs
  BY FieldsAre, OpenIs DEF Shape
<1>2. y = IF next # a \/ s # r THEN Finalize(x, c, s, next) ELSE x
  BY DEF Removed
<1>3. Shape(u) /\ (Marks(v) => Marks(u)) /\ Retold(u, v, bottom)
  <2>1. parents \in SUBSET Tabs /\ None \in 0 .. MaxTabs
    BY WorkBounds DEF None
  <2>. HIDE DEF parents
  <2>. QED BY <2>1, SetBottomsIs
<1>4. \A q \in Tabs : bottom[q] \in {v.bottom[q], None}
  OBVIOUS
<1>5. rest \in Seq(Tabs) /\ ToSet(rest) = ToSet(v.tabs[c]) \ gone /\ Increasing(rest)
  <2>1. rest \in Seq(Tabs) /\ ToSet(rest) = ToSet(v.tabs[c]) \cap (Tabs \ gone)
    BY <1>1, OnlyIs
  <2>2. Increasing(v.tabs[c]) /\ ToSet(v.tabs[c]) \subseteq Tabs /\ Tabs \subseteq Nat
    BY OpenIs, WorkBounds DEF Shape, OrderInv
  <2>3. Increasing(rest)
    BY <1>1, <2>2, OnlyIs
  <2>. HIDE DEF rest
  <2>. QED BY <2>1, <2>2, <2>3
<1>6. i \in Nat \ {0} \/ a \notin gone
  <2>1. a \in gone => \E j \in DOMAIN v.tabs[c] : v.tabs[c][j] = a
    BY DEF ToSet
  <2>2. a \in gone => i \in DOMAIN v.tabs[c]
    BY <2>1
  <2>. HIDE DEF i, a
  <2>. QED BY <1>1, <2>2
<1>7. \A t \in Tabs : v.info[t].parent \notin gone
  <2>. SUFFICES ASSUME NEW t \in Tabs, v.info[t].parent \in gone PROVE FALSE
    OBVIOUS
  <2>1. v.info[t].parent # None
    BY <1>1, WorkBounds
  <2>2. t \in Open(v)
    BY <2>1 DEF Shape, InfoInv, NoTab
  <2>3. PICK d \in Conns : t \in ToSet(v.tabs[d])
    BY <2>2 DEF Open
  <2>4. Scoped(v, d, t)
    BY <2>1, <2>3 DEF Shape, InfoInv
  <2>. QED BY <2>4 DEF Scoped
<1>8. Whole(v, gone) /\ Whole(u, gone)
  <2>1. \A t \in Open(v) : t \in Tabs
    BY OpenIs DEF Open
  <2>2. Open(u) = Open(v) /\ u.info = v.info
    <3>. HIDE DEF u, bottom
    <3>. QED BY <1>3 DEF Open, Retold
  <2>. HIDE DEF u, bottom
  <2>. QED BY <1>7, <2>1, <2>2 DEF Whole
<1>. HIDE DEF rest, i
<1>9. next \in 0 .. MaxTabs /\ (next # None => next \in ToSet(rest) /\ v.info[next].parent = None)
  <2>1. CASE a \in gone
    <3>1. next = NextOf(v, c, rest, a, i) /\ i \in Nat \ {0}
      BY <1>6, <2>1 DEF NextOf
    <3>. HIDE DEF next, a, u, f, x, s, r, bottom, parents
    <3>2. Whole(v, gone) /\ gone \in SUBSET Tabs /\ rest \in Seq(Tabs) /\ ToSet(rest) = ToSet(v.tabs[c]) \ gone
      BY <1>1, <1>5, <1>8
    <3>. QED BY <3>1, <3>2, NextIs
  <2>2. CASE a \notin gone
    <3>1. next = a
      BY <2>2
    <3>. HIDE DEF next
    <3>. QED BY <1>1, <1>5, <2>2, <3>1, FieldsAre DEF Shape, ActiveInv
  <2>. QED BY <2>1, <2>2
<1>10. (next # a => a \in gone) /\ (a \in gone => next # a)
  <2>1. next # a => a \in gone
    OBVIOUS
  <2>. HIDE DEF next, a
  <2>. QED BY <1>1, <1>5, <1>9, <2>1, WorkBounds
<1>. HIDE DEF next, u, parents
<1>11. /\ f \in Workspaces /\ (IsInjective(u.used) => IsInjective(f.used))
       /\ f.attached = u.attached /\ f.tabs = u.tabs /\ f.active = u.active /\ f.visible = u.visible
       /\ f.cascade = u.cascade /\ f.next = u.next
       /\ \A t \in Tabs : f.info[t] = IF t \in gone THEN NoTab ELSE u.info[t]
       /\ \A t \in Tabs : f.bottom[t] = IF t \in gone THEN None ELSE u.bottom[t]
       /\ f.loaded = u.loaded \ gone /\ f.marked = u.marked \ gone /\ f.evicted = u.evicted \ gone
       /\ f.dirty = u.dirty \ gone /\ f.asking = IF u.asking \in gone THEN None ELSE u.asking
  <2>1. u \in Workspaces
    BY <1>3 DEF Shape
  <2>. QED BY <1>1, <2>1, ForgetIs
<1>. HIDE DEF f
<1>12. /\ x \in Workspaces
       /\ x.attached = f.attached /\ x.tabs = [f.tabs EXCEPT ![c] = rest]
       /\ x.active = [f.active EXCEPT ![c] = next] /\ x.visible = f.visible
       /\ x.info = f.info /\ x.bottom = f.bottom /\ x.loaded = f.loaded
       /\ x.marked = f.marked /\ x.evicted = f.evicted /\ x.dirty = f.dirty
       /\ x.asking = f.asking /\ x.cascade = f.cascade /\ x.next = f.next /\ x.used = f.used
  <2>. DEFINE tabs   == [f.tabs EXCEPT ![c] = rest]
              active == [f.active EXCEPT ![c] = next]
  <2>1. tabs \in [Conns -> Seq(Tabs)] /\ active \in [Conns -> 0 .. MaxTabs]
    BY <1>5, <1>9, <1>11, FieldsAre
  <2>2. x = [f EXCEPT !.tabs = tabs, !.active = active]
    BY <1>11 DEF Workspaces
  <2>. HIDE DEF tabs, active, x
  <2>3. x \in Workspaces
    BY <1>11, <2>1, <2>2 DEF Workspaces
  <2>4. /\ x.attached = f.attached /\ x.tabs = tabs /\ x.active = active /\ x.visible = f.visible
        /\ x.info = f.info /\ x.bottom = f.bottom /\ x.loaded = f.loaded
        /\ x.marked = f.marked /\ x.evicted = f.evicted /\ x.dirty = f.dirty
        /\ x.asking = f.asking /\ x.cascade = f.cascade /\ x.next = f.next /\ x.used = f.used
    BY <1>11, <2>2 DEF Workspaces
  <2>. QED BY <2>3, <2>4 DEF tabs, active
<1>. HIDE DEF x
<1>13. /\ x.tabs[c] = rest /\ \A d \in Conns : d # c => x.tabs[d] = v.tabs[d]
       /\ x.active[c] = next /\ \A d \in Conns : d # c => x.active[d] = v.active[d]
       /\ u.tabs = v.tabs /\ u.active = v.active /\ u.visible = v.visible /\ u.info = v.info
       /\ x.visible = v.visible
  BY <1>1, <1>3, <1>11, <1>12, FieldsAre DEF Retold
<1>14. \A d \in Conns : d # c => ToSet(v.tabs[d]) \cap gone = {}
  BY OpenIs
<1>15. Pruned(x, u, gone)
  <2>1. ASSUME NEW d \in Conns PROVE Increasing(x.tabs[d]) /\ ToSet(x.tabs[d]) = ToSet(u.tabs[d]) \ gone
    <3>1. CASE d = c
      BY <1>5, <1>13, <3>1
    <3>2. CASE d # c
      BY <1>13, <1>14, <3>2 DEF Shape, OrderInv
    <3>. QED BY <3>1, <3>2
  <2>2. x.asking \in {u.asking, None} \ gone
    BY <1>1, <1>11, <1>12, WorkBounds
  <2>3. /\ \A t \in Tabs : x.info[t] = IF t \in gone THEN NoTab ELSE u.info[t]
        /\ \A t \in Tabs : x.bottom[t] = IF t \in gone THEN None ELSE u.bottom[t]
    BY <1>11, <1>12
  <2>4. IsInjective(x.used)
    BY <1>3, <1>11, <1>12 DEF Shape, OrderInv
  <2>. QED BY <1>11, <1>12, <2>1, <2>2, <2>3, <2>4 DEF Pruned
<1>16. ActiveInv(x)
  <2>1. ASSUME NEW d \in Conns, x.active[d] # None
        PROVE  x.active[d] \in ToSet(x.tabs[d]) /\ x.info[x.active[d]].parent = None
    <3>. DEFINE e == x.active[d]
    <3>1. e \in ToSet(x.tabs[d]) /\ v.info[e].parent = None
      <4>1. CASE d = c
        BY <1>9, <1>13, <2>1, <4>1
      <4>2. CASE d # c
        BY <1>13, <2>1, <4>2 DEF Shape, ActiveInv
      <4>. QED BY <4>1, <4>2
    <3>2. e \in ToSet(v.tabs[d]) \ gone
      BY <1>13, <1>15, <3>1 DEF Pruned
    <3>3. e \in Tabs
      BY <3>2, OpenIs
    <3>4. x.info[e] = v.info[e]
      BY <1>13, <1>15, <3>2, <3>3 DEF Pruned
    <3>. QED BY <3>1, <3>4
  <2>2. x.visible # NoConn => x.visible \in x.attached
    BY <1>3, <1>11, <1>12 DEF Shape, ActiveInv
  <2>. QED BY <2>1, <2>2 DEF ActiveInv
<1>17. Shape(x)
  <2>1. x.marked \subseteq x.loaded /\ x.evicted \subseteq u.evicted \cap x.loaded /\ x.marked \cap x.evicted = {}
    BY <1>3, <1>11, <1>12 DEF Shape, RowsInv
  <2>. QED BY <1>1, <1>3, <1>8, <1>15, <1>16, <2>1, PrunedIs
<1>18. DialogInv(x, b) /\ PanelInv(x, b)
  <2>1. DialogInv(u, b) /\ PanelInv(u, b)
    <3>1. /\ u.tabs = v.tabs /\ u.info = v.info /\ \A q \in Tabs : u.bottom[q] \in {v.bottom[q], None}
          /\ u.asking \in {v.asking, None} /\ u.cascade \in {v.cascade, NoCascade}
      BY <1>3, <1>4 DEF Retold
    <3>. QED BY <3>1, DialogFrame
  <2>. QED BY <1>1, <1>3, <1>15, <2>1, PrunedDialog
<1>19. a \in 0 .. MaxTabs /\ (a # None => a \in Tabs)
  BY <1>1, FieldsAre, WorkBounds DEF Tabs, None
<1>20. ASSUME NEW e \in Tabs \ gone PROVE SurfaceOf(x, e) = SurfaceOf(u, e)
  <2>1. x.info[e] = u.info[e] /\ x.bottom[e] = u.bottom[e]
    BY <1>15 DEF Pruned
  <2>. QED BY <2>1, WorkBounds DEF SurfaceOf, Type
<1>21. SurfaceOf(x, None) = SurfaceOf(u, None)
  BY DEF SurfaceOf, Type
<1>22. Open(x) \subseteq Open(v)
  <2>1. Open(u) = Open(v)
    BY <1>13 DEF Open
  <2>. QED BY <1>15, <2>1, PrunedOpen
<1>. HIDE DEF r, s, a
<1>23. CASE v.visible # c
  <2>1. y = x
    BY <1>2, <1>13, <1>23 DEF Finalize
  <2>2. Screen(x) = Screen(u)
    <3>1. u.visible # NoConn => u.visible \in Conns /\ x.active[u.visible] = u.active[u.visible]
      BY <1>1, <1>13, <1>23, FieldsAre
    <3>2. ASSUME NEW e \in Tabs, u.visible # NoConn, e = u.active[u.visible]
          PROVE  x.info[e].type = u.info[e].type /\ x.bottom[e] = u.bottom[e]
      <4>1. e \in ToSet(v.tabs[v.visible])
        BY <1>13, <3>1, <3>2, WorkBounds DEF Shape, ActiveInv
      <4>2. e \notin gone
        BY <1>13, <1>14, <1>23, <3>1, <3>2, <4>1
      <4>. QED BY <1>15, <4>2 DEF Pruned
    <3>. QED BY <1>3, <1>13, <3>1, <3>2, ScreenFrame
  <2>3. Marks(u) => Marks(x)
    BY <1>11, <1>12, <2>2 DEF Marks
  <2>. QED BY <1>3, <1>17, <1>18, <1>22, <2>1, <2>3
<1>24. CASE v.visible = c
  <2>1. c # NoConn /\ Screen(v) = s /\ Screen(u) = SurfaceOf(u, a) /\ Screen(x) = r
    BY <1>13, <1>24, WorkspaceAssumption DEF Screen, s, a, r
  <2>2. a \notin gone => r = SurfaceOf(u, a)
    BY <1>10, <1>19, <1>20, <1>21 DEF r
  <2>3. CASE next = a /\ s = r
    <3>1. y = x
      BY <1>2, <2>3
    <3>2. Marks(u) => Marks(x)
      BY <1>10, <1>11, <1>12, <2>1, <2>2, <2>3 DEF Marks
    <3>. QED BY <1>3, <1>17, <1>18, <1>22, <3>1, <3>2
  <2>4. CASE ~(next = a /\ s = r)
    <3>1. y = Show(Hide(x, s), r)
      BY <1>2, <1>13, <1>24, <2>4 DEF Finalize, r
    <3>2. /\ Repainted(y, x) /\ y.marked = (x.marked \ {s}) \cup ({r} \cap x.loaded)
          /\ y.evicted = x.evicted \ ({r} \cap x.loaded)
      BY <1>12, <3>1, SwapIs
    <3>3. Shape(y)
      <4>1. RowsInv(y)
        BY <1>17, <3>2, RowsSwap DEF Shape
      <4>. QED BY <1>17, <3>2, <4>1, RepaintKeeps
    <3>4. DialogInv(y, b) /\ PanelInv(y, b)
      <4>1. /\ y.tabs = x.tabs /\ y.info = x.info /\ \A q \in Tabs : y.bottom[q] \in {x.bottom[q], None}
            /\ y.asking \in {x.asking, None} /\ y.cascade \in {x.cascade, NoCascade}
        BY <3>2 DEF Repainted
      <4>. QED BY <1>17, <1>18, <4>1, DialogFrame
    <3>5. Screen(y) = r
      <4>1. \A e : SurfaceOf(y, e) = SurfaceOf(x, e)
        BY <3>2, SurfaceFrame DEF Repainted
      <4>2. Screen(y) = Screen(x)
        BY <3>2, <4>1 DEF Screen, Repainted
      <4>. QED BY <2>1, <4>2
    <3>6. ASSUME Marks(u), NEW e \in x.marked PROVE e \in {s, r}
      <4>1. e \in u.marked \ gone /\ e = SurfaceOf(u, a)
        BY <1>11, <1>12, <2>1, <3>6 DEF Marks
      <4>2. CASE a \notin gone
        BY <2>2, <4>1, <4>2
      <4>3. CASE a \in gone
        <5>1. a \in Tabs /\ v.info[a].type # "query"
          BY <1>1, <4>3
        <5>2. SurfaceOf(u, a) \in {a, None}
          BY <1>13, <5>1, WorkBounds DEF SurfaceOf, Type
        <5>3. e # None
          BY <1>3, <4>1, FieldsAre, WorkBounds DEF Shape
        <5>. QED BY <4>1, <4>3, <5>2, <5>3
      <4>. QED BY <4>2, <4>3
    <3>7. x.marked \subseteq x.loaded
      BY <1>17 DEF Shape, RowsInv
    <3>8. Marks(u) => Marks(y)
      <4>. SUFFICES ASSUME Marks(u) PROVE y.marked = {r} \cap x.loaded
        BY <3>2, <3>5 DEF Marks, Repainted
      <4>. QED BY <3>2, <3>6, <3>7
    <3>9. Open(y) \subseteq Open(v)
      BY <1>22, <3>2 DEF Repainted, Open
    <3>. QED BY <1>3, <3>3, <3>4, <3>8, <3>9
  <2>. QED BY <2>3, <2>4
<1>. QED BY <1>23, <1>24

LEMMA DropObjectKeeps ==
  ASSUME WorkIInv, NEW c \in Conns, NEW n \in Names, DropObject(c, n)
  PROVE  WorkIInv' /\ Sparing
<1>. DEFINE gone == {t \in ToSet(w.tabs[c]) : w.info[t].name = n}
            y == Removed(w, c, gone)
<1>1. Shape(w) /\ DialogInv(w, panel) /\ PanelInv(w, panel) /\ Become(y)
  BY DEF WorkIInv, DropObject
<1>2. \A t \in gone : w.info[t].type # "query"
  <2>1. \A t \in gone : t \in Tabs
    BY <1>1, OpenIs
  <2>. QED BY <1>1, <2>1 DEF Shape, InfoInv
<1>3. gone \in SUBSET ToSet(w.tabs[c])
  OBVIOUS
<1>. HIDE DEF gone
<1>4. Shape(y) /\ (Marks(w) => Marks(y)) /\ DialogInv(y, panel) /\ PanelInv(y, panel)
      /\ Open(y) \subseteq Open(w)
  BY <1>1, <1>2, <1>3, RemovedIs
<1>. HIDE DEF y
<1>5. Sparing
  <2>1. \A t \in w.dirty : Purpose(t)
    BY DEF Purpose
  <2>2. w' = y
    BY <1>1 DEF Become
  <2>. QED BY <1>4, <2>1, <2>2, TabsGo
<1>. QED BY <1>1, <1>4, <1>5, BecomeIs


LEMMA FirstOfIs ==
  ASSUME NEW v, Shape(v), NEW c \in Conns, NEW t \in ToSet(v.tabs[c]), NEW f, f = FirstOf(v, c, t)
  PROVE  /\ f \in ToSet(v.tabs[c]) /\ FirstOf(v, c, f) = f
         /\ v.info[t].type # "table" => f = t
         /\ \A s \in ToSet(v.tabs[c]) : v.info[t].type = "table" /\ v.info[s].type = "table"
              /\ v.info[s].name = v.info[t].name => FirstOf(v, c, s) = f
<1>. DEFINE n == Len(v.tabs[c])
            Same(s) == {i \in DOMAIN v.tabs[c] : Type(v, v.tabs[c][i]) = "table"
                                                 /\ v.info[v.tabs[c][i]].name = v.info[s].name}
<1>1. v.tabs[c] \in Seq(Tabs) /\ n \in Nat /\ DOMAIN v.tabs[c] = 1 .. n
  BY FieldsAre DEF Shape
<1>2. \A s \in ToSet(v.tabs[c]) : Type(v, s) = v.info[s].type
  BY OpenIs, WorkBounds DEF Type
<1>3. \A s : FirstOf(v, c, s) = IF Type(v, s) = "table" THEN v.tabs[c][Min(Same(s))] ELSE s
  BY DEF FirstOf
<1>4. ASSUME v.info[t].type = "table"
      PROVE  f \in ToSet(v.tabs[c]) /\ v.info[f].type = "table" /\ v.info[f].name = v.info[t].name
  <2>1. PICK i \in DOMAIN v.tabs[c] : v.tabs[c][i] = t
    BY DEF ToSet
  <2>2. i \in Same(t)
    BY <1>2, <1>4, <2>1
  <2>3. Same(t) \subseteq Nat
    BY <1>1
  <2>4. Min(Same(t)) \in Same(t)
    <3>. HIDE DEF Same
    <3>. QED BY <2>2, <2>3, MinOf
  <2>. DEFINE m == Min(Same(t))
  <2>5. f = v.tabs[c][m]
    <3>. HIDE DEF Same
    <3>. QED BY <1>2, <1>3, <1>4
  <2>6. m \in DOMAIN v.tabs[c] /\ Type(v, v.tabs[c][m]) = "table" /\ v.info[v.tabs[c][m]].name = v.info[t].name
    BY <2>4
  <2>. HIDE DEF m
  <2>7. f \in ToSet(v.tabs[c])
    BY <2>5, <2>6 DEF ToSet
  <2>. QED BY <1>2, <2>5, <2>6, <2>7
<1>5. ASSUME NEW s \in ToSet(v.tabs[c]), v.info[t].type = "table", v.info[s].type = "table",
             v.info[s].name = v.info[t].name
      PROVE  FirstOf(v, c, s) = f
  <2>1. Same(s) = Same(t)
    BY <1>5
  <2>. HIDE DEF Same
  <2>. QED BY <1>2, <1>3, <1>5, <2>1
<1>6. v.info[t].type # "table" => f = t
  BY <1>2, <1>3
<1>7. f \in ToSet(v.tabs[c])
  BY <1>4, <1>6
<1>8. FirstOf(v, c, f) = f
  <2>1. CASE v.info[t].type # "table"
    BY <1>6, <2>1
  <2>2. CASE v.info[t].type = "table"
    BY <1>4, <1>5, <2>2
  <2>. QED BY <2>1, <2>2
<1>. QED BY <1>5, <1>6, <1>7, <1>8

LEMMA OnTopIs ==
  ASSUME NEW v, Shape(v), NEW c \in Conns, NEW t \in ToSet(v.tabs[c])
  PROVE  OnTop(v, t) \in ToSet(v.tabs[c]) /\ (v.bottom[t] = None => OnTop(v, t) = t)
<1>. DEFINE b == v.bottom[t]
<1>1. t \in Tabs /\ b \in 0 .. MaxTabs
  BY OpenIs, FieldsAre DEF Shape
<1>2. OnTop(v, t) = IF Type(v, t) = "query" /\ Type(v, b) = "table" /\ v.info[b].parent = t THEN b ELSE t
  BY DEF OnTop
<1>. HIDE DEF b
<1>3. CASE b = None
  BY <1>2, <1>3 DEF Type, b
<1>4. CASE b # None
  <2>1. b \in Tabs
    BY <1>1, <1>4, WorkBounds DEF Tabs, None
  <2>2. Type(v, b) = "table" => b \in Open(v)
    BY <1>4, <2>1 DEF Type, Shape, InfoInv, NoTab
  <2>3. \A d \in Conns : b \in ToSet(v.tabs[d]) => d = c
    <3>1. \A d \in Conns : b \in ToSet(v.tabs[d]) => t \in ToSet(v.tabs[d])
      BY <1>1, <1>4 DEF Shape, BottomInv, b
    <3>. QED BY <3>1, OpenIs
  <2>4. b \in Open(v) => b \in ToSet(v.tabs[c])
    BY <2>3 DEF Open
  <2>. QED BY <1>2, <1>4, <2>2, <2>4 DEF b
<1>. QED BY <1>3, <1>4

LEMMA UnscopedIs ==
  ASSUME NEW v, Shape(v), v.asking = None, v.cascade = NoCascade, NEW z, z = Unscoped(v)
  PROVE  /\ Shape(z) /\ PanelInv(z, FALSE) /\ z.asking = None /\ z.cascade = NoCascade
         /\ Open(z) \subseteq Open(v)
         /\ Marks(v) /\ Open(z) = Open(v) /\ ~Dangling(z) => Marks(z)
<1>. DEFINE doubles  == {t \in Open(v) : FirstOf(v, ConnOf(v, t), t) # t}
            children == {t \in Open(v) : v.info[t].parent # None}
            active   == [c \in Conns |-> IF v.active[c] = None THEN None
                                         ELSE FirstOf(v, c, OnTop(v, v.active[c]))]
            tabs     == [c \in Conns |-> Only(v.tabs[c], Tabs \ doubles)]
            info     == [t \in Tabs |-> [v.info[t] EXCEPT !.parent = None]]
            u        == [v EXCEPT !.active = active, !.tabs = tabs, !.info = info]
<1>1. v \in Workspaces /\ \A t \in Open(v) : t \in Tabs
  BY OpenIs DEF Shape, Open
<1>2. z = IF children = {} THEN v ELSE Forget(u, doubles)
  <2>1. u = [v EXCEPT !.active = [c \in Conns |-> IF @[c] = None THEN None
                                                  ELSE FirstOf(v, c, OnTop(v, @[c]))],
                      !.tabs = [c \in Conns |-> Only(@[c], Tabs \ doubles)],
                      !.info = [t \in Tabs |-> [@[t] EXCEPT !.parent = None]]]
    BY <1>1 DEF Workspaces
  <2>. HIDE DEF u
  <2>. QED BY <2>1 DEF Unscoped
<1>3. CASE children = {}
  <2>1. z = v
    BY <1>2, <1>3
  <2>2. \A t \in Tabs : v.info[t].parent = None
    BY <1>3 DEF Shape, InfoInv, NoTab
  <2>. QED BY <2>1, <2>2 DEF PanelInv
<1>4. CASE children # {}
  <2>1. \A c \in Conns : /\ tabs[c] \in Seq(Tabs) /\ Increasing(tabs[c])
                         /\ ToSet(tabs[c]) = ToSet(v.tabs[c]) \ doubles
    <3>. SUFFICES ASSUME NEW c \in Conns
                  PROVE  /\ tabs[c] \in Seq(Tabs) /\ Increasing(tabs[c])
                         /\ ToSet(tabs[c]) = ToSet(v.tabs[c]) \ doubles
      OBVIOUS
    <3>1. tabs[c] = Only(v.tabs[c], Tabs \ doubles) /\ v.tabs[c] \in Seq(Tabs)
      BY <1>1, FieldsAre
    <3>. HIDE DEF tabs, doubles
    <3>2. tabs[c] \in Seq(Tabs) /\ ToSet(tabs[c]) = ToSet(v.tabs[c]) \cap (Tabs \ doubles)
      BY <3>1, OnlyIs
    <3>3. Increasing(v.tabs[c]) /\ ToSet(v.tabs[c]) \subseteq Tabs /\ Tabs \subseteq Nat
      BY OpenIs, WorkBounds DEF Shape, OrderInv
    <3>4. Increasing(tabs[c])
      <4>. DEFINE s == v.tabs[c]
                  T == Tabs \ doubles
      <4>1. s \in Seq(Tabs) /\ Increasing(s) /\ tabs[c] = Only(s, T)
        BY <3>1, <3>3
      <4>. HIDE DEF s, T
      <4>2. Increasing(Only(s, T))
        BY <4>1, WorkBounds, OnlyIs
      <4>. QED BY <4>1, <4>2
    <3>. QED BY <3>2, <3>3, <3>4
  <2>2. ASSUME NEW c \in Conns
        PROVE  /\ active[c] \in 0 .. MaxTabs
               /\ active[c] # None => active[c] \in ToSet(tabs[c])
               /\ v.active[c] = None => active[c] = None
    <3>1. CASE v.active[c] = None
      BY <3>1, WorkBounds DEF None
    <3>2. CASE v.active[c] # None
      <4>. DEFINE a == OnTop(v, v.active[c])
                  e == FirstOf(v, c, a)
      <4>1. active[c] = e
        BY <3>2
      <4>2. a \in ToSet(v.tabs[c])
        <5>1. v.active[c] \in ToSet(v.tabs[c])
          BY <3>2 DEF Shape, ActiveInv
        <5>. QED BY <5>1, OnTopIs
      <4>. HIDE DEF a
      <4>3. e \in ToSet(v.tabs[c]) /\ FirstOf(v, c, e) = e
        BY <4>2, FirstOfIs
      <4>. HIDE DEF e, active
      <4>4. ConnOf(v, e) = c /\ e \in 0 .. MaxTabs
        BY <4>3, OpenIs, WorkBounds DEF Tabs
      <4>. QED BY <2>1, <3>2, <4>1, <4>3, <4>4
    <3>. QED BY <3>1, <3>2
  <2>3. ASSUME NEW t \in Tabs
        PROVE  /\ info[t] \in Infos /\ info[t].parent = None
               /\ info[t].type = v.info[t].type /\ info[t].name = v.info[t].name
    <3>1. info[t] = [v.info[t] EXCEPT !.parent = None] /\ v.info[t] \in Infos
      BY <1>1, FieldsAre
    <3>. HIDE DEF info
    <3>. QED BY <3>1, WorkBounds DEF Infos, None
  <2>4. active \in [Conns -> 0 .. MaxTabs] /\ tabs \in [Conns -> Seq(Tabs)] /\ info \in [Tabs -> Infos]
    BY <2>1, <2>2, <2>3
  <2>5. doubles \in SUBSET Tabs /\ doubles \subseteq Open(v)
    BY <1>1
  <2>6. \A c \in Conns : \A t \in ToSet(v.tabs[c]) : t \in doubles <=> FirstOf(v, c, t) # t
    BY OpenIs
  <2>7. z = Forget(u, doubles)
    BY <1>2, <1>4
  <2>. HIDE DEF active, tabs, info, u, doubles, children
  <2>8. /\ u \in Workspaces /\ u.active = active /\ u.tabs = tabs /\ u.info = info
        /\ u.attached = v.attached /\ u.visible = v.visible /\ u.bottom = v.bottom
        /\ u.loaded = v.loaded /\ u.marked = v.marked /\ u.evicted = v.evicted /\ u.dirty = v.dirty
        /\ u.asking = v.asking /\ u.cascade = v.cascade /\ u.next = v.next /\ u.used = v.used
    BY <1>1, <2>4 DEF u, Workspaces
  <2>9. /\ z \in Workspaces /\ IsInjective(z.used)
        /\ z.attached = v.attached /\ z.tabs = tabs /\ z.active = active /\ z.visible = v.visible
        /\ z.cascade = v.cascade /\ z.next = v.next
        /\ \A t \in Tabs : z.info[t] = IF t \in doubles THEN NoTab ELSE info[t]
        /\ \A t \in Tabs : z.bottom[t] = IF t \in doubles THEN None ELSE v.bottom[t]
        /\ z.loaded = v.loaded \ doubles /\ z.marked = v.marked \ doubles /\ z.evicted = v.evicted \ doubles
        /\ z.dirty = v.dirty \ doubles /\ z.asking = None
    BY <2>5, <2>7, <2>8, ForgetIs DEF Shape, OrderInv
  <2>10. Open(z) = Open(v) \ doubles
    BY <2>1, <2>9 DEF Open
  <2>11. ASSUME NEW t \in Tabs \ doubles
         PROVE  z.info[t].type = v.info[t].type /\ z.info[t].name = v.info[t].name /\ z.info[t].parent = None
    BY <2>3, <2>9
  <2>12. \A t \in Tabs : z.info[t].parent = None
    BY <2>3, <2>9 DEF NoTab
  <2>13. OrderInv(z)
    <3>1. \A c \in Conns : /\ z.tabs[c] = tabs[c] /\ Increasing(tabs[c])
                           /\ ToSet(tabs[c]) \subseteq ToSet(v.tabs[c])
      BY <2>1, <2>9
    <3>2. /\ \A c \in Conns : \A t \in ToSet(v.tabs[c]) : t < v.next
          /\ \A c, d \in Conns : \A t \in ToSet(v.tabs[c]) : t \in ToSet(v.tabs[d]) => c = d
      BY DEF Shape, OrderInv
    <3>3. \A c \in Conns : Increasing(z.tabs[c]) /\ \A t \in ToSet(z.tabs[c]) : t < z.next
      BY <2>9, <3>1, <3>2
    <3>4. \A c, d \in Conns : \A t \in ToSet(z.tabs[c]) : t \in ToSet(z.tabs[d]) => c = d
      BY <3>1, <3>2
    <3>. QED BY <2>9, <3>3, <3>4 DEF OrderInv
  <2>14. InfoInv(z)
    <3>1. ASSUME NEW t \in Tabs PROVE IF t \in Open(z) THEN z.info[t].type # "none" ELSE z.info[t] = NoTab
      <4>1. CASE t \in Open(z)
        BY <2>10, <2>11, <4>1 DEF Shape, InfoInv
      <4>2. CASE t \in doubles
        BY <2>9, <2>10, <4>2
      <4>3. CASE t \notin Open(v)
        <5>1. v.info[t] = NoTab /\ t \notin doubles /\ z.info[t] = info[t]
          BY <2>5, <2>9, <4>3 DEF Shape, InfoInv
        <5>2. info[t] = NoTab
          BY <2>3, <5>1 DEF Infos, NoTab
        <5>. QED BY <2>10, <4>3, <5>1, <5>2
      <4>. QED BY <2>10, <4>1, <4>2, <4>3
    <3>2. ASSUME NEW t \in Tabs PROVE z.info[t].type \in {"table", "object"} <=> z.info[t].name \in Names
      <4>1. CASE t \in doubles
        BY <2>9, <4>1, WorkspaceAssumption DEF NoTab
      <4>2. CASE t \notin doubles
        BY <2>11, <4>2 DEF Shape, InfoInv
      <4>. QED BY <4>1, <4>2
    <3>3. \A c \in Conns : \A t \in ToSet(z.tabs[c]) : z.info[t].parent = None
      BY <2>1, <2>9, <2>12, OpenIs
    <3>4. \A t \in Tabs : z.info[t].parent < t
      BY <2>12, WorkBounds DEF Tabs, None
    <3>. QED BY <3>1, <3>2, <3>3, <3>4 DEF InfoInv
  <2>15. OnceInv(z)
    <3>. SUFFICES ASSUME NEW d \in Conns, NEW s \in ToSet(z.tabs[d]), NEW t \in ToSet(z.tabs[d]),
                         s # t, z.info[s] = z.info[t], z.info[s].type # "query"
                  PROVE  FALSE
      BY DEF OnceInv
    <3>1. s \in ToSet(v.tabs[d]) \ doubles /\ t \in ToSet(v.tabs[d]) \ doubles
      BY <2>1, <2>9
    <3>2. s \in Tabs \ doubles /\ t \in Tabs \ doubles
      BY <3>1, OpenIs
    <3>3. /\ v.info[s].type = v.info[t].type /\ v.info[s].name = v.info[t].name
          /\ v.info[s].type # "query"
      BY <2>11, <3>2
    <3>4. CASE v.info[s].type = "table"
      <4>1. FirstOf(v, d, s) = s /\ FirstOf(v, d, t) = t
        BY <2>6, <3>1
      <4>2. FirstOf(v, d, s) = FirstOf(v, d, t)
        <5>1. t \in ToSet(v.tabs[d]) /\ s \in ToSet(v.tabs[d])
          BY <3>1
        <5>2. \A x \in ToSet(v.tabs[d]) : v.info[t].type = "table" /\ v.info[x].type = "table"
                /\ v.info[x].name = v.info[t].name => FirstOf(v, d, x) = FirstOf(v, d, t)
          BY <5>1, FirstOfIs
        <5>. QED BY <3>3, <3>4, <5>1, <5>2
      <4>. QED BY <4>1, <4>2
    <3>5. CASE v.info[s].type # "table"
      <4>1. v.info[s].parent = None /\ v.info[t].parent = None
        BY <3>1, <3>3, <3>5 DEF Shape, InfoInv, Scoped
      <4>2. v.info[s] \in Infos /\ v.info[t] \in Infos
        BY <1>1, <3>2, FieldsAre
      <4>3. v.info[s] = v.info[t]
        BY <3>3, <4>1, <4>2 DEF Infos
      <4>. QED BY <3>1, <3>3, <4>3 DEF Shape, OnceInv
    <3>. QED BY <3>4, <3>5
  <2>16. ActiveInv(z)
    <3>1. \A d \in Conns : z.active[d] # None => z.active[d] \in ToSet(z.tabs[d])
      BY <2>2, <2>9
    <3>2. \A d \in Conns : \A t \in ToSet(z.tabs[d]) : z.info[t].parent = None
      BY <2>1, <2>9, <2>12, OpenIs
    <3>. QED BY <2>9, <3>1, <3>2 DEF Shape, ActiveInv
  <2>17. BottomInv(z)
    <3>. SUFFICES ASSUME NEW q \in Tabs, z.bottom[q] # None
                  PROVE  /\ z.info[q].type = "query" /\ z.bottom[q] < z.next
                         /\ z.bottom[q] \in Open(z) => z.info[z.bottom[q]].type = "table"
                         /\ \A c \in Conns : z.bottom[q] \in ToSet(z.tabs[c]) => q \in ToSet(z.tabs[c])
      BY DEF BottomInv
    <3>. DEFINE b == v.bottom[q]
    <3>1. q \notin doubles /\ z.bottom[q] = b
      BY <2>9
    <3>2. /\ v.info[q].type = "query" /\ b < v.next
          /\ b \in Open(v) => v.info[b].type = "table"
          /\ \A c \in Conns : b \in ToSet(v.tabs[c]) => q \in ToSet(v.tabs[c])
      BY <3>1 DEF Shape, BottomInv
    <3>. HIDE DEF b
    <3>3. b \in Open(z) => z.info[b].type = "table"
      BY <1>1, <2>10, <2>11, <3>2
    <3>4. \A c \in Conns : b \in ToSet(z.tabs[c]) => q \in ToSet(z.tabs[c])
      BY <2>1, <2>9, <3>1, <3>2
    <3>. QED BY <2>9, <2>11, <3>1, <3>2, <3>3, <3>4
  <2>18. RowsInv(z)
    <3>1. \A t \in z.loaded : t \in Tabs \ doubles
      BY <1>1, <2>9, FieldsAre
    <3>. QED BY <2>9, <2>10, <2>11, <3>1 DEF Shape, RowsInv
  <2>19. Shape(z)
    BY <2>9, <2>13, <2>14, <2>15, <2>16, <2>17, <2>18 DEF Shape
  <2>20. ASSUME Marks(v), Open(z) = Open(v), ~Dangling(z) PROVE Marks(z)
    <3>1. doubles = {}
      BY <2>5, <2>10, <2>20
    <3>2. \A q \in Tabs : v.bottom[q] = None /\ z.bottom[q] = None
      BY <2>9, <2>20, <3>1 DEF Dangling
    <3>3. ASSUME v.visible # NoConn PROVE z.active[v.visible] = v.active[v.visible]
      <4>. DEFINE c == v.visible
                  a == v.active[c]
      <4>1. c \in Conns
        BY <1>1, <3>3, FieldsAre
      <4>. HIDE DEF c
      <4>2. CASE a = None
        BY <2>2, <2>9, <4>1, <4>2 DEF c
      <4>3. CASE a # None
        <5>1. a \in ToSet(v.tabs[c])
          BY <4>1, <4>3 DEF Shape, ActiveInv
        <5>2. a \in Tabs
          BY <4>1, <5>1, OpenIs
        <5>3. OnTop(v, a) = a
          BY <3>2, <4>1, <5>1, <5>2, OnTopIs
        <5>4. active[c] = FirstOf(v, c, OnTop(v, a))
          BY <4>1, <4>3 DEF active
        <5>5. FirstOf(v, c, a) = a
          BY <2>6, <3>1, <4>1, <5>1
        <5>. QED BY <2>9, <5>3, <5>4, <5>5 DEF c
      <4>. QED BY <4>2, <4>3
    <3>4. Screen(z) = Screen(v)
      <4>1. \A a \in Tabs : z.info[a].type = v.info[a].type /\ z.bottom[a] = v.bottom[a]
        BY <2>11, <3>1, <3>2
      <4>. QED BY <2>9, <3>3, <4>1, ScreenFrame
    <3>. QED BY <2>9, <2>20, <3>1, <3>4 DEF Marks
  <2>. QED BY <2>9, <2>10, <2>12, <2>19, <2>20 DEF PanelInv
<1>. QED BY <1>3, <1>4

LEMMA ToggleSettingKeeps ==
  ASSUME WorkIInv, ToggleSetting
  PROVE  WorkIInv' /\ Sparing
<1>1. /\ Shape(w) /\ w.asking = None /\ w.cascade = NoCascade /\ panel \in BOOLEAN
      /\ panel' = ~panel /\ w' = (IF panel THEN Unscoped(w) ELSE w) /\ Note(FALSE)
  BY DEF WorkIInv, ToggleSetting, Free
<1>2. CASE ~panel
  <2>1. w' = w /\ panel' = TRUE
    BY <1>1, <1>2
  <2>2. DialogInv(w, TRUE) /\ PanelInv(w, TRUE)
    BY <1>1, FreeDialog DEF PanelInv
  <2>3. panel' \in BOOLEAN /\ DialogInv(w, panel') /\ PanelInv(w, panel')
    BY <2>1, <2>2
  <2>. QED BY <1>1, <2>1, <2>3, NoteIs, TabsStand
<1>3. CASE panel
  <2>. DEFINE z == Unscoped(w)
  <2>1. w' = z /\ panel' = FALSE
    BY <1>1, <1>3
  <2>2. /\ Shape(z) /\ PanelInv(z, FALSE) /\ z.asking = None /\ z.cascade = NoCascade
        /\ Open(z) \subseteq Open(w)
        /\ Marks(w) /\ Open(z) = Open(w) /\ ~Dangling(z) => Marks(z)
    BY <1>1, UnscopedIs
  <2>. HIDE DEF z
  <2>3. panel' \in BOOLEAN /\ DialogInv(z, panel') /\ PanelInv(z, panel')
    BY <2>1, <2>2, FreeDialog
  <2>4. Marks(w) /\ ~Gap(FALSE) => Marks(z)
    <3>1. ~Gap(FALSE) => ~Dangling(w') /\ Open(w) = Open(w')
      BY <1>3, <2>1 DEF Gap, Merged
    <3>. QED BY <2>1, <2>2, <3>1
  <2>5. Sparing
    <3>1. Open(w) # Open(w') => Merged
      BY <1>3, <2>1 DEF Merged
    <3>2. w.dirty \subseteq Open(w)
      BY <1>1 DEF Shape, RowsInv
    <3>3. \A t \in w.dirty \ Open(w') : Purpose(t)
      BY <3>1, <3>2 DEF Purpose
    <3>. QED BY <2>1, <2>2, <3>3, TabsGo
  <2>. QED BY <1>1, <2>1, <2>2, <2>3, <2>4, <2>5, NoteIs
<1>. QED BY <1>2, <1>3

LEMMA OpenConnectionKeeps ==
  ASSUME WorkIInv, NEW c \in Conns, OpenConnection(c)
  PROVE  WorkIInv' /\ Sparing
<1>. DEFINE attached == w.attached \cup {c}
            x == [w EXCEPT !.attached = attached]
            v == SetVisible(x, c)
            u == AddQuery(v, c)
<1>1. Shape(w) /\ w \in Workspaces /\ w.asking = None /\ w.cascade = NoCascade /\ PanelInv(w, panel)
  BY DEF WorkIInv, Shape, OpenConnection, Free
<1>2. Become(v) \/ (w.next \in Tabs /\ Become(u))
  <2>1. x = [w EXCEPT !.attached = @ \cup {c}]
    BY <1>1 DEF Workspaces
  <2>. HIDE DEF x
  <2>. QED BY <2>1 DEF OpenConnection
<1>3. attached \in SUBSET Conns
  BY <1>1, FieldsAre
<1>4. /\ x \in Workspaces /\ x.attached = attached
      /\ x.tabs = w.tabs /\ x.active = w.active /\ x.visible = w.visible
      /\ x.info = w.info /\ x.bottom = w.bottom /\ x.loaded = w.loaded /\ x.marked = w.marked
      /\ x.evicted = w.evicted /\ x.dirty = w.dirty /\ x.asking = w.asking /\ x.cascade = w.cascade
      /\ x.next = w.next /\ x.used = w.used
  <2>. HIDE DEF attached
  <2>. QED BY <1>1, <1>3 DEF Workspaces
<1>. HIDE DEF u, v, x
<1>5. Shape(x)
  <2>1. Open(x) = Open(w)
    BY <1>4 DEF Open
  <2>2. OrderInv(x) /\ InfoInv(x) /\ OnceInv(x) /\ BottomInv(x) /\ RowsInv(x)
    BY <1>1, <1>4, <2>1 DEF Shape, OrderInv, InfoInv, OnceInv, Scoped, BottomInv, RowsInv
  <2>3. ActiveInv(x)
    BY <1>1, <1>4 DEF Shape, ActiveInv
  <2>. QED BY <1>4, <2>2, <2>3 DEF Shape
<1>6. Marks(w) => Marks(x)
  <2>1. Screen(x) = Screen(w)
    BY <1>1, <1>4, ScreenFrame
  <2>. QED BY <1>4, <2>1 DEF Marks
<1>7. Shape(v) /\ Viewed(v, x, c) /\ (Marks(x) => Marks(v))
  <2>1. c \in x.attached \cup {NoConn}
    BY <1>4
  <2>. QED BY <1>5, <2>1, SetVisibleIs DEF v
<1>8. v.asking = None /\ v.cascade = NoCascade /\ v.next = w.next /\ v.info = w.info
  BY <1>1, <1>4, <1>7 DEF Viewed
<1>9. ASSUME Become(v) PROVE WorkIInv' /\ Sparing
  <2>1. DialogInv(v, panel) /\ PanelInv(v, panel)
    BY <1>1, <1>8, FreeDialog DEF PanelInv
  <2>2. v.tabs = w.tabs
    BY <1>4, <1>7 DEF Viewed
  <2>. QED BY <1>6, <1>7, <1>9, <2>1, <2>2, BecomeIs
<1>10. ASSUME w.next \in Tabs, Become(u) PROVE WorkIInv' /\ Sparing
  <2>1. /\ Shape(u) /\ (Marks(v) => Marks(u)) /\ u.asking = v.asking /\ u.cascade = v.cascade
        /\ u.info[v.next] = [type |-> "query", name |-> NoConn, parent |-> None]
        /\ \A t \in Tabs : t # v.next => u.info[t] = v.info[t]
    BY <1>7, <1>8, <1>10, AddQueryIs DEF u
  <2>2. PanelInv(u, panel)
    BY <1>1, <1>8, <2>1 DEF PanelInv
  <2>3. DialogInv(u, panel)
    BY <1>8, <2>1, FreeDialog
  <2>4. Sparing
    <3>1. Open(u) = Open(v) \cup {v.next} /\ \A t \in Open(u) \ Open(v) : u.info[t].type = "query"
      BY <1>7, <1>8, <1>10, QueryComes DEF u
    <3>2. Open(v) = Open(w)
      BY <1>4, <1>7 DEF Viewed, Open
    <3>3. w.dirty \subseteq Open(u) /\ w' = u
      BY <1>1, <1>10, <3>1, <3>2 DEF Shape, RowsInv, Become
    <3>. QED BY <2>1, <3>1, <3>2, <3>3, TabsCome
  <2>. QED BY <1>6, <1>7, <1>10, <2>1, <2>2, <2>3, <2>4, BecomeIs
<1>. QED BY <1>2, <1>9, <1>10

LEMMA SwitchConnectionKeeps ==
  ASSUME WorkIInv, NEW c \in Conns, SwitchConnection(c)
  PROVE  WorkIInv' /\ Sparing
<1>. DEFINE u == SetVisible(w, c)
<1>1. /\ Shape(w) /\ w.asking = None /\ w.cascade = NoCascade /\ PanelInv(w, panel)
      /\ c \in w.attached \cup {NoConn} /\ Become(u)
  BY DEF WorkIInv, SwitchConnection, Free, Live
<1>. HIDE DEF u
<1>2. Shape(u) /\ Viewed(u, w, c) /\ (Marks(w) => Marks(u))
  BY <1>1, SetVisibleIs DEF u
<1>3. DialogInv(u, panel) /\ PanelInv(u, panel)
  BY <1>1, <1>2, FreeDialog DEF Viewed, PanelInv
<1>. QED BY <1>1, <1>2, <1>3, BecomeIs DEF Viewed

LEMMA CloseWorkspaceKeeps ==
  ASSUME WorkIInv, NEW c \in Conns, CloseWorkspace(c)
  PROVE  WorkIInv' /\ Sparing
<1>. DEFINE others == w.attached \ {c}
            e == IF others = {} THEN NoConn ELSE CHOOSE d \in others : TRUE
            v == IF w.visible # c THEN w ELSE SetVisible(w, e)
            gone == ToSet(w.tabs[c])
            f == Forget(v, gone)
            x == [f EXCEPT !.tabs[c] = <<>>, !.active[c] = None, !.attached = @ \ {c}]
<1>1. /\ Shape(w) /\ w \in Workspaces /\ DialogInv(w, panel) /\ PanelInv(w, panel) /\ Become(x)
      /\ c # NoConn
  BY WorkspaceAssumption DEF WorkIInv, Shape, CloseWorkspace
<1>2. e \in w.attached \cup {NoConn} /\ e # c
  BY <1>1
<1>. HIDE DEF e
<1>3. /\ Shape(v) /\ (Marks(w) => Marks(v)) /\ v.visible # c
      /\ v.tabs = w.tabs /\ v.active = w.active /\ v.info = w.info /\ v.bottom = w.bottom
      /\ v.attached = w.attached /\ v.asking = w.asking /\ v.cascade = w.cascade
  <2>1. CASE w.visible # c
    BY <1>1, <2>1
  <2>2. CASE w.visible = c
    <3>1. v = SetVisible(w, e)
      BY <2>2
    <3>. HIDE DEF v
    <3>2. Shape(v) /\ Viewed(v, w, e) /\ (Marks(w) => Marks(v))
      BY <1>1, <1>2, <3>1, SetVisibleIs
    <3>. QED BY <1>2, <3>2 DEF Viewed
  <2>. QED BY <2>1, <2>2
<1>. HIDE DEF v
<1>4. DialogInv(v, panel) /\ PanelInv(v, panel)
  <2>1. /\ \A q \in Tabs : v.bottom[q] \in {w.bottom[q], None}
        /\ v.asking \in {w.asking, None} /\ v.cascade \in {w.cascade, NoCascade}
    BY <1>3
  <2>. QED BY <1>1, <1>3, <2>1, DialogFrame
<1>5. gone \in SUBSET Tabs
  BY <1>1, OpenIs
<1>6. \A d \in Conns : d # c => ToSet(w.tabs[d]) \cap gone = {}
  BY <1>1, OpenIs
<1>7. Whole(v, gone)
  <2>. SUFFICES ASSUME NEW t \in Open(v) \ gone, v.info[t].parent \in gone PROVE FALSE
    BY DEF Whole
  <2>1. PICK d \in Conns : t \in ToSet(w.tabs[d])
    BY <1>3 DEF Open
  <2>2. w.info[t].parent # None
    BY <1>3, <1>5, WorkBounds
  <2>3. Scoped(w, d, t)
    BY <1>1, <2>1, <2>2 DEF Shape, InfoInv
  <2>4. d # c
    BY <2>1
  <2>. QED BY <1>3, <1>6, <2>3, <2>4 DEF Scoped
<1>. HIDE DEF gone
<1>8. /\ f \in Workspaces /\ (IsInjective(v.used) => IsInjective(f.used))
      /\ f.attached = v.attached /\ f.tabs = v.tabs /\ f.active = v.active /\ f.visible = v.visible
      /\ f.cascade = v.cascade /\ f.next = v.next
      /\ \A t \in Tabs : f.info[t] = IF t \in gone THEN NoTab ELSE v.info[t]
      /\ \A t \in Tabs : f.bottom[t] = IF t \in gone THEN None ELSE v.bottom[t]
      /\ f.loaded = v.loaded \ gone /\ f.marked = v.marked \ gone /\ f.evicted = v.evicted \ gone
      /\ f.dirty = v.dirty \ gone /\ f.asking = IF v.asking \in gone THEN None ELSE v.asking
  <2>1. v \in Workspaces
    BY <1>3 DEF Shape
  <2>. QED BY <1>5, <2>1, ForgetIs
<1>. HIDE DEF f
<1>9. /\ x \in Workspaces /\ x.attached = v.attached \ {c}
      /\ x.tabs = [v.tabs EXCEPT ![c] = <<>>] /\ x.active = [v.active EXCEPT ![c] = None]
      /\ x.visible = v.visible /\ x.info = f.info /\ x.bottom = f.bottom /\ x.loaded = f.loaded
      /\ x.marked = f.marked /\ x.evicted = f.evicted /\ x.dirty = f.dirty
      /\ x.asking = f.asking /\ x.cascade = f.cascade /\ x.next = f.next /\ x.used = f.used
  <2>. DEFINE tabs     == [f.tabs EXCEPT ![c] = <<>>]
              active   == [f.active EXCEPT ![c] = None]
              attached == f.attached \ {c}
  <2>1. /\ tabs \in [Conns -> Seq(Tabs)] /\ active \in [Conns -> 0 .. MaxTabs]
        /\ attached \in SUBSET Conns
    <3>1. <<>> \in Seq(Tabs) /\ None \in 0 .. MaxTabs
      BY WorkBounds DEF None
    <3>. QED BY <1>8, <3>1, FieldsAre
  <2>2. x = [f EXCEPT !.tabs = tabs, !.active = active, !.attached = attached]
    BY <1>8 DEF Workspaces
  <2>. HIDE DEF tabs, active, attached, x
  <2>3. x \in Workspaces
    BY <1>8, <2>1, <2>2 DEF Workspaces
  <2>4. /\ x.attached = attached /\ x.tabs = tabs /\ x.active = active /\ x.visible = f.visible
        /\ x.info = f.info /\ x.bottom = f.bottom /\ x.loaded = f.loaded
        /\ x.marked = f.marked /\ x.evicted = f.evicted /\ x.dirty = f.dirty
        /\ x.asking = f.asking /\ x.cascade = f.cascade /\ x.next = f.next /\ x.used = f.used
    BY <1>8, <2>2 DEF Workspaces
  <2>. QED BY <1>8, <2>3, <2>4 DEF tabs, active, attached
<1>. HIDE DEF x
<1>10. /\ x.tabs[c] = <<>> /\ \A d \in Conns : d # c => x.tabs[d] = w.tabs[d]
       /\ x.active[c] = None /\ \A d \in Conns : d # c => x.active[d] = w.active[d]
  BY <1>1, <1>3, <1>9, FieldsAre
<1>11. Pruned(x, v, gone)
  <2>1. ASSUME NEW d \in Conns PROVE Increasing(x.tabs[d]) /\ ToSet(x.tabs[d]) = ToSet(v.tabs[d]) \ gone
    <3>1. CASE d = c
      <4>1. ToSet(<<>>) = {} /\ Increasing(<<>>)
        BY DEF ToSet, Increasing
      <4>. QED BY <1>3, <1>10, <3>1, <4>1 DEF gone
    <3>2. CASE d # c
      BY <1>1, <1>3, <1>6, <1>10, <3>2 DEF Shape, OrderInv
    <3>. QED BY <3>1, <3>2
  <2>2. x.asking \in {v.asking, None} \ gone
    BY <1>5, <1>8, <1>9, WorkBounds
  <2>3. IsInjective(x.used)
    BY <1>3, <1>8, <1>9 DEF Shape, OrderInv
  <2>. QED BY <1>8, <1>9, <2>1, <2>2, <2>3 DEF Pruned
<1>12. ActiveInv(x)
  <2>1. ASSUME NEW d \in Conns, x.active[d] # None
        PROVE  x.active[d] \in ToSet(x.tabs[d]) /\ x.info[x.active[d]].parent = None
    <3>1. d # c /\ x.active[d] = w.active[d]
      BY <1>10, <2>1
    <3>2. w.active[d] \in ToSet(w.tabs[d]) /\ w.info[w.active[d]].parent = None
      BY <1>1, <2>1, <3>1 DEF Shape, ActiveInv
    <3>3. w.active[d] \in Tabs /\ w.active[d] \notin gone
      BY <1>1, <1>6, <3>1, <3>2, OpenIs
    <3>. QED BY <1>3, <1>8, <1>9, <1>10, <3>1, <3>2, <3>3
  <2>2. x.visible # NoConn => x.visible \in x.attached
    BY <1>3, <1>9 DEF Shape, ActiveInv
  <2>. QED BY <2>1, <2>2 DEF ActiveInv
<1>13. Shape(x)
  <2>1. x.marked \subseteq x.loaded /\ x.evicted \subseteq v.evicted \cap x.loaded /\ x.marked \cap x.evicted = {}
    BY <1>3, <1>8, <1>9 DEF Shape, RowsInv
  <2>. QED BY <1>3, <1>5, <1>7, <1>11, <1>12, <2>1, PrunedIs
<1>14. Marks(v) => Marks(x)
  <2>1. v.visible # NoConn => v.visible \in Conns /\ x.active[v.visible] = v.active[v.visible]
    BY <1>3, <1>10, FieldsAre DEF Shape
  <2>2. ASSUME NEW a \in Tabs, v.visible # NoConn, a = v.active[v.visible]
        PROVE  x.info[a].type = v.info[a].type /\ x.bottom[a] = v.bottom[a]
    <3>1. a \in ToSet(v.tabs[v.visible])
      BY <1>3, <2>1, <2>2, WorkBounds DEF Shape, ActiveInv
    <3>2. a \notin gone
      BY <1>3, <1>6, <2>1, <2>2, <3>1
    <3>. QED BY <1>8, <1>9, <3>2
  <2>3. x.visible = v.visible /\ (v.visible # NoConn => x.active[v.visible] = v.active[v.visible])
    BY <1>9, <2>1
  <2>4. v.visible # NoConn => \A a \in Tabs : a = v.active[v.visible] =>
          x.info[a].type = v.info[a].type /\ x.bottom[a] = v.bottom[a]
    BY <2>2
  <2>5. Screen(x) = Screen(v)
    BY <1>3, <2>3, <2>4, ScreenFrame
  <2>. QED BY <1>8, <1>9, <2>5 DEF Marks
<1>15. DialogInv(x, panel) /\ PanelInv(x, panel)
  BY <1>3, <1>4, <1>5, <1>11, PrunedDialog
<1>16. Sparing
  <2>1. Open(x) = Open(w) \ gone /\ w' = x /\ w.dirty \subseteq Open(w)
    BY <1>1, <1>3, <1>11, PrunedOpen DEF Become, Open, Shape, RowsInv
  <2>2. ASSUME NEW t \in gone PROVE Purpose(t)
    <3>1. ConnOf(w, t) = c
      BY <1>1, OpenIs DEF gone
    <3>. QED BY <3>1 DEF Purpose
  <2>. QED BY <2>1, <2>2, TabsGo
<1>. QED BY <1>1, <1>3, <1>13, <1>14, <1>15, <1>16, BecomeIs

LEMMA WorkInitIs == WorkInit => WorkIInv
<1>. SUFFICES ASSUME WorkInit PROVE WorkIInv
  OBVIOUS
<1>1. /\ w.attached = {} /\ w.tabs = [c \in Conns |-> <<>>] /\ w.active = [c \in Conns |-> None]
      /\ w.visible = NoConn /\ w.info = [t \in Tabs |-> NoTab] /\ w.used = <<>>
      /\ w.bottom = [t \in Tabs |-> None] /\ w.loaded = {} /\ w.marked = {} /\ w.evicted = {}
      /\ w.dirty = {} /\ w.asking = None /\ w.cascade = NoCascade /\ w.next = 1
      /\ panel \in BOOLEAN /\ stray = FALSE
  BY DEF WorkInit
<1>2. w \in Workspaces
  <2>1. NoTab \in Infos /\ None \in 0 .. MaxTabs /\ 1 \in 1 .. MaxTabs + 1 /\ <<>> \in Seq(Tabs)
    BY WorkBounds DEF NoTab, Infos, None
  <2>2. /\ [c \in Conns |-> <<>>] \in [Conns -> Seq(Tabs)] /\ [c \in Conns |-> None] \in [Conns -> 0 .. MaxTabs]
        /\ [t \in Tabs |-> NoTab] \in [Tabs -> Infos] /\ [t \in Tabs |-> None] \in [Tabs -> 0 .. MaxTabs]
    BY <2>1
  <2>. QED BY <2>1, <2>2, NoCascadeIs DEF WorkInit, Workspaces
<1>3. (\A c \in Conns : w.tabs[c] = <<>> /\ ToSet(w.tabs[c]) = {}) /\ Open(w) = {}
  <2>1. \A c \in Conns : w.tabs[c] = <<>> /\ ToSet(w.tabs[c]) = {}
    BY <1>1 DEF ToSet
  <2>. QED BY <2>1 DEF Open
<1>4. OrderInv(w) /\ OnceInv(w)
  <2>1. Increasing(<<>>)
    BY DEF Increasing
  <2>2. \A c \in Conns : Increasing(w.tabs[c])
    BY <1>3, <2>1
  <2>3. IsInjective(w.used)
    BY <1>1 DEF IsInjective
  <2>. QED BY <1>3, <2>2, <2>3 DEF OrderInv, OnceInv
<1>5. InfoInv(w)
  <2>1. \A t \in Tabs : None < t
    BY WorkBounds DEF Tabs, None
  <2>. QED BY <1>1, <1>3, <2>1, WorkspaceAssumption DEF InfoInv, NoTab
<1>6. ActiveInv(w) /\ BottomInv(w) /\ RowsInv(w)
  BY <1>1, <1>3 DEF ActiveInv, BottomInv, RowsInv
<1>7. DialogInv(w, panel) /\ PanelInv(w, panel)
  BY <1>1, FreeDialog DEF PanelInv, NoTab
<1>8. ScreenIsActive
  BY <1>1 DEF ScreenIsActive, Wrong
<1>. QED BY <1>1, <1>2, <1>4, <1>5, <1>6, <1>7, <1>8 DEF WorkIInv, Shape

LEMMA WorkStep == WorkIInv /\ [WorkNext]_workVars => WorkIInv' /\ [Sparing]_workVars
<1>. SUFFICES ASSUME WorkIInv, [WorkNext]_workVars PROVE WorkIInv' /\ Sparing
  OBVIOUS
<1>1. CASE UNCHANGED workVars
  <2>1. w' = w /\ panel' = panel /\ stray' = stray
    BY <1>1 DEF workVars
  <2>2. WorkIInv'
    BY <2>1 DEF WorkIInv, ScreenIsActive
  <2>. QED BY <2>1, <2>2, TabsStand
<1>2. ASSUME NEW c \in Conns, OpenQueryTab(c) PROVE WorkIInv' /\ Sparing
  BY <1>2, OpenQueryTabKeeps
<1>3. ASSUME NEW c \in Conns, OpenConnection(c) PROVE WorkIInv' /\ Sparing
  BY <1>3, OpenConnectionKeeps
<1>4. ASSUME NEW c \in Conns, SwitchConnection(c) PROVE WorkIInv' /\ Sparing
  BY <1>4, SwitchConnectionKeeps
<1>5. ASSUME NEW c \in Conns, CloseWorkspace(c) PROVE WorkIInv' /\ Sparing
  BY <1>5, CloseWorkspaceKeeps
<1>6. ASSUME NEW c \in Conns, NEW n \in Names, DropObject(c, n) PROVE WorkIInv' /\ Sparing
  BY <1>6, DropObjectKeeps
<1>7. ASSUME NEW c \in Conns, NEW n \in Names, NEW type \in {"table", "object"}, OpenTab(c, type, n)
      PROVE  WorkIInv' /\ Sparing
  BY <1>7, OpenTabKeeps
<1>8. ASSUME NEW c \in Conns, NEW n \in Names, NEW m \in Names \ {n}, RenameObject(c, n, m) PROVE WorkIInv' /\ Sparing
  BY <1>8, RenameObjectKeeps
<1>9. ASSUME NEW c \in Conns, NEW t \in Tabs, RequestActivateTab(c, t) PROVE WorkIInv' /\ Sparing
  BY <1>9, RequestActivateTabKeeps
<1>10. ASSUME NEW c \in Conns, NEW t \in Tabs, CloseTab(c, t) PROVE WorkIInv' /\ Sparing
  BY <1>10, CloseTabKeeps
<1>11. ASSUME NEW c \in Conns, NEW t \in 0 .. MaxTabs, SelectBottom(c, t) PROVE WorkIInv' /\ Sparing
  BY <1>11, SelectBottomKeeps
<1>12. ASSUME NEW t \in Tabs, ConfirmClose(t) PROVE WorkIInv' /\ Sparing
  BY <1>12, ConfirmCloseKeeps
<1>13. ASSUME NEW t \in Tabs, CancelClose(t) PROVE WorkIInv' /\ Sparing
  BY <1>13, CancelCloseKeeps
<1>14. ASSUME NEW t \in Tabs, ResetBottom(t) PROVE WorkIInv' /\ Sparing
  BY <1>14, ResetBottomKeeps
<1>15. ASSUME NEW t \in Tabs, Load(t) PROVE WorkIInv' /\ Sparing
  BY <1>15, LoadKeeps
<1>16. ASSUME NEW t \in Tabs, Edit(t) PROVE WorkIInv' /\ Sparing
  BY <1>16, EditKeeps
<1>17. ASSUME NEW t \in Tabs, Save(t) PROVE WorkIInv' /\ Sparing
  BY <1>17, SaveKeeps
<1>18. ASSUME NEW t \in Tabs, Evict(t) PROVE WorkIInv' /\ Sparing
  BY <1>18, EvictKeeps
<1>19. ASSUME NEW t \in Tabs, NEW rows \in BOOLEAN, EndRun(t, rows) PROVE WorkIInv' /\ Sparing
  BY <1>19, EndRunKeeps
<1>20. CASE ConfirmCascade
  BY <1>20, ConfirmCascadeKeeps
<1>21. CASE CancelCascade
  BY <1>21, CancelCascadeKeeps
<1>22. CASE ToggleSetting
  BY <1>22, ToggleSettingKeeps
<1>. QED BY <1>1, <1>2, <1>3, <1>4, <1>5, <1>6, <1>7, <1>8, <1>9, <1>10, <1>11, <1>12, <1>13, <1>14,
             <1>15, <1>16, <1>17, <1>18, <1>19, <1>20, <1>21, <1>22 DEF WorkNext

(* The rows on screen, and no others, are marked, but for the cases of     *)
(* Gap: see ScreenIsActive.                                                *)
THEOREM MarksAreRight == WorkSpec => []ScreenIsActive
<1>1. WorkIInv => ScreenIsActive
  BY DEF WorkIInv
<1>. QED BY <1>1, WorkInitIs, WorkStep, PTL DEF WorkSpec


----------
(* Tabs are moved. *)

(* The others close up.                                                    *)
LEMMA WithoutIs ==
  ASSUME NEW s \in Seq(Tabs), IsInjective(s), NEW p \in 1 .. Len(s)
  PROVE  /\ Without(s, s[p]) \in Seq(Tabs) /\ Len(Without(s, s[p])) = Len(s) - 1
         /\ \A j \in 1 .. Len(s) - 1 : Without(s, s[p])[j] = IF j < p THEN s[j] ELSE s[j + 1]
<1>. DEFINE n == Len(s)
            S == Tabs \ {s[p]}
<1>1. n \in Nat /\ DOMAIN s = 1 .. n /\ \A i \in 1 .. n : s[i] \in Tabs
  OBVIOUS
<1>2. \A i \in 1 .. n : s[i] \in S <=> i # p
  BY <1>1 DEF IsInjective
<1>3. PICK f : OnlyRun(f, s, S, n) /\ Only(s, S) = f[n]
  BY <1>1, OnlyIsRun
<1>4. f[0] = <<>> /\ \A i \in 1 .. n : f[i] = IF s[i] \in S THEN Append(f[i - 1], s[i]) ELSE f[i - 1]
  BY <1>3 DEF OnlyRun
<1>5. p \in 1 .. n /\ p \in Nat
  BY <1>1
<1>. DEFINE At1(g, i) == /\ g \in Seq(Tabs) /\ Len(g) = IF i < p THEN i ELSE i - 1
                         /\ \A j \in 1 .. Len(g) : g[j] = IF j < p THEN s[j] ELSE s[j + 1]
            B == {i \in 0 .. n : ~At1(f[i], i)}
<1>. HIDE DEF n, S
<1>6. B = {}
  <2>1. SUFFICES ASSUME B # {} PROVE FALSE
    OBVIOUS
  <2>2. PICK i \in B : \A m \in B : i <= m
    <3>1. B \subseteq Nat
      BY <1>1
    <3>. HIDE DEF B
    <3>. QED BY <2>1, <3>1, LeastNat
  <2>3. i \in 0 .. n /\ ~At1(f[i], i)
    OBVIOUS
  <2>4. i # 0
    <3>1. f[0] = <<>> /\ <<>> \in Seq(Tabs) /\ Len(<<>>) = 0
      BY <1>4
    <3>2. At1(f[0], 0)
      BY <1>5, <3>1
    <3>. HIDE DEF At1
    <3>. QED BY <2>3, <3>2
  <2>5. i - 1 \in 0 .. n /\ i - 1 \notin B /\ i \in 1 .. n
    <3>. HIDE DEF B
    <3>. QED BY <1>1, <2>2, <2>3, <2>4
  <2>. DEFINE e == f[i - 1]
              l == Len(e)
  <2>6. At1(e, i - 1)
    BY <2>5
  <2>7. e \in Seq(Tabs) /\ l = (IF i - 1 < p THEN i - 1 ELSE i - 2)
        /\ \A j \in 1 .. l : e[j] = IF j < p THEN s[j] ELSE s[j + 1]
    BY <1>5, <2>5, <2>6
  <2>8. l \in Nat
    BY <2>7
  <2>9. f[i] = IF i # p THEN Append(e, s[i]) ELSE e
    BY <1>2, <1>4, <2>5
  <2>. HIDE DEF e, l
  <2>10. CASE i = p
    <3>1. l = i - 1 /\ f[i] = e /\ Len(f[i]) = l
      BY <1>5, <2>5, <2>7, <2>9, <2>10 DEF l
    <3>2. At1(f[i], i)
      BY <1>5, <2>5, <2>7, <2>10, <3>1
    <3>. HIDE DEF At1
    <3>. QED BY <2>3, <3>2
  <2>11. CASE i # p
    <3>1. s[i] \in Tabs /\ f[i] = Append(e, s[i])
      BY <1>1, <2>5, <2>9, <2>11
    <3>2. f[i] \in Seq(Tabs) /\ Len(f[i]) = l + 1 /\ f[i][l + 1] = s[i]
          /\ \A j \in 1 .. l : f[i][j] = e[j]
      BY <2>7, <2>8, <3>1 DEF l
    <3>3. l + 1 = (IF i < p THEN i ELSE i - 1)
      BY <1>5, <2>5, <2>7, <2>11
    <3>4. \A j \in 1 .. l + 1 : f[i][j] = IF j < p THEN s[j] ELSE s[j + 1]
      <4>. SUFFICES ASSUME NEW j \in 1 .. l + 1 PROVE f[i][j] = IF j < p THEN s[j] ELSE s[j + 1]
        OBVIOUS
      <4>1. CASE j = l + 1
        BY <1>5, <2>5, <2>11, <3>2, <3>3, <4>1
      <4>2. CASE j # l + 1
        <5>1. j \in 1 .. l
          BY <2>8, <4>2
        <5>2. f[i][j] = e[j]
          BY <3>2, <5>1
        <5>. QED BY <2>7, <5>1, <5>2
      <4>. QED BY <4>1, <4>2
    <3>5. At1(f[i], i)
      BY <3>2, <3>3, <3>4
    <3>. HIDE DEF At1
    <3>. QED BY <2>3, <3>5
  <2>. QED BY <2>10, <2>11
<1>7. At1(f[n], n)
  <2>1. n \in 0 .. n /\ n \notin B
    BY <1>1, <1>6
  <2>. HIDE DEF At1
  <2>. QED BY <2>1
<1>8. Without(s, s[p]) = f[n]
  BY <1>3 DEF Without, S
<1>9. ~(n < p)
  BY <1>1, <1>5
<1>. QED BY <1>7, <1>8, <1>9 DEF n

(* The moved tab is before those that were after place i, and the others   *)
(* keep their order.                                                       *)
Moved(r, s, t, i) ==
  /\ r \in Seq(Tabs) /\ Len(r) = Len(s) /\ ToSet(r) = ToSet(s) /\ IsInjective(r)
  /\ \A x \in ToSet(s) \ {t} : Place(r, x) < Place(r, t) <=> Place(s, x) <= i
  /\ \A x, y \in ToSet(s) \ {t} : Place(r, x) < Place(r, y) <=> Place(s, x) < Place(s, y)

LEMMA MoveToIs ==
  ASSUME NEW s \in Seq(Tabs), IsInjective(s), NEW t \in ToSet(s), NEW i \in 0 .. Len(s)
  PROVE  Moved(MoveTo(s, t, i), s, t, i)
<1>. DEFINE n == Len(s)
            p == Place(s, t)
            k == IF i > p - 1 THEN i ELSE i + 1
            rest == Without(s, t)
            r == MoveTo(s, t, i)
<1>1. n \in Nat /\ DOMAIN s = 1 .. n /\ p \in 1 .. n /\ s[p] = t /\ t \in Tabs /\ i \in 0 .. n
  <2>1. n \in Nat /\ DOMAIN s = 1 .. n /\ i \in 0 .. n /\ t \in Tabs
    BY DEF ToSet
  <2>2. p \in 1 .. n /\ s[p] = t
    BY PlaceIs
  <2>. QED BY <2>1, <2>2
<1>2. rest \in Seq(Tabs) /\ Len(rest) = n - 1 /\ \A j \in 1 .. n - 1 : rest[j] = IF j < p THEN s[j] ELSE s[j + 1]
  BY <1>1, WithoutIs
<1>3. r = (SubSeq(rest, 1, k - 1) \o <<t>>) \o SubSeq(rest, k, n - 1)
  BY <1>2 DEF MoveTo, InsertAt
<1>. HIDE DEF n, p, rest, r
<1>4. k \in 1 .. n
  BY <1>1
<1>5. k = IF i >= p THEN i ELSE i + 1
  BY <1>1
<1>. HIDE DEF k
<1>6. /\ r \in Seq(Tabs) /\ Len(r) = n
      /\ \A j \in 1 .. n : r[j] = IF j = k THEN t ELSE IF j < k THEN rest[j] ELSE rest[j - 1]
  <2>. DEFINE a == SubSeq(rest, 1, k - 1)
              b == SubSeq(rest, k, n - 1)
  <2>1. a \in Seq(Tabs) /\ Len(a) = k - 1 /\ \A j \in 1 .. k - 1 : a[j] = rest[j]
    BY <1>1, <1>2, <1>4
  <2>2. b \in Seq(Tabs) /\ Len(b) = n - k /\ \A j \in 1 .. n - k : b[j] = rest[k + j - 1]
    <3>1. \A j \in k .. n - 1 : rest[j] \in Tabs
      BY <1>1, <1>2, <1>4
    <3>2. b \in Seq(Tabs) /\ Len(b) = IF k <= n - 1 THEN (n - 1) - k + 1 ELSE 0
      BY <1>1, <1>4, <3>1, SubSeqProperties
    <3>3. \A j \in 1 .. (n - 1) - k + 1 : b[j] = rest[k + j - 1]
      BY <1>1, <1>4, <3>1, SubSeqProperties
    <3>. HIDE DEF b
    <3>. QED BY <1>1, <1>4, <3>2, <3>3
  <2>. HIDE DEF a, b
  <2>3. r = (a \o <<t>>) \o b
    BY <1>3 DEF a, b
  <2>. DEFINE d == a \o <<t>>
  <2>4. d \in Seq(Tabs) /\ Len(d) = k /\ d[k] = t /\ \A j \in 1 .. k - 1 : d[j] = rest[j]
    <3>1. <<t>> \in Seq(Tabs) /\ Len(<<t>>) = 1 /\ <<t>>[1] = t
      BY <1>1
    <3>. QED BY <1>1, <1>4, <2>1, <3>1
  <2>. HIDE DEF d
  <2>5. r = d \o b
    BY <2>3 DEF d
  <2>6. r \in Seq(Tabs) /\ Len(r) = n
    <3>1. r \in Seq(Tabs) /\ Len(r) = Len(d) + Len(b)
      BY <2>2, <2>4, <2>5, ConcatProperties
    <3>. QED BY <1>1, <1>4, <2>2, <2>4, <3>1
  <2>7. \A j \in 1 .. k : r[j] = d[j]
    BY <1>1, <1>4, <2>2, <2>4, <2>5
  <2>8. \A j \in k + 1 .. n : r[j] = b[j - k] /\ b[j - k] = rest[j - 1]
    <3>. SUFFICES ASSUME NEW j \in k + 1 .. n PROVE r[j] = b[j - k] /\ b[j - k] = rest[j - 1]
      OBVIOUS
    <3>1. j - k \in 1 .. n - k /\ k + (j - k) - 1 = j - 1 /\ j \in Nat /\ ~(j <= k)
      BY <1>1, <1>4
    <3>2. b[j - k] = rest[j - 1]
      BY <2>2, <3>1
    <3>3. r[j] = b[j - k]
      BY <1>1, <1>4, <2>2, <2>4, <2>5, <3>1
    <3>. QED BY <3>2, <3>3
  <2>. QED BY <1>1, <1>4, <2>4, <2>6, <2>7, <2>8
<1>. DEFINE mid(j) == IF j < k THEN j ELSE j - 1
            src(j) == IF j = k THEN p ELSE IF mid(j) < p THEN mid(j) ELSE mid(j) + 1
            low(m) == IF m < p THEN m ELSE m - 1
            pos(m) == IF m = p THEN k ELSE IF low(m) < k THEN low(m) ELSE low(m) + 1
<1>7. \A j \in 1 .. n : src(j) \in 1 .. n /\ pos(src(j)) = j
  BY <1>1, <1>4
<1>8. \A j \in 1 .. n : r[j] = s[src(j)]
  <2>. SUFFICES ASSUME NEW j \in 1 .. n PROVE r[j] = s[src(j)]
    OBVIOUS
  <2>1. CASE j = k
    BY <1>1, <1>6, <2>1
  <2>2. CASE j # k
    <3>1. mid(j) \in 1 .. n - 1 /\ r[j] = rest[mid(j)]
      BY <1>1, <1>4, <1>6, <2>2
    <3>2. rest[mid(j)] = s[src(j)]
      BY <1>2, <2>2, <3>1
    <3>. QED BY <3>1, <3>2
  <2>. QED BY <2>1, <2>2
<1>9. \A m \in 1 .. n : pos(m) \in 1 .. n /\ src(pos(m)) = m
  BY <1>1, <1>4
<1>10. pos(p) = k /\ \A m \in 1 .. n : m # p => (pos(m) < k <=> m <= i)
  BY <1>1, <1>4, <1>5
<1>11. \A m, o \in 1 .. n : m # p /\ o # p => (pos(m) < pos(o) <=> m < o)
  BY <1>1, <1>4
<1>. HIDE DEF mid, src, low, pos
<1>12. IsInjective(r)
  <2>. SUFFICES ASSUME NEW j \in 1 .. n, NEW l \in 1 .. n, r[j] = r[l] PROVE j = l
    BY <1>1, <1>6 DEF IsInjective
  <2>1. src(j) = src(l)
    BY <1>1, <1>7, <1>8 DEF IsInjective
  <2>. QED BY <1>7, <2>1
<1>13. DOMAIN r = 1 .. n
  BY <1>1, <1>6
<1>14. \A m \in 1 .. n : r[pos(m)] = s[m]
  BY <1>8, <1>9
<1>15. ToSet(r) = ToSet(s)
  <2>1. ToSet(r) \subseteq ToSet(s)
    BY <1>1, <1>7, <1>8, <1>13 DEF ToSet
  <2>2. ToSet(s) \subseteq ToSet(r)
    BY <1>1, <1>9, <1>13, <1>14 DEF ToSet
  <2>. QED BY <2>1, <2>2
<1>16. \A m \in 1 .. n : Place(r, s[m]) = pos(m)
  <2>1. \A j \in 1 .. n : Place(r, r[j]) = j
    BY <1>6, <1>12, PlaceIs
  <2>. QED BY <1>9, <1>14, <2>1
<1>17. \A x \in ToSet(s) : /\ Place(s, x) \in 1 .. n /\ s[Place(s, x)] = x
                           /\ Place(r, x) = pos(Place(s, x)) /\ (x # t => Place(s, x) # p)
  <2>1. \A x \in ToSet(s) : Place(s, x) \in 1 .. n /\ s[Place(s, x)] = x
    BY PlaceIs DEF n
  <2>. QED BY <1>1, <1>16, <2>1
<1>18. Place(r, t) = k
  BY <1>1, <1>10, <1>16
<1>19. \A x \in ToSet(s) \ {t} : Place(r, x) < Place(r, t) <=> Place(s, x) <= i
  BY <1>10, <1>17, <1>18
<1>20. \A x, y \in ToSet(s) \ {t} : Place(r, x) < Place(r, y) <=> Place(s, x) < Place(s, y)
  BY <1>11, <1>17
<1>21. Len(r) = Len(s)
  BY <1>6 DEF n
<1>. QED BY <1>6, <1>12, <1>15, <1>19, <1>20, <1>21 DEF Moved, r


LEMMA HeadsAre ==
  ASSUME NEW v, Shape(v), NEW c \in Conns
  PROVE  /\ v.tabs[c] \in Seq(Tabs) /\ Increasing(v.tabs[c]) /\ IsInjective(v.tabs[c])
         /\ Heads(v, c) \in Seq(Tabs) /\ Increasing(Heads(v, c)) /\ IsInjective(Heads(v, c))
         /\ ToSet(Heads(v, c)) = {t \in ToSet(v.tabs[c]) : v.info[t].parent = None}
         /\ \A t \in ToSet(v.tabs[c]) : t \in Tabs /\
              (v.info[t].parent # None => /\ v.info[t].parent \in ToSet(Heads(v, c)) /\ v.info[t].parent < t
                                          /\ v.info[t].type = "table"
                                          /\ v.info[v.info[t].parent].type = "query")
<1>. DEFINE s == v.tabs[c]
            S == {t \in Tabs : v.info[t].parent = None}
            h == Only(s, S)
<1>1. s \in Seq(Tabs) /\ Increasing(s) /\ \A t \in ToSet(s) : t \in Tabs
  BY FieldsAre, OpenIs DEF Shape, OrderInv
<1>2. IsInjective(s)
  BY <1>1, IncreasingIs
<1>3. Heads(v, c) = h
  BY DEF Heads
<1>4. \A t \in ToSet(s) : t \in S <=> v.info[t].parent = None
  BY <1>1
<1>5. \A t \in ToSet(s) : v.info[t].parent # None => Scoped(v, c, t) /\ v.info[t].parent < t
  BY <1>1 DEF Shape, InfoInv
<1>. HIDE DEF s, S
<1>6. h \in Seq(Tabs) /\ ToSet(h) = ToSet(s) \cap S /\ Increasing(h) /\ IsInjective(h)
  BY <1>1, <1>2, WorkBounds, OnlyIs
<1>. HIDE DEF h
<1>7. ToSet(h) = {t \in ToSet(s) : v.info[t].parent = None}
  BY <1>4, <1>6
<1>8. ASSUME NEW t \in ToSet(s), v.info[t].parent # None
      PROVE  /\ v.info[t].parent \in ToSet(h) /\ v.info[t].type = "table"
             /\ v.info[v.info[t].parent].type = "query"
  <2>. DEFINE p == v.info[t].parent
  <2>1. p \in ToSet(s) /\ v.info[p].type = "query" /\ v.info[t].type = "table"
    BY <1>5, <1>8 DEF Scoped, s
  <2>2. v.info[p].parent = None
    BY <1>5, <2>1 DEF Scoped
  <2>. QED BY <1>7, <2>1, <2>2
<1>. QED BY <1>1, <1>2, <1>3, <1>5, <1>6, <1>7, <1>8 DEF s

(* So many groups stand before place i that the heads among them are the   *)
(* first ones.                                                             *)
LEMMA GroupsBeforeIs ==
  ASSUME NEW v, Shape(v), NEW c \in Conns, NEW i \in 0 .. Len(v.tabs[c]),
         NEW k, k = Cardinality(GroupsBefore(v, c, i))
  PROVE  /\ k \in 0 .. Len(Heads(v, c))
         /\ \A x \in ToSet(Heads(v, c)) : Place(Heads(v, c), x) <= k <=> Place(v.tabs[c], x) <= i
<1>. DEFINE s == v.tabs[c]
            h == Heads(v, c)
            m == Len(h)
            G == {x \in ToSet(h) : Place(s, x) <= i}
            D == {j \in 1 .. m : h[j] \in G}
<1>1. /\ s \in Seq(Tabs) /\ Increasing(s) /\ IsInjective(s)
      /\ h \in Seq(Tabs) /\ Increasing(h) /\ IsInjective(h)
      /\ ToSet(h) = {t \in ToSet(s) : v.info[t].parent = None}
      /\ \A t \in ToSet(s) : t \in Tabs /\
           (v.info[t].parent # None => v.info[t].parent \in ToSet(h) /\ v.info[t].parent < t)
  BY HeadsAre
<1>2. m \in Nat /\ DOMAIN h = 1 .. m /\ Len(s) \in Nat /\ DOMAIN s = 1 .. Len(s) /\ i \in 0 .. Len(s)
  BY <1>1
<1>3. GroupsBefore(v, c, i) = {IF v.info[s[j]].parent = None THEN s[j] ELSE v.info[s[j]].parent : j \in 1 .. i}
  BY DEF GroupsBefore
<1>. HIDE DEF s, h, m
<1>4. \A x, y \in ToSet(s) : Place(s, x) < Place(s, y) <=> x < y
  BY <1>1, IncreasingIs
<1>5. /\ \A j \in 1 .. Len(s) : s[j] \in ToSet(s) /\ Place(s, s[j]) = j
      /\ \A x \in ToSet(s) : Place(s, x) \in 1 .. Len(s) /\ s[Place(s, x)] = x
  BY <1>1, <1>2, PlaceIs DEF ToSet
<1>6. GroupsBefore(v, c, i) = G
  <2>1. ASSUME NEW j \in 1 .. i
        PROVE  (IF v.info[s[j]].parent = None THEN s[j] ELSE v.info[s[j]].parent) \in G
    <3>1. j \in 1 .. Len(s) /\ s[j] \in ToSet(s) /\ Place(s, s[j]) = j
      BY <1>2, <1>5
    <3>2. CASE v.info[s[j]].parent = None
      BY <1>1, <3>1, <3>2
    <3>3. CASE v.info[s[j]].parent # None
      <4>. DEFINE p == v.info[s[j]].parent
      <4>1. p \in ToSet(h) /\ p \in ToSet(s) /\ p < s[j]
        BY <1>1, <3>1, <3>3
      <4>2. Place(s, p) < j /\ Place(s, p) \in 1 .. Len(s)
        BY <1>4, <1>5, <3>1, <4>1
      <4>3. Place(s, p) <= i
        BY <1>2, <3>1, <4>2
      <4>. QED BY <3>3, <4>1, <4>3
    <3>. QED BY <3>2, <3>3
  <2>2. ASSUME NEW x \in G
        PROVE  \E j \in 1 .. i : x = IF v.info[s[j]].parent = None THEN s[j] ELSE v.info[s[j]].parent
    <3>1. x \in ToSet(s) /\ v.info[x].parent = None /\ Place(s, x) <= i
      BY <1>1
    <3>2. Place(s, x) \in 1 .. i /\ s[Place(s, x)] = x
      BY <1>2, <1>5, <3>1
    <3>. QED BY <3>1, <3>2
  <2>. HIDE DEF G
  <2>. QED BY <1>3, <2>1, <2>2
<1>7. \A j \in 1 .. m : h[j] \in ToSet(h) /\ h[j] \in ToSet(s)
  <2>1. \A j \in 1 .. m : h[j] \in ToSet(h)
    BY <1>2 DEF ToSet
  <2>2. ToSet(h) \subseteq ToSet(s)
    BY <1>1
  <2>. QED BY <2>1, <2>2
<1>8. \A a, b \in 1 .. m : a < b /\ b \in D => a \in D
  <2>. SUFFICES ASSUME NEW a \in 1 .. m, NEW b \in 1 .. m, a < b, h[b] \in G PROVE h[a] \in G
    OBVIOUS
  <2>1. h[a] < h[b]
    BY <1>1, <1>2 DEF Increasing
  <2>2. Place(s, h[a]) < Place(s, h[b]) /\ Place(s, h[a]) \in Nat /\ Place(s, h[b]) \in Nat
    BY <1>2, <1>4, <1>5, <1>7, <2>1
  <2>3. Place(s, h[b]) <= i
    OBVIOUS
  <2>. QED BY <1>2, <1>7, <2>2, <2>3
<1>9. PICK d \in 0 .. m : \A j \in 1 .. m : j \in D <=> j <= d
  <2>1. CASE D = {}
    <3>. HIDE DEF D
    <3>1. \A j \in 1 .. m : j \in D <=> j <= 0
      BY <1>2, <2>1
    <3>. QED BY <1>2, <3>1
  <2>2. CASE D # {}
    <3>1. Max(D) \in D /\ \A y \in D : Max(D) >= y
      <4>1. D \subseteq 1 .. m
        OBVIOUS
      <4>. HIDE DEF D
      <4>. QED BY <1>2, <2>2, <4>1, MaxOf
    <3>2. D \subseteq 1 .. m
      OBVIOUS
    <3>. HIDE DEF D
    <3>3. Max(D) \in 1 .. m
      BY <3>1, <3>2
    <3>4. \A j \in 1 .. m : j \in D <=> j <= Max(D)
      BY <1>2, <1>8, <3>1, <3>3
    <3>5. Max(D) \in 0 .. m
      BY <1>2, <3>3
    <3>. QED BY <3>4, <3>5
  <2>. QED BY <2>1, <2>2
<1>10. k = d
  <2>. DEFINE g == [j \in 1 .. d |-> h[j]]
  <2>1. g \in Seq(Tabs) /\ Len(g) = d /\ DOMAIN g = 1 .. d /\ \A j \in 1 .. d : g[j] = h[j]
    BY <1>1, <1>2, <1>7
  <2>. HIDE DEF g
  <2>2. IsInjective(g)
    BY <1>1, <1>2, <2>1 DEF IsInjective
  <2>3. ToSet(g) = G
    <3>1. \A j \in 1 .. d : g[j] \in G
      BY <1>2, <1>9, <2>1
    <3>2. ASSUME NEW x \in G PROVE \E j \in 1 .. d : g[j] = x
      <4>1. PICK j \in 1 .. m : h[j] = x
        BY <1>2 DEF ToSet
      <4>2. j \in D
        BY <4>1
      <4>3. j \in 1 .. d
        BY <1>2, <1>9, <4>2
      <4>. QED BY <2>1, <4>1, <4>3
    <3>. HIDE DEF G
    <3>. QED BY <2>1, <3>1, <3>2 DEF ToSet
  <2>. HIDE DEF G
  <2>4. Cardinality(G) = d
    BY <2>1, <2>2, <2>3, CardIs
  <2>. QED BY <1>6, <2>4
<1>11. ASSUME NEW x \in ToSet(h) PROVE Place(h, x) <= d <=> Place(s, x) <= i
  <2>1. Place(h, x) \in 1 .. m /\ h[Place(h, x)] = x
    BY <1>1, PlaceIs DEF m
  <2>2. Place(h, x) \in D <=> Place(h, x) <= d
    BY <1>9, <2>1
  <2>3. Place(h, x) \in D <=> x \in G
    BY <2>1
  <2>. QED BY <2>2, <2>3
<1>. QED BY <1>9, <1>10, <1>11 DEF s, h, m

(* The groups one after the other. *)
FlatRun(f, q, n) ==
  /\ f = [i \in 1 .. n |-> f[i]] /\ f[1] = q[1]
  /\ \A i \in 2 .. n : f[i] = f[i - 1] \o q[i]

LEMMA FlatRunExists ==
  ASSUME NEW q, NEW l \in Nat \ {0}
  PROVE  \E f : FlatRun(f, q, l)
<1>. DEFINE T == {n \in 1 .. l : ~ \E f : FlatRun(f, q, n)}
<1>1. SUFFICES ASSUME T # {} PROVE FALSE
  OBVIOUS
<1>2. PICK n \in T : \A m \in T : n <= m
  <2>1. T \subseteq Nat
    OBVIOUS
  <2>. HIDE DEF T
  <2>. QED BY <1>1, <2>1, LeastNat
<1>3. n # 1
  <2>. DEFINE g == [i \in 1 .. 1 |-> q[1]]
  <2>1. g = [i \in 1 .. 1 |-> g[i]] /\ g[1] = q[1]
    OBVIOUS
  <2>. HIDE DEF g
  <2>2. FlatRun(g, q, 1)
    BY <2>1 DEF FlatRun
  <2>. QED BY <2>2
<1>4. n - 1 \in 1 .. l /\ n - 1 \notin T /\ n \in 2 .. l
  BY <1>2, <1>3
<1>5. PICK f : FlatRun(f, q, n - 1)
  BY <1>4
<1>6. f[1] = q[1] /\ \A i \in 2 .. (n - 1) : f[i] = f[i - 1] \o q[i]
  BY <1>5 DEF FlatRun
<1>. DEFINE last == f[n - 1] \o q[n]
            g    == [i \in 1 .. n |-> IF i = n THEN last ELSE f[i]]
<1>. HIDE DEF last
<1>7. g = [i \in 1 .. n |-> g[i]] /\ g[n] = last /\ \A i \in 1 .. (n - 1) : g[i] = f[i]
  BY <1>4
<1>. HIDE DEF g, T
<1>8. g[1] = q[1]
  <2>1. 1 \in 1 .. (n - 1)
    BY <1>4
  <2>. QED BY <1>6, <1>7, <2>1
<1>9. ASSUME NEW i \in 2 .. n PROVE g[i] = g[i - 1] \o q[i]
  <2>. DEFINE k == i - 1
  <2>4. k \in 1 .. (n - 1) /\ (i # n => i \in 2 .. (n - 1) /\ i \in 1 .. (n - 1))
    BY <1>4
  <2>. HIDE DEF k
  <2>5. g[k] = f[k]
    BY <1>7, <2>4
  <2>1. g[i - 1] = f[i - 1]
    BY <2>5 DEF k
  <2>2. CASE i = n
    BY <1>7, <2>1, <2>2 DEF last
  <2>3. CASE i # n
    <3>1. g[i] = f[i] /\ f[i] = f[i - 1] \o q[i]
      BY <1>6, <1>7, <2>3, <2>4
    <3>. QED BY <2>1, <3>1
  <2>. QED BY <2>2, <2>3
<1>10. FlatRun(g, q, n)
  BY <1>7, <1>8, <1>9 DEF FlatRun
<1>. QED BY <1>2, <1>10 DEF T

LEMMA FlattenIsRun ==
  ASSUME NEW q, Len(q) \in Nat \ {0}
  PROVE  \E f : FlatRun(f, q, Len(q)) /\ FlattenSeq(q) = f[Len(q)]
<1>. DEFINE n == Len(q)
            Body(f) == [i \in 1 .. n |-> IF i = 1 THEN q[i] ELSE f[i - 1] \o q[i]]
            c == CHOOSE f : f = Body(f)
<1>1. FlattenSeq(q) = c[n] /\ n \in Nat \ {0}
  BY DEF FlattenSeq
<1>. HIDE DEF n
<1>2. PICK f : FlatRun(f, q, n)
  BY <1>1, FlatRunExists
<1>3. f = Body(f)
  <2>1. f = [i \in 1 .. n |-> f[i]]
    BY <1>2 DEF FlatRun
  <2>2. ASSUME NEW i \in 1 .. n PROVE f[i] = IF i = 1 THEN q[i] ELSE f[i - 1] \o q[i]
    <3>1. CASE i = 1
      BY <1>2, <3>1 DEF FlatRun
    <3>2. CASE i # 1
      <4>1. i \in 2 .. n
        BY <3>2
      <4>. QED BY <1>2, <3>2, <4>1 DEF FlatRun
    <3>. QED BY <3>1, <3>2
  <2>. QED BY <2>1, <2>2
<1>4. c = Body(c)
  BY <1>3
<1>. HIDE DEF c
<1>5. \A i \in 1 .. n : c[i] = f[i]
  <2>. DEFINE T == {i \in 1 .. n : c[i] # f[i]}
  <2>1. SUFFICES ASSUME T # {} PROVE FALSE
    OBVIOUS
  <2>2. PICK k \in T : \A m \in T : k <= m
    <3>1. T \subseteq Nat
      BY <1>1
    <3>. HIDE DEF T
    <3>. QED BY <2>1, <3>1, LeastNat
  <2>3. c[k] = Body(c)[k] /\ f[k] = Body(f)[k]
    BY <1>3, <1>4
  <2>4. k # 1
    BY <2>2, <2>3
  <2>5. k - 1 \in 1 .. n /\ k - 1 \notin T
    BY <1>1, <2>2, <2>4
  <2>6. c[k - 1] = f[k - 1]
    BY <2>5
  <2>7. c[k] = c[k - 1] \o q[k] /\ f[k] = f[k - 1] \o q[k]
    BY <2>2, <2>3, <2>4
  <2>. QED BY <2>2, <2>6, <2>7
<1>6. FlattenSeq(q) = f[n]
  <2>. HIDE DEF c
  <2>. QED BY <1>1, <1>5
<1>. QED BY <1>2, <1>6 DEF n


(* What is in the first of two groups comes first.                         *)
LEMMA FlattenIs ==
  ASSUME NEW n \in Nat \ {0}, NEW q, Len(q) = n, \A j \in 1 .. n : q[j] \in Seq(Tabs) /\ IsInjective(q[j]),
         \A a, b \in 1 .. n : a # b => ToSet(q[a]) \cap ToSet(q[b]) = {},
         NEW r, r = FlattenSeq(q)
  PROVE  /\ r \in Seq(Tabs) /\ IsInjective(r) /\ ToSet(r) = UNION {ToSet(q[j]) : j \in 1 .. n}
         /\ \A a, b \in 1 .. n : a < b => \A x \in ToSet(q[a]), y \in ToSet(q[b]) : Place(r, x) < Place(r, y)
<1>1. PICK f : FlatRun(f, q, n) /\ r = f[n]
  BY FlattenIsRun
<1>2. f[1] = q[1] /\ \A i \in 2 .. n : f[i] = f[i - 1] \o q[i]
  BY <1>1 DEF FlatRun
<1>. DEFINE Upto(i) == UNION {ToSet(q[j]) : j \in 1 .. i}
            Ordered(g, i) == \A a, b \in 1 .. i : a < b =>
                               \A x \in ToSet(q[a]), y \in ToSet(q[b]) : Place(g, x) < Place(g, y)
            Good(i) == f[i] \in Seq(Tabs) /\ IsInjective(f[i]) /\ ToSet(f[i]) = Upto(i) /\ Ordered(f[i], i)
            B == {i \in 1 .. n : ~Good(i)}
<1>3. B = {}
  <2>1. SUFFICES ASSUME B # {} PROVE FALSE
    OBVIOUS
  <2>2. PICK i \in B : \A m \in B : i <= m
    <3>1. B \subseteq Nat
      OBVIOUS
    <3>. HIDE DEF B
    <3>. QED BY <2>1, <3>1, LeastNat
  <2>3. i \in 1 .. n /\ ~Good(i)
    OBVIOUS
  <2>4. i # 1
    <3>1. f[1] = q[1] /\ q[1] \in Seq(Tabs) /\ IsInjective(q[1])
      BY <1>2
    <3>2. Upto(1) = ToSet(q[1])
      OBVIOUS
    <3>3. Ordered(f[1], 1)
      OBVIOUS
    <3>4. Good(1)
      <4>. HIDE DEF Upto, Ordered
      <4>. QED BY <3>1, <3>2, <3>3
    <3>. HIDE DEF Good
    <3>. QED BY <2>3, <3>4
  <2>. DEFINE k == i - 1
  <2>5. k \in 1 .. n /\ k \in Nat /\ k < i /\ i = k + 1 /\ i \in 2 .. n
    BY <2>3, <2>4
  <2>6. Good(k)
    <3>1. k \notin B
      <4>. HIDE DEF B
      <4>. QED BY <2>2, <2>3, <2>5
    <3>. HIDE DEF Good
    <3>. QED BY <2>5, <3>1
  <2>7. f[i] = f[k] \o q[i]
    BY <1>2, <2>5
  <2>. HIDE DEF k
  <2>8. Upto(k) \cap ToSet(q[i]) = {}
    <3>. SUFFICES ASSUME NEW j \in 1 .. k, NEW x \in ToSet(q[j]), x \in ToSet(q[i]) PROVE FALSE
      OBVIOUS
    <3>1. j \in 1 .. n /\ i \in 1 .. n /\ j # i
      BY <2>5
    <3>. QED BY <3>1
  <2>9. Upto(i) = Upto(k) \cup ToSet(q[i])
    <3>1. \A j \in 1 .. i : j \in 1 .. k \/ j = i
      BY <2>5
    <3>2. \A j \in 1 .. k : j \in 1 .. i
      BY <2>5
    <3>3. i \in 1 .. i
      BY <2>5
    <3>4. Upto(i) \subseteq Upto(k) \cup ToSet(q[i])
      BY <3>1
    <3>5. Upto(k) \cup ToSet(q[i]) \subseteq Upto(i)
      BY <3>2, <3>3
    <3>. QED BY <3>4, <3>5
  <2>10. /\ f[k] \in Seq(Tabs) /\ IsInjective(f[k]) /\ ToSet(f[k]) = Upto(k) /\ Ordered(f[k], k)
         /\ q[i] \in Seq(Tabs) /\ IsInjective(q[i])
    <3>. HIDE DEF Upto, Ordered
    <3>. QED BY <2>3, <2>6
  <2>11. /\ f[i] \in Seq(Tabs) /\ IsInjective(f[i]) /\ ToSet(f[i]) = Upto(i)
         /\ \A x \in Upto(k) : Place(f[i], x) = Place(f[k], x)
         /\ \A x \in Upto(k), y \in ToSet(q[i]) : Place(f[i], x) < Place(f[i], y)
    <3>. HIDE DEF Upto, Ordered
    <3>1. ToSet(f[k]) \cap ToSet(q[i]) = {}
      BY <2>8, <2>10
    <3>2. /\ f[i] \in Seq(Tabs) /\ IsInjective(f[i]) /\ ToSet(f[i]) = ToSet(f[k]) \cup ToSet(q[i])
          /\ \A x \in ToSet(f[k]) : Place(f[i], x) = Place(f[k], x)
          /\ \A x \in ToSet(f[k]), y \in ToSet(q[i]) : Place(f[i], x) < Place(f[i], y)
      BY <2>7, <2>10, <3>1, ConcatIs
    <3>. QED BY <2>9, <2>10, <3>2
  <2>12. Ordered(f[i], i)
    <3>. SUFFICES ASSUME NEW a \in 1 .. i, NEW b \in 1 .. i, a < b, NEW x \in ToSet(q[a]), NEW y \in ToSet(q[b])
                  PROVE  Place(f[i], x) < Place(f[i], y)
      OBVIOUS
    <3>1. a \in 1 .. k
      BY <2>5
    <3>2. x \in Upto(k)
      BY <3>1
    <3>3. CASE b = i
      <4>. HIDE DEF Upto
      <4>. QED BY <2>11, <3>2, <3>3
    <3>4. CASE b # i
      <4>1. b \in 1 .. k
        BY <2>5, <3>4
      <4>2. y \in Upto(k)
        BY <4>1
      <4>3. Place(f[k], x) < Place(f[k], y)
        BY <2>10, <3>1, <4>1
      <4>. HIDE DEF Upto
      <4>. QED BY <2>11, <3>2, <4>2, <4>3
    <3>. QED BY <3>3, <3>4
  <2>13. Good(i)
    <3>. HIDE DEF Upto, Ordered
    <3>. QED BY <2>11, <2>12
  <2>. HIDE DEF Good
  <2>. QED BY <2>3, <2>13
<1>4. Good(n)
  <2>1. n \in 1 .. n
    OBVIOUS
  <2>. HIDE DEF Good
  <2>. QED BY <1>3, <2>1
<1>. QED BY <1>1, <1>4


LEMMA SameLength ==
  ASSUME NEW T, NEW r \in Seq(T), NEW s \in Seq(T), IsInjective(r), IsInjective(s), ToSet(r) = ToSet(s)
  PROVE  Len(r) = Len(s)
BY CardIs

(* A query tab and, with the setting, the tables under it.                 *)
GroupOf(v, c, q) == <<q>> \o IF Type(v, q) = "query" THEN Children(v, c, q) ELSE <<>>

LEMMA HeadedIs ==
  ASSUME NEW q \in Tabs, NEW z \in Seq(Tabs), IsInjective(z), q \notin ToSet(z)
  PROVE  <<q>> \o z \in Seq(Tabs) /\ IsInjective(<<q>> \o z) /\ ToSet(<<q>> \o z) = {q} \cup ToSet(z)
<1>. SUFFICES ASSUME NEW g, g = <<q>> \o z
              PROVE  g \in Seq(Tabs) /\ IsInjective(g) /\ ToSet(g) = {q} \cup ToSet(z)
  OBVIOUS
<1>. DEFINE n == Len(z)
<1>1. n \in Nat /\ DOMAIN z = 1 .. n /\ g \in Seq(Tabs) /\ Len(g) = 1 + n /\ DOMAIN g = 1 .. 1 + n
      /\ \A j \in 1 .. 1 + n : g[j] = IF j = 1 THEN q ELSE z[j - 1]
  OBVIOUS
<1>2. \A j \in 1 .. n : z[j] \in ToSet(z)
  BY <1>1 DEF ToSet
<1>. HIDE DEF n
<1>3. \A j \in 1 .. 1 + n : j # 1 => j - 1 \in 1 .. n /\ g[j] = z[j - 1]
  BY <1>1
<1>4. g[1] = q /\ 1 \in 1 .. 1 + n
  BY <1>1
<1>5. IsInjective(g)
  <2>. SUFFICES ASSUME NEW j \in 1 .. 1 + n, NEW k \in 1 .. 1 + n, g[j] = g[k] PROVE j = k
    BY <1>1 DEF IsInjective
  <2>1. CASE j = 1 \/ k = 1
    BY <1>2, <1>3, <1>4, <2>1
  <2>2. CASE j # 1 /\ k # 1
    <3>1. j - 1 \in 1 .. n /\ k - 1 \in 1 .. n /\ z[j - 1] = z[k - 1]
      BY <1>3, <2>2
    <3>2. j - 1 = k - 1
      BY <1>1, <3>1 DEF IsInjective
    <3>. QED BY <1>1, <3>2
  <2>. QED BY <2>1, <2>2
<1>6. ToSet(g) = {q} \cup ToSet(z)
  <2>1. \A j \in 1 .. 1 + n : g[j] \in {q} \cup ToSet(z)
    BY <1>2, <1>3, <1>4
  <2>2. \A j \in 1 .. n : \E k \in 1 .. 1 + n : g[k] = z[j]
    <3>. TAKE j \in 1 .. n
    <3>1. j + 1 \in 1 .. 1 + n /\ j + 1 # 1 /\ (j + 1) - 1 = j
      BY <1>1
    <3>2. g[j + 1] = z[(j + 1) - 1]
      BY <1>3, <3>1
    <3>. QED BY <3>1, <3>2
  <2>3. ToSet(g) = {g[j] : j \in 1 .. 1 + n} /\ ToSet(z) = {z[j] : j \in 1 .. n}
    BY <1>1 DEF ToSet
  <2>4. \A x \in ToSet(z) : x \in ToSet(g)
    BY <2>2, <2>3
  <2>5. q \in ToSet(g)
    BY <1>4, <2>3
  <2>6. \A x \in ToSet(g) : x \in {q} \cup ToSet(z)
    BY <2>1, <2>3
  <2>. QED BY <2>4, <2>5, <2>6
<1>. QED BY <1>1, <1>5, <1>6

LEMMA GroupIs ==
  ASSUME NEW v, Shape(v), NEW c \in Conns, NEW q \in ToSet(Heads(v, c))
  PROVE  /\ GroupOf(v, c, q) \in Seq(Tabs) /\ IsInjective(GroupOf(v, c, q))
         /\ ToSet(GroupOf(v, c, q)) = {q} \cup {t \in ToSet(v.tabs[c]) : v.info[t].parent = q}
<1>. DEFINE s == v.tabs[c]
            S == {t \in Tabs : v.info[t].parent = q}
            z == IF Type(v, q) = "query" THEN Only(s, S) ELSE <<>>
            kids == {t \in ToSet(s) : v.info[t].parent = q}
<1>1. /\ s \in Seq(Tabs) /\ IsInjective(s) /\ q \in ToSet(s) /\ v.info[q].parent = None
      /\ \A t \in ToSet(s) : t \in Tabs
      /\ \A t \in ToSet(s) : v.info[t].parent # None => v.info[v.info[t].parent].type = "query"
  BY HeadsAre
<1>2. q \in Tabs /\ Type(v, q) = v.info[q].type /\ q # None
  BY <1>1, WorkBounds DEF Type
<1>3. GroupOf(v, c, q) = <<q>> \o z
  BY DEF GroupOf, Children
<1>4. /\ z \in Seq(Tabs) /\ IsInjective(z) /\ ToSet(z) = kids
  <2>1. Only(s, S) \in Seq(Tabs) /\ IsInjective(Only(s, S)) /\ ToSet(Only(s, S)) = ToSet(s) \cap S
    <3>. HIDE DEF s, S
    <3>. QED BY <1>1, OnlyIs
  <2>2. ToSet(s) \cap S = kids
    BY <1>1
  <2>3. Type(v, q) # "query" => kids = {}
    BY <1>1, <1>2
  <2>4. <<>> \in Seq(Tabs) /\ IsInjective(<<>>) /\ ToSet(<<>>) = {}
    BY DEF IsInjective, ToSet
  <2>. HIDE DEF s, S, kids
  <2>. QED BY <2>1, <2>2, <2>3, <2>4
<1>5. q \notin kids
  BY <1>1, <1>2
<1>. HIDE DEF z, s, kids
<1>6. <<q>> \in Seq(Tabs) /\ IsInjective(<<q>>) /\ ToSet(<<q>>) = {q}
  BY <1>2 DEF IsInjective, ToSet
<1>7. /\ <<q>> \o z \in Seq(Tabs) /\ IsInjective(<<q>> \o z) /\ ToSet(<<q>> \o z) = {q} \cup kids
  <2>1. z \in Seq(Tabs) /\ IsInjective(z) /\ q \notin ToSet(z)
    BY <1>4, <1>5
  <2>2. \A k \in Seq(Tabs) : IsInjective(k) /\ q \notin ToSet(k)
            => <<q>> \o k \in Seq(Tabs) /\ IsInjective(<<q>> \o k) /\ ToSet(<<q>> \o k) = {q} \cup ToSet(k)
    BY <1>2, HeadedIs
  <2>. QED BY <1>4, <2>1, <2>2
<1>. QED BY <1>3, <1>7 DEF s, kids

LEMMA ReorderedIs ==
  ASSUME NEW v, Shape(v), NEW c \in Conns, NEW t \in ToSet(Heads(v, c)), NEW i \in 0 .. Len(v.tabs[c]),
         NEW r, r = Reordered(v, c, t, i)
  PROVE  /\ Len(r) = Len(v.tabs[c]) /\ ToSet(r) = ToSet(v.tabs[c])
         /\ \A x \in ToSet(Heads(v, c)) \ {t} : Place(r, x) < Place(r, t) <=> Place(v.tabs[c], x) <= i
         /\ \A x, y \in ToSet(Heads(v, c)) \ {t} :
              Place(r, x) < Place(r, y) <=> Place(v.tabs[c], x) < Place(v.tabs[c], y)
<1>. DEFINE s == v.tabs[c]
            h == Heads(v, c)
<1>1. /\ s \in Seq(Tabs) /\ Increasing(s) /\ IsInjective(s)
      /\ h \in Seq(Tabs) /\ Increasing(h) /\ IsInjective(h)
      /\ ToSet(h) = {x \in ToSet(s) : v.info[x].parent = None}
      /\ \A x \in ToSet(s) : x \in Tabs /\ (v.info[x].parent # None => v.info[x].parent \in ToSet(h))
  BY HeadsAre
<1>2. t \in ToSet(h) /\ ToSet(h) \subseteq ToSet(s) /\ i \in 0 .. Len(s)
  BY <1>1
<1>3. CASE ~(panel /\ Type(v, t) = "query")
  <2>1. r = MoveTo(s, t, i)
    BY <1>3 DEF Reordered
  <2>. HIDE DEF s, h
  <2>2. Moved(r, s, t, i)
    BY <1>1, <1>2, <2>1, MoveToIs
  <2>. QED BY <1>2, <2>2 DEF Moved, s, h
<1>4. CASE panel /\ Type(v, t) = "query"
  <2>. DEFINE k == Cardinality(GroupsBefore(v, c, i))
              g == MoveTo(h, t, k)
              n == Len(g)
              q == [j \in DOMAIN g |-> GroupOf(v, c, g[j])]
  <2>1. r = FlattenSeq(q)
    BY <1>4 DEF Reordered, GroupOf
  <2>2. k \in 0 .. Len(h) /\ \A x \in ToSet(h) : Place(h, x) <= k <=> Place(s, x) <= i
    BY GroupsBeforeIs
  <2>. HIDE DEF s, h, k, g
  <2>3. Moved(g, h, t, k)
    BY <1>1, <1>2, <2>2, MoveToIs DEF g
  <2>4. g \in Seq(Tabs) /\ n \in Nat /\ DOMAIN g = 1 .. n /\ IsInjective(g) /\ ToSet(g) = ToSet(h)
    BY <2>3 DEF Moved
  <2>5. \A j \in 1 .. n : g[j] \in ToSet(h)
    BY <2>4 DEF ToSet
  <2>6. n \in Nat \ {0}
    <3>1. PICK j \in 1 .. n : g[j] = t
      BY <1>2, <2>4 DEF ToSet
    <3>. QED BY <2>4, <3>1
  <2>7. Len(q) = n /\ \A j \in 1 .. n : q[j] = GroupOf(v, c, g[j])
    BY <2>4
  <2>. HIDE DEF q, n
  <2>8. ASSUME NEW j \in 1 .. n
        PROVE  /\ q[j] \in Seq(Tabs) /\ IsInjective(q[j])
               /\ ToSet(q[j]) = {g[j]} \cup {x \in ToSet(s) : v.info[x].parent = g[j]}
    BY <2>5, <2>7, GroupIs DEF s, h
  <2>9. \A j \in 1 .. n : g[j] \in ToSet(s) /\ v.info[g[j]].parent = None /\ g[j] # None
    BY <1>1, <2>5, WorkBounds
  <2>10. ASSUME NEW a \in 1 .. n, NEW b \in 1 .. n, a # b PROVE ToSet(q[a]) \cap ToSet(q[b]) = {}
    <3>1. g[a] # g[b]
      BY <2>4, <2>10 DEF IsInjective
    <3>. SUFFICES ASSUME NEW x \in ToSet(q[a]), x \in ToSet(q[b]) PROVE FALSE
      OBVIOUS
    <3>2. x = g[a] \/ v.info[x].parent = g[a]
      BY <2>8
    <3>3. x = g[b] \/ v.info[x].parent = g[b]
      BY <2>8
    <3>. QED BY <2>9, <3>1, <3>2, <3>3
  <2>18. \A j \in 1 .. n : q[j] \in Seq(Tabs) /\ IsInjective(q[j])
    BY <2>8
  <2>19. \A a, b \in 1 .. n : a # b => ToSet(q[a]) \cap ToSet(q[b]) = {}
    BY <2>10
  <2>11. /\ r \in Seq(Tabs) /\ IsInjective(r) /\ ToSet(r) = UNION {ToSet(q[j]) : j \in 1 .. n}
         /\ \A a, b \in 1 .. n : a < b => \A x \in ToSet(q[a]), y \in ToSet(q[b]) : Place(r, x) < Place(r, y)
    BY <2>1, <2>6, <2>7, <2>18, <2>19, FlattenIs
  <2>12. ToSet(r) = ToSet(s)
    <3>1. \A j \in 1 .. n : ToSet(q[j]) \subseteq ToSet(s)
      BY <2>8, <2>9
    <3>2. ASSUME NEW x \in ToSet(s) PROVE \E j \in 1 .. n : x \in ToSet(q[j])
      <4>. DEFINE e == IF v.info[x].parent = None THEN x ELSE v.info[x].parent
      <4>1. e \in ToSet(g)
        BY <1>1, <2>4
      <4>. HIDE DEF e
      <4>2. PICK j \in 1 .. n : g[j] = e
        BY <2>4, <4>1 DEF ToSet
      <4>3. x \in ToSet(q[j])
        BY <2>8, <4>2 DEF e
      <4>. QED BY <4>3
    <3>. QED BY <2>11, <3>1, <3>2
  <2>13. Len(r) = Len(s)
    BY <1>1, <2>11, <2>12, SameLength
  <2>14. ASSUME NEW x \in ToSet(h), NEW y \in ToSet(h) PROVE Place(r, x) < Place(r, y) <=> Place(g, x) < Place(g, y)
    <3>. DEFINE a == Place(g, x)
                b == Place(g, y)
    <3>1. a \in 1 .. n /\ b \in 1 .. n /\ g[a] = x /\ g[b] = y
      BY <2>4, PlaceIs DEF n
    <3>2. Place(r, x) \in Nat /\ Place(r, y) \in Nat
      <4>1. x \in ToSet(r) /\ y \in ToSet(r)
        BY <1>2, <2>12
      <4>. QED BY <2>11, <4>1, PlaceIs
    <3>. HIDE DEF a, b
    <3>3. x \in ToSet(q[a]) /\ y \in ToSet(q[b])
      BY <2>8, <3>1
    <3>4. a < b => Place(r, x) < Place(r, y)
      BY <2>11, <3>1, <3>3
    <3>5. b < a => Place(r, y) < Place(r, x)
      BY <2>11, <3>1, <3>3
    <3>6. a = b => x = y
      BY <3>1
    <3>7. Place(r, x) < Place(r, y) <=> a < b
      BY <3>1, <3>2, <3>4, <3>5, <3>6
    <3>. QED BY <3>7 DEF a, b
  <2>15. \A x \in ToSet(h) \ {t} : Place(r, x) < Place(r, t) <=> Place(s, x) <= i
    BY <1>2, <2>2, <2>3, <2>14 DEF Moved
  <2>16. \A x, y \in ToSet(h) : Place(h, x) < Place(h, y) <=> Place(s, x) < Place(s, y)
    BY <1>1, <1>2, IncreasingIs
  <2>17. \A x, y \in ToSet(h) \ {t} : Place(r, x) < Place(r, y) <=> Place(s, x) < Place(s, y)
    BY <2>3, <2>14, <2>16 DEF Moved
  <2>. QED BY <2>12, <2>13, <2>15, <2>17 DEF s, h
<1>. QED BY <1>3, <1>4

LEMMA TabsHold == WorkIInv => TabsInv
<1>. SUFFICES ASSUME WorkIInv PROVE TabsInv
  OBVIOUS
<1>1. /\ Shape(w) /\ w \in Workspaces
      /\ OrderInv(w) /\ InfoInv(w) /\ OnceInv(w) /\ ActiveInv(w) /\ RowsInv(w)
      /\ panel \in BOOLEAN /\ stray \in BOOLEAN /\ (w.asking # None => w.asking \in Open(w))
  BY DEF WorkIInv, Shape, DialogInv
<1>2. \A t \in Tabs : Type(w, t) = w.info[t].type
  BY WorkBounds DEF Type
<1>3. WorkTypeOK
  BY <1>1 DEF WorkTypeOK, ActiveInv, RowsInv
<1>4. NoOrphans
  <2>. SUFFICES ASSUME NEW c \in Conns, NEW t \in ToSet(w.tabs[c]), w.info[t].parent # None
                PROVE  w.info[t].parent \in ToSet(w.tabs[c]) /\ Type(w, w.info[t].parent) = "query"
    BY DEF NoOrphans
  <2>1. Scoped(w, c, t)
    BY <1>1 DEF InfoInv
  <2>2. w.info[t].parent \in Tabs
    BY <1>1, <2>1, OpenIs DEF Scoped
  <2>. QED BY <1>2, <2>1, <2>2 DEF Scoped
<1>5. TabsOnce
  <2>. SUFFICES ASSUME NEW c \in Conns, NEW i \in DOMAIN w.tabs[c], NEW j \in DOMAIN w.tabs[c],
                       i # j, w.info[w.tabs[c][i]] = w.info[w.tabs[c][j]]
                PROVE  Type(w, w.tabs[c][i]) = "query"
    BY DEF TabsOnce
  <2>1. w.tabs[c] \in Seq(Tabs) /\ i \in Nat /\ j \in Nat
    BY <1>1, FieldsAre
  <2>2. w.tabs[c][i] \in Tabs /\ w.tabs[c][j] \in Tabs
    BY <2>1
  <2>3. w.tabs[c][i] # w.tabs[c][j]
    <3>1. Increasing(w.tabs[c])
      BY <1>1 DEF OrderInv
    <3>2. i < j => w.tabs[c][i] < w.tabs[c][j]
      BY <3>1 DEF Increasing
    <3>3. j < i => w.tabs[c][j] < w.tabs[c][i]
      BY <3>1 DEF Increasing
    <3>. QED BY <2>1, <2>2, <3>2, <3>3, WorkBounds
  <2>4. w.tabs[c][i] \in ToSet(w.tabs[c]) /\ w.tabs[c][j] \in ToSet(w.tabs[c])
    BY DEF ToSet
  <2>. QED BY <1>1, <1>2, <2>2, <2>3, <2>4 DEF OnceInv
<1>6. ReorderLands
  <2>. SUFFICES ASSUME NEW c \in Conns, NEW t \in ToSet(Heads(w, c)), NEW i \in 0 .. Len(w.tabs[c]),
                       NEW r, r = Reordered(w, c, t, i)
                PROVE  /\ Len(r) = Len(w.tabs[c]) /\ ToSet(r) = ToSet(w.tabs[c])
                       /\ \A x \in ToSet(Heads(w, c)) \ {t} : Place(r, x) < Place(r, t) <=> Place(w.tabs[c], x) <= i
                       /\ \A x, y \in ToSet(Heads(w, c)) \ {t} :
                            Place(r, x) < Place(r, y) <=> Place(w.tabs[c], x) < Place(w.tabs[c], y)
    BY DEF ReorderLands
  <2>. QED BY <1>1, ReorderedIs
<1>. QED BY <1>3, <1>4, <1>5, <1>6 DEF TabsInv

(* The tabs stay in order: no tab is lost, doubled or orphaned, and a tab  *)
(* that is moved lands where it was dropped (workspace-store.ts).          *)
THEOREM TabsStay == WorkSpec => []TabsInv
<1>. QED BY TabsHold, WorkInitIs, WorkStep, PTL DEF WorkSpec

(* A tab opened over the limit closes older ones of its kind, never one    *)
(* with unsaved changes, and those are lost by a dialog's answer, a drop   *)
(* or the close of the connection only (workspace-store.ts enforces the    *)
(* limit, closeTab asks).                                                  *)
THEOREM UnsavedStay == WorkSpec => LimitSparesDirty
<1>1. Sparing => Spared /\ Limited
  BY DEF Sparing
<1>2. WorkSpec => [][Spared]_workVars /\ [][Limited]_workVars
  BY <1>1, WorkInitIs, WorkStep, PTL DEF WorkSpec
<1>3. [][Spared]_workVars => DirtyLeavesOnPurpose
  BY PTL DEF Spared, DirtyLeavesOnPurpose
<1>4. [][Limited]_workVars => LimitHolds
  BY PTL DEF Limited, LimitHolds
<1>. QED BY <1>2, <1>3, <1>4, PTL DEF LimitSparesDirty

=============================================================================
