---------------------------- MODULE RowEditProofs ----------------------------
(***************************************************************************)
(* Proofs about RowEdit, for any table and any number of calls and typed   *)
(* values: a result is edited with the metadata of its own statement and a *)
(* cloned row is inserted once (first part); the three copies of a row     *)
(* agree, and a run that a modified row held back starts only when the     *)
(* table has the row (second part).                                        *)
(***************************************************************************)
EXTENDS RowEdit, FiniteSetTheorems, TLAPS

----------
(* The inductive invariant. *)

\* Every call has its own number; the result on screen and those the calls are about
\* have the numbers of runs that have ended.
IdsInv ==
  /\ res.id <= issued
  /\ \A c \in calls : c.id <= issued /\ c.of <= issued
  /\ \A c, d \in calls : c.id = d.id => c = d
  /\ \A c \in calls : c.kind \in {"run", "refresh"} =>
       c.id # res.id /\ \A d \in calls : d.of # c.id

\* Metadata and edit mode are of the result's statement, and so are the calls that are
\* about the result.
ModeInv ==
  /\ res.mode => res.id # 0 /\ res.meta = res.sql
  /\ res.meta # 0 => res.id # 0 /\ res.meta = res.sql
  /\ \A c \in calls : c.kind # "run" => c.of # 0 /\ (c.of = res.id => c.sql = res.sql)

\* Unless Save was pressed twice one insert is in flight, and a draft in the form that
\* was inserted is the one whose answer is due.
OneInsert ==
  /\ \A c, d \in calls : c.kind = "insert" /\ d.kind = "insert" => c.id = d.id
  /\ \A c \in calls : c.kind = "insert" /\ c.step = "sent" => inserted[c.value] = 0
  /\ form.row = Draft /\ inserted[form.value] # 0 =>
       \E c \in calls : c.kind = "insert" /\ c.step = "done" /\ c.value = form.value
  /\ \A v \in Values : inserted[v] <= 1

DraftInv ==
  /\ ~open => form = NoForm
  /\ form.row = Draft => form.value <= typed
  /\ \A c \in calls : c.kind = "insert" => c.row = Draft /\ c.value <= typed
  /\ \A v \in Values : inserted[v] # 0 => v <= typed
  /\ "resaved" \notin gaps => OneInsert

IInv == TypeOK /\ IdsInv /\ ModeInv /\ DraftInv

----------
(* What a step does to the calls. *)

\* Call d is call c at a later step, or c itself.
Continues(d, c) ==
  /\ d.id = c.id /\ d.of = c.of /\ d.sql = c.sql
  /\ d.kind = "run" <=> c.kind = "run"
  /\ d.kind = "refresh" <=> c.kind = "refresh"

\* The result stays, goes, or is that of a run or a refresh which is not among old.
ResultOf(old) ==
  \/ res'.id = res.id /\ res'.sql = res.sql
  \/ res'.id = 0
  \/ \E c \in calls : /\ c.kind \in {"run", "refresh"} /\ c.id = res'.id
                      /\ \A d \in old : d.id # c.id

\* The calls after a step are old ones that continue and fresh ones.
CallsOf(old, fresh) ==
  /\ calls' = old \cup fresh /\ old \subseteq CallType /\ fresh \subseteq CallType
  /\ \A d \in old : \E c \in calls : Continues(d, c)
  /\ \A d, e \in old : d.id = e.id => d = e
  /\ \A d, e \in fresh : d.id = e.id => d = e
  /\ \A d \in fresh :
       /\ issued < d.id /\ d.id <= issued'
       /\ d.of \in {res.id, res'.id} \/ \E c \in calls : c.of = d.of
       /\ d.kind # "run" => d.of # 0 /\ (d.of = res'.id => d.sql = res'.sql)
  /\ issued' \in Ids /\ issued <= issued'

LEMMA CallsKept ==
  ASSUME IInv, NEW old, NEW fresh, CallsOf(old, fresh), ResultOf(old), res' \in ResType
  PROVE  /\ IdsInv' /\ calls' \subseteq CallType
         /\ \A c \in calls' : c.kind # "run" => c.of # 0 /\ (c.of = res'.id => c.sql = res'.sql)
<1>1. /\ calls \subseteq CallType /\ issued \in Nat /\ issued' \in Nat /\ issued <= issued'
      /\ res \in ResType /\ res.id \in Nat /\ res'.id \in Nat
  BY RowEditAssumption DEF IInv, TypeOK, CallsOf, Ids, ResType
<1>2. /\ \A d \in calls : d.id \in Nat /\ d.id # 0 /\ d.of \in Nat
      /\ \A d \in calls' : d.id \in Nat /\ d.id # 0 /\ d.of \in Nat
  BY <1>1, RowEditAssumption DEF CallsOf, CallType, Ids
<1>3. /\ res.id <= issued
      /\ \A c \in calls : c.id <= issued /\ c.of <= issued
      /\ \A c, d \in calls : c.id = d.id => c = d
      /\ \A c \in calls : c.kind \in {"run", "refresh"} =>
           c.id # res.id /\ \A d \in calls : d.of # c.id
  BY DEF IInv, IdsInv
<1>4. /\ calls' = old \cup fresh
      /\ \A d \in old : \E c \in calls : Continues(d, c)
      /\ \A d, e \in old : d.id = e.id => d = e
      /\ \A d, e \in fresh : d.id = e.id => d = e
      /\ \A d \in fresh :
           /\ issued < d.id /\ d.id <= issued'
           /\ d.of \in {res.id, res'.id} \/ \E c \in calls : c.of = d.of
           /\ d.kind # "run" => d.of # 0 /\ (d.of = res'.id => d.sql = res'.sql)
  BY DEF CallsOf
<1>5. res'.id <= issued
  BY <1>1, <1>3 DEF ResultOf
<1>6. \A d \in old : d.id <= issued /\ d.of <= issued
  BY <1>3, <1>4 DEF Continues
<1>7. \A d \in fresh : d.of <= issued
  BY <1>3, <1>4, <1>5
<1>8. \A d \in calls' : d.id <= issued' /\ d.of <= issued'
  BY <1>1, <1>2, <1>4, <1>6, <1>7
<1>9. \A d, e \in calls' : d.id = e.id => d = e
  BY <1>1, <1>2, <1>4, <1>6
<1>10. ASSUME NEW d \in calls', d.kind \in {"run", "refresh"}
       PROVE  d.id # res'.id /\ \A e \in calls' : e.of # d.id
  <2>1. CASE d \in fresh
    <3>1. issued < d.id
      BY <1>4, <2>1
    <3>2. \A e \in calls' : e.of <= issued
      BY <1>4, <1>6, <1>7
    <3> QED BY <1>1, <1>2, <1>5, <3>1, <3>2
  <2>2. CASE d \in old
    <3>1. PICK c \in calls : Continues(d, c)
      BY <1>4, <2>2
    <3>2. c.kind \in {"run", "refresh"} /\ c.id = d.id
      BY <1>10, <3>1 DEF Continues
    <3>3. d.id # res.id /\ \A e \in calls : e.of # d.id
      BY <1>3, <3>2
    <3>4. d.id # res'.id
      BY <1>2, <2>2, <3>3 DEF ResultOf
    <3>5. \A e \in old : e.of # d.id
      BY <1>4, <3>3 DEF Continues
    <3>6. \A e \in fresh : e.of # d.id
      BY <1>4, <3>3, <3>4
    <3> QED BY <1>4, <3>4, <3>5, <3>6
  <2> QED BY <1>4, <2>1, <2>2
<1>11. IdsInv'
  BY <1>1, <1>5, <1>8, <1>9, <1>10 DEF IdsInv
<1>12. ASSUME NEW d \in old, d.kind # "run"
       PROVE  d.of # 0 /\ (d.of = res'.id => d.sql = res'.sql)
  <2>1. PICK c \in calls : Continues(d, c)
    BY <1>4
  <2>2. c.kind # "run" /\ c.of = d.of /\ c.sql = d.sql
    BY <1>12, <2>1 DEF Continues
  <2>3. d.of # 0 /\ (d.of = res.id => d.sql = res.sql)
    BY <2>2 DEF IInv, ModeInv
  <2>4. \A e \in calls : e.kind \in {"run", "refresh"} => d.of # e.id
    BY <1>3, <2>2
  <2> QED BY <2>3, <2>4 DEF ResultOf
<1> QED BY <1>4, <1>11, <1>12 DEF CallsOf

\* The drafts, for a step that inserts none and saves none.
LEMMA DraftsKept ==
  ASSUME IInv, UNCHANGED inserted, typed' \in Values, typed <= typed', gaps \subseteq gaps',
         \A d \in calls' : d.kind = "insert" =>
           \E c \in calls : /\ c.kind = "insert" /\ c.id = d.id /\ c.row = d.row
                            /\ c.value = d.value /\ c.step = d.step,
         ~open' => form' = NoForm,
         \/ form'.row # Draft
         \/ /\ \/ form'.row = form.row /\ form'.value = form.value
               \/ form'.value = typed + 1 /\ typed' = typed + 1
            /\ \A c \in calls : c.kind = "insert" /\ c.step = "done" =>
                 \E d \in calls' : d.kind = "insert" /\ d.step = "done" /\ d.value = c.value
  PROVE  DraftInv'
<1>1. /\ typed \in Nat /\ typed' \in Nat /\ \A c \in calls : c.value \in Nat
      /\ form.value \in Nat /\ form.value \in Values
  BY RowEditAssumption DEF IInv, TypeOK, Values, CallType, FormType
<1>2. /\ form.row = Draft => form.value <= typed
      /\ \A c \in calls : c.kind = "insert" => c.row = Draft /\ c.value <= typed
      /\ \A v \in Values : inserted[v] # 0 => v <= typed
  BY DEF IInv, DraftInv
<1>3. form'.row = Draft => form'.value <= typed'
  BY <1>1, <1>2
<1>4. \A d \in calls' : d.kind = "insert" => d.row = Draft /\ d.value <= typed'
  BY <1>1, <1>2
<1>5. \A v \in Values : inserted'[v] # 0 => v <= typed'
  BY <1>1, <1>2 DEF Values
<1>6. ASSUME "resaved" \notin gaps'
      PROVE  OneInsert'
  <2>1. OneInsert
    BY <1>6 DEF IInv, DraftInv
  <2>2. \A c, d \in calls' : c.kind = "insert" /\ d.kind = "insert" => c.id = d.id
    BY <2>1 DEF OneInsert
  <2>3. \A c \in calls' : c.kind = "insert" /\ c.step = "sent" => inserted'[c.value] = 0
    BY <2>1 DEF OneInsert
  <2>4. ASSUME form'.row = Draft, inserted'[form'.value] # 0
        PROVE  \E c \in calls' : c.kind = "insert" /\ c.step = "done" /\ c.value = form'.value
    <3>1. CASE form'.row = form.row /\ form'.value = form.value
      <4>1. PICK c \in calls : c.kind = "insert" /\ c.step = "done" /\ c.value = form.value
        BY <2>1, <2>4, <3>1 DEF OneInsert
      <4> QED BY <2>4, <3>1, <4>1
    <3>2. CASE form'.value = typed + 1 /\ typed' = typed + 1
      <4>1. typed + 1 \in Values /\ typed + 1 > typed
        BY <1>1, <3>2
      <4> QED BY <1>1, <1>2, <2>4, <3>2, <4>1
    <3> QED BY <2>4, <3>1, <3>2
  <2> QED BY <2>1, <2>2, <2>3, <2>4 DEF OneInsert
<1> QED BY <1>3, <1>4, <1>5, <1>6 DEF DraftInv

----------
(* Calls that are issued and calls that end. *)

LEMMA FormFacts ==
  /\ Draft # NoRow /\ NoForm \in FormType /\ NoForm.row = NoRow /\ ~NoForm.modified
  /\ 0 \in Ids /\ 0 \in Values
BY RowEditAssumption DEF Draft, NoRow, NoForm, FormType, Ids, Values

LEMMA RunCallFacts ==
  ASSUME res \in ResType, NEW id \in 1 .. MaxCalls, NEW c, c = RunCall(id)
  PROVE  c \in CallType /\ c.kind = "run" /\ c.id = id /\ c.of = res.id
<1>1. /\ id \in Ids /\ [r \in Rows |-> 0] \in [Rows -> Values] /\ 0 \in Values
  BY FormFacts, RowEditAssumption DEF Ids
<1>2. c = [kind |-> "run", id |-> id, of |-> res.id, sql |-> id, row |-> NoRow, at |-> NoRow, value |-> 0,
           step |-> "sent", rows |-> [r \in Rows |-> 0], then |-> "none"]
  BY DEF RunCall, Call
<1> QED BY <1>1, <1>2 DEF CallType, ResType, Steps

LEMMA AnalysisFacts ==
  ASSUME res \in ResType, issued \in Ids, issued < MaxCalls,
         NEW of \in Ids, NEW sql \in Ids, NEW then \in {"none", "mode"},
         NEW c, c = Analysis(of, sql, then)
  PROVE  c \in CallType /\ c.kind = "analyze" /\ c.id = issued + 1 /\ c.of = of /\ c.sql = sql
<1>1. /\ issued + 1 \in 1 .. MaxCalls
      /\ [r \in Rows |-> 0] \in [Rows -> Values] /\ 0 \in Values
  BY FormFacts, RowEditAssumption DEF Ids
<1>2. c = [kind |-> "analyze", id |-> issued + 1, of |-> of, sql |-> sql, row |-> NoRow,
           at |-> NoRow, value |-> 0, step |-> "sent", rows |-> [r \in Rows |-> 0], then |-> then]
  BY DEF Analysis, Call
<1> QED BY <1>1, <1>2 DEF CallType, ResType, Steps

LEMMA ClearedFacts ==
  ASSUME NEW r \in ResType
  PROVE  /\ Cleared(r) \in ResType /\ Cleared(r).id = r.id /\ Cleared(r).sql = r.sql
         /\ Cleared(r).meta = 0 /\ ~Cleared(r).mode
BY FormFacts DEF Cleared, ResType

\* Call d is call c, whose dialog may have closed.
Twin(d, c) ==
  /\ d.id = c.id /\ d.of = c.of /\ d.sql = c.sql /\ d.kind = c.kind /\ d.row = c.row
  /\ d.at = c.at /\ d.value = c.value /\ d.step = c.step /\ d.rows = c.rows
  /\ d.then = c.then \/ d.then = "orphan"

\* The calls of S after a step are those of T, one for one.
Twins(T, S) ==
  /\ T \subseteq CallType
  /\ \A d \in T : \E c \in S : Twin(d, c)
  /\ \A c \in S : \E d \in T : Twin(d, c)
  /\ \A d, e \in T : d.id = e.id => d = e

LEMMA OrphanedFacts ==
  ASSUME IInv, NEW S \in SUBSET calls
  PROVE  /\ Twins(Orphaned(S), S)
         /\ \A d \in Orphaned(S) : d.then # "nav"
<1> DEFINE o(c) == IF c.then = "nav" THEN [c EXCEPT !.then = "orphan"] ELSE c
<1>1. Orphaned(S) = {o(c) : c \in S}
  BY DEF Orphaned
<1>2. \A c \in S : o(c) \in CallType /\ Twin(o(c), c) /\ o(c).id = c.id /\ o(c).then # "nav"
  BY DEF IInv, TypeOK, CallType, Twin
<1> HIDE DEF o
<1>3. \A c, d \in S : c.id = d.id => c = d
  BY DEF IInv, IdsInv
<1> QED BY <1>1, <1>2, <1>3 DEF Twins

LEMMA SameAreTwins ==
  ASSUME IInv, NEW S \in SUBSET calls
  PROVE  Twins(S, S)
BY DEF IInv, TypeOK, IdsInv, Twins, Twin

\* The calls that are left when call c ends with the result r.
Goes(c, r) == c.then \in {"nav", "orphan"} /\ pending # "none" /\ ~r.saveError
Left(c, r) == IF Goes(c, r) THEN Orphaned(calls \ {c}) ELSE calls \ {c}

LEMMA LeftFacts ==
  ASSUME IInv, NEW c, NEW r
  PROVE  Twins(Left(c, r), calls \ {c})
BY OrphanedFacts, SameAreTwins DEF Left

\* The two ways a call ends: with the calls it leaves, or with the deferred run as well.
LEMMA EndsFacts ==
  ASSUME issued \in Nat, NEW c, NEW r, NEW f, NEW new, Ends(c, r, f, new),
         NEW a, a.kind = "analyze", new = {} \/ new = {a}, res \in ResType
  PROVE  /\ issued' \in Nat /\ issued' <= MaxCalls /\ pending' = (IF Goes(c, r) THEN "none" ELSE pending)
         /\ \/ /\ calls' = Left(c, r) \cup new /\ res' = r /\ form' = f
               /\ \/ new = {} /\ issued' = issued
                  \/ new = {a} /\ issued' = issued + 1
            \/ /\ calls' = Left(c, r) \cup (new \cup {RunCall(issued')})
               /\ res' = Cleared(r) /\ form' = NoForm /\ ~Running
               /\ \/ new = {} /\ issued' = issued + 1
                  \/ new = {a} /\ issued' = issued + 2
<1> DEFINE goes == Goes(c, r)
           runs == goes /\ pending = "run" /\ ~Running
           last == issued + Cardinality(new)
           all  == IF runs THEN new \cup {RunCall(last + 1)} ELSE new
<1>1. /\ issued + Cardinality(all) <= MaxCalls
      /\ issued' = issued + Cardinality(all)
      /\ calls' = Left(c, r) \cup all
      /\ pending' = IF goes THEN "none" ELSE pending
      /\ res' = IF runs THEN Cleared(r) ELSE r
      /\ form' = IF runs THEN NoForm ELSE f
  BY DEF Ends, Goes, Left
<1>2. /\ IsFiniteSet(new)
      /\ \/ new = {} /\ Cardinality(new) = 0
         \/ new = {a} /\ Cardinality(new) = 1
  BY FS_EmptySet, FS_Singleton
<1>3. RunCall(last + 1) \notin new
  <2>1. RunCall(last + 1).kind = "run"
    BY DEF RunCall, Call
  <2> QED BY <2>1
<1>4. Cardinality(new \cup {RunCall(last + 1)}) = Cardinality(new) + 1
  BY <1>2, <1>3, FS_AddElement
<1>5. CASE runs
  <2>1. all = new \cup {RunCall(last + 1)}
    BY <1>5
  <2>2. issued' = last + 1
    <3>1. Cardinality(all) = Cardinality(new) + 1
      BY <1>4, <2>1
    <3> HIDE DEF all
    <3> QED BY <1>1, <1>2, <3>1
  <2> HIDE DEF all, last
  <2>3. /\ calls' = Left(c, r) \cup (new \cup {RunCall(issued')})
        /\ res' = Cleared(r) /\ form' = NoForm /\ ~Running /\ issued' <= MaxCalls
        /\ pending' = (IF Goes(c, r) THEN "none" ELSE pending)
    BY <1>1, <1>5, <2>1, <2>2
  <2>4. \/ new = {} /\ issued' = issued + 1
        \/ new = {a} /\ issued' = issued + 2
    BY <1>2, <2>2 DEF last
  <2> QED BY <2>3, <2>4
<1>6. CASE ~runs
  <2>1. all = new
    BY <1>6
  <2>2. \/ new = {} /\ issued' = issued
        \/ new = {a} /\ issued' = issued + 1
    <3>1. Cardinality(all) = Cardinality(new)
      BY <2>1
    <3> HIDE DEF all
    <3> QED BY <1>1, <1>2, <3>1
  <2>3. calls' = Left(c, r) \cup new /\ res' = r /\ form' = f /\ pending' = (IF Goes(c, r) THEN "none" ELSE pending)
    BY <1>1, <1>6, <2>1
  <2>4. issued' <= MaxCalls
    BY <1>1
  <2> QED BY <2>2, <2>3, <2>4
<1> QED BY <1>5, <1>6

\* A result whose mode and metadata are of its own statement.
Fits(r) == /\ r.mode => r.id # 0 /\ r.meta = r.sql
           /\ r.meta # 0 => r.id # 0 /\ r.meta = r.sql

LEMMA CalmTypes ==
  ASSUME IInv, UNCHANGED <<open, db, inserted, typed>>, res' \in ResType, form' \in FormType,
         form'.modified => form'.row # NoRow, pending' \in Actions,
         shown' \in [Rows -> Values], cache' \in [id : Ids, rows : [Rows -> Values]],
         calls' \subseteq CallType, issued' \in Ids,
         gaps' \subseteq gaps \cup {"reread", "warned", "dropped", "overtaken", "misplaced"}
  PROVE  TypeOK'
BY DEF IInv, TypeOK

\* A call ends, with the result r and the form f, and at most an analysis of r follows.
LEMMA EndPreserves ==
  ASSUME IInv, open, NEW c \in calls, NEW r \in ResType, NEW f \in {form, NoForm}, NEW new,
         Ends(c, r, f, new),
         new = {} \/ (new = {Analysis(r.id, r.sql, "none")} /\ r.id # 0), Fits(r),
         \/ r.id = res.id /\ r.sql = res.sql
         \/ r.id = 0
         \/ c.kind \in {"run", "refresh"} /\ r.id = c.id,
         f = NoForm \/ ~(c.kind = "insert" /\ c.step = "done"),
         UNCHANGED <<open, db, inserted, typed, cache>>, shown' \in [Rows -> Values],
         gaps \subseteq gaps', gaps' \subseteq gaps \cup {"reread", "warned", "dropped", "overtaken"}
  PROVE  IInv'
<1> DEFINE a == Analysis(r.id, r.sql, "none")
           old == Left(c, r)
<1>1. /\ calls \subseteq CallType /\ res \in ResType /\ issued \in Nat /\ MaxCalls \in Nat
      /\ form \in FormType /\ (form.modified => form.row # NoRow) /\ pending \in Actions
      /\ typed \in Values /\ typed \in Nat /\ MaxTyped \in Nat
  BY RowEditAssumption DEF IInv, TypeOK, Ids, Values
<1>2. a.kind = "analyze"
  BY DEF Analysis, Call
<1>3. /\ issued' \in Nat /\ issued' <= MaxCalls /\ pending' \in {pending, "none"}
      /\ \/ /\ calls' = old \cup new /\ res' = r /\ form' = f
            /\ \/ new = {} /\ issued' = issued
               \/ new = {a} /\ issued' = issued + 1
         \/ /\ calls' = old \cup (new \cup {RunCall(issued')})
            /\ res' = Cleared(r) /\ form' = NoForm
            /\ \/ new = {} /\ issued' = issued + 1
               \/ new = {a} /\ issued' = issued + 2
  <2> HIDE DEF a
  <2>1. new = {} \/ new = {a}
    BY DEF a
  <2> HIDE DEF old
  <2> QED BY <1>1, <1>2, <2>1, EndsFacts DEF old
<1>4. /\ res' \in ResType /\ res'.id = r.id /\ res'.sql = r.sql /\ Fits(res')
      /\ form' \in {form, NoForm} /\ (f = NoForm => form' = NoForm)
  <2>1. CASE res' = r /\ form' = f
    BY <2>1
  <2>2. CASE res' = Cleared(r) /\ form' = NoForm
    BY <2>2, ClearedFacts DEF Fits
  <2> QED BY <1>3, <2>1, <2>2
<1>5. new = {a} => /\ a \in CallType /\ a.id = issued + 1 /\ a.of = r.id /\ a.sql = r.sql
                   /\ issued < MaxCalls /\ r.id # 0
  <2> SUFFICES ASSUME new = {a}
               PROVE  /\ a \in CallType /\ a.id = issued + 1 /\ a.of = r.id /\ a.sql = r.sql
                      /\ issued < MaxCalls /\ r.id # 0
    OBVIOUS
  <2>1. issued < MaxCalls /\ issued \in Ids
    <3> HIDE DEF a, old
    <3>1. issued' = issued + 1 \/ issued' = issued + 2
      BY <1>3
    <3> QED BY <1>1, <1>3, <3>1 DEF Ids
  <2>2. r.id \in Ids /\ r.sql \in Ids
    BY DEF ResType
  <2>3. a = Analysis(r.id, r.sql, "none")
    OBVIOUS
  <2> HIDE DEF a, old
  <2>4. a \in CallType /\ a.id = issued + 1 /\ a.of = r.id /\ a.sql = r.sql
    <3>1. \A x : x = Analysis(r.id, r.sql, "none") =>
            x \in CallType /\ x.id = issued + 1 /\ x.of = r.id /\ x.sql = r.sql
      <4> DEFINE i == r.id
                 s == r.sql
                 n == "none"
      <4>1. i \in Ids /\ s \in Ids /\ n \in {"none", "mode"}
        BY <2>2
      <4> HIDE DEF i, s, n
      <4>2. \A x : x = Analysis(i, s, n) =>
             x \in CallType /\ x.id = issued + 1 /\ x.of = i /\ x.sql = s
        BY <1>1, <2>1, <4>1, AnalysisFacts
      <4> QED BY <4>2 DEF i, s, n
    <3> QED BY <2>3, <3>1
  <2> QED BY <2>1, <2>4
<1> DEFINE Good(F) ==
             /\ F \subseteq CallType /\ calls' = old \cup F /\ issued <= issued'
             /\ \A d \in F : /\ issued < d.id /\ d.id <= issued' /\ d.kind # "insert"
                             /\ d.of \in {res.id, r.id}
                             /\ d.kind # "run" => d.of # 0 /\ d.of = r.id /\ d.sql = r.sql
             /\ \A d, e \in F : d.id = e.id => d = e
<1>15. ASSUME NEW F, F \subseteq CallType /\ calls' = old \cup F /\ issued <= issued',
              \A d \in F : /\ issued < d.id /\ d.id <= issued' /\ d.kind # "insert"
                           /\ d.of \in {res.id, r.id}
                           /\ d.kind # "run" => d.of # 0 /\ d.of = r.id /\ d.sql = r.sql,
              \A d, e \in F : d.id = e.id => d = e
       PROVE  \E G : Good(G)
  <2>1. Good(F)
    BY <1>15
  <2> HIDE DEF Good
  <2> QED BY <2>1
<1>6. \E F : Good(F)
  <2>1. CASE calls' = old \cup new /\ new = {} /\ issued' = issued
    <3>1. Good({})
      BY <1>1, <2>1
    <3> HIDE DEF Good
    <3> QED BY <3>1
  <2>2. CASE calls' = old \cup new /\ new = {a} /\ issued' = issued + 1
    <3>1. a \in CallType /\ a.id = issued + 1 /\ a.of = r.id /\ a.sql = r.sql /\ r.id # 0
      BY <1>5, <2>2
    <3>2. issued < issued + 1 /\ issued + 1 <= issued' /\ issued <= issued'
      BY <1>1, <2>2
    <3> HIDE DEF a, old
    <3> DEFINE W == {a}
    <3>3. W \subseteq CallType /\ \A d, e \in W : d.id = e.id => d = e
      BY <3>1
    <3>4. \A d \in W : /\ issued < d.id /\ d.id <= issued' /\ d.kind # "insert"
                       /\ d.of \in {res.id, r.id}
                       /\ d.kind # "run" => d.of # 0 /\ d.of = r.id /\ d.sql = r.sql
      BY <1>2, <3>1, <3>2
    <3>5. calls' = old \cup W
      BY <2>2
    <3> HIDE DEF W
    <3> HIDE DEF Good
    <3> QED BY <3>2, <3>3, <3>4, <3>5, <1>15
  <2>3. CASE calls' = old \cup (new \cup {RunCall(issued')}) /\ new = {} /\ issued' = issued + 1
    <3>1. issued' \in 1 .. MaxCalls
      BY <1>1, <1>3, <2>3
    <3>2. RunCall(issued') \in CallType /\ RunCall(issued').kind = "run"
          /\ RunCall(issued').id = issued' /\ RunCall(issued').of = res.id
      BY <1>1, <3>1, RunCallFacts
    <3> DEFINE b == RunCall(issued')
    <3>3. calls' = old \cup {b}
      BY <2>3
    <3>4. issued < issued' /\ issued' <= issued' /\ issued <= issued'
      BY <1>1, <2>3
    <3> HIDE DEF a, old, b
    <3>5. b \in CallType /\ b.kind = "run" /\ b.id = issued' /\ b.of = res.id
      BY <3>2 DEF b
    <3> DEFINE W == {b}
    <3>6. W \subseteq CallType /\ \A d, e \in W : d.id = e.id => d = e
      BY <3>5
    <3>7. \A d \in W : /\ issued < d.id /\ d.id <= issued' /\ d.kind # "insert"
                       /\ d.of \in {res.id, r.id}
                       /\ d.kind # "run" => d.of # 0 /\ d.of = r.id /\ d.sql = r.sql
      BY <3>4, <3>5
    <3>9. calls' = old \cup W
      BY <3>3
    <3> HIDE DEF W
    <3> HIDE DEF Good
    <3> QED BY <3>4, <3>6, <3>7, <3>9, <1>15
  <2>4. CASE calls' = old \cup (new \cup {RunCall(issued')}) /\ new = {a} /\ issued' = issued + 2
    <3>1. issued' \in 1 .. MaxCalls
      BY <1>1, <1>3, <2>4
    <3>2. RunCall(issued') \in CallType /\ RunCall(issued').kind = "run"
          /\ RunCall(issued').id = issued' /\ RunCall(issued').of = res.id
      BY <1>1, <3>1, RunCallFacts
    <3> DEFINE b == RunCall(issued')
    <3>3. calls' = old \cup {a, b}
      BY <2>4
    <3>4. /\ issued < issued' /\ issued' <= issued' /\ issued <= issued'
          /\ issued < issued + 1 /\ issued + 1 <= issued' /\ issued + 1 # issued'
      BY <1>1, <2>4
    <3>5. a \in CallType /\ a.id = issued + 1 /\ a.of = r.id /\ a.sql = r.sql /\ r.id # 0
      BY <1>5, <2>4
    <3> HIDE DEF a, old, b
    <3>6. b \in CallType /\ b.kind = "run" /\ b.id = issued' /\ b.of = res.id
      BY <3>2 DEF b
    <3>7. {a, b} \in SUBSET CallType
      BY <3>5, <3>6
    <3>8. \A d \in {a, b} : /\ issued < d.id /\ d.id <= issued' /\ d.kind # "insert"
                            /\ d.of \in {res.id, r.id}
                            /\ d.kind # "run" => d.of # 0 /\ d.of = r.id /\ d.sql = r.sql
      BY <1>2, <3>4, <3>5, <3>6
    <3>9. \A d, e \in {a, b} : d.id = e.id => d = e
      BY <3>4, <3>5, <3>6
    <3>10. Good({a, b})
      BY <3>3, <3>4, <3>7, <3>8, <3>9
    <3> HIDE DEF Good
    <3> QED BY <3>10
  <2> HIDE DEF a, old, Good
  <2> QED BY <1>3, <2>1, <2>2, <2>3, <2>4
<1> HIDE DEF a
<1>14. PICK fresh : Good(fresh)
  BY <1>6
<1>7. issued' \in Ids /\ Twins(old, calls \ {c})
  BY <1>1, <1>3, LeftFacts DEF Ids
<1> HIDE DEF old
<1>8. CallsOf(old, fresh)
  <2>1. old \subseteq CallType /\ \A d \in old : \E e \in calls : Continues(d, e)
    BY <1>7 DEF Twins, Twin, Continues
  <2>2. \A d, e \in old : d.id = e.id => d = e
    BY <1>7 DEF Twins
  <2> QED BY <1>1, <1>4, <1>14, <1>7, <2>1, <2>2 DEF CallsOf
<1>9. ResultOf(old)
  <2>1. \A d \in old : d.id # c.id
    BY <1>7 DEF IInv, IdsInv, Twins, Twin
  <2> QED BY <1>4, <2>1 DEF ResultOf
<1>10. /\ IdsInv' /\ calls' \subseteq CallType
       /\ \A d \in calls' : d.kind # "run" => d.of # 0 /\ (d.of = res'.id => d.sql = res'.sql)
  BY <1>4, <1>8, <1>9, CallsKept
<1>11. DraftInv'
  <2>1. \A d \in calls' : d.kind = "insert" => \E e \in calls : Twin(d, e)
    BY <1>14, <1>7 DEF Twins
  <2>2. /\ typed' \in Values /\ typed <= typed' /\ UNCHANGED inserted /\ gaps \subseteq gaps'
        /\ ~open' => form' = NoForm
    BY <1>1
  <2>3. \A d \in calls' : d.kind = "insert" =>
           \E e \in calls : /\ e.kind = "insert" /\ e.id = d.id /\ e.row = d.row
                            /\ e.value = d.value /\ e.step = d.step
    BY <2>1 DEF Twin
  <2>4. ASSUME form'.row = Draft
        PROVE  /\ form'.row = form.row /\ form'.value = form.value
               /\ \A e \in calls : e.kind = "insert" /\ e.step = "done" =>
                    \E d \in calls' : d.kind = "insert" /\ d.step = "done" /\ d.value = e.value
    <3>1. form' # NoForm
      BY <2>4, FormFacts
    <3>2. form' = form /\ ~(c.kind = "insert" /\ c.step = "done")
      BY <1>4, <3>1
    <3>3. \A e \in calls : e.kind = "insert" /\ e.step = "done" => \E d \in calls' : Twin(d, e)
      BY <1>14, <1>7, <3>2 DEF Twins
    <3> QED BY <3>2, <3>3 DEF Twin
  <2> QED BY <2>2, <2>3, <2>4, DraftsKept
<1>12. TypeOK'
  <2>1. form' \in FormType /\ (form'.modified => form'.row # NoRow)
    BY <1>1, <1>4, FormFacts
  <2>2. pending' \in Actions
    BY <1>1, <1>3 DEF Actions
  <2>3. cache' \in [id : Ids, rows : [Rows -> Values]]
    BY DEF IInv, TypeOK
  <2> QED BY <1>4, <1>7, <1>10, <2>1, <2>2, <2>3, CalmTypes
<1>13. ModeInv'
  BY <1>4, <1>10 DEF Fits, ModeInv
<1> QED BY <1>10, <1>11, <1>12, <1>13 DEF IInv

----------
(* Steps that issue, move or settle one call. *)

\* What a step must say of the calls.
CallsFit ==
  /\ IdsInv' /\ calls' \subseteq CallType
  /\ \A d \in calls' : d.kind # "run" => d.of # 0 /\ (d.of = res'.id => d.sql = res'.sql)

LEMMA CallFits ==
  ASSUME IInv, NEW c \in calls
  PROVE  /\ c \in CallType /\ Continues(c, c) /\ c.id \in Nat /\ c.id <= issued
         /\ \A d \in calls : d.id = c.id => d = c
         /\ c.kind # "run" => c.of # 0 /\ (c.of = res.id => c.sql = res.sql)
BY RowEditAssumption DEF IInv, TypeOK, IdsInv, ModeInv, Continues, CallType

\* Every call that is left continues one that was there.
LEMMA CallsContinue ==
  ASSUME IInv, calls' \subseteq CallType, UNCHANGED issued, res' \in ResType,
         \A d \in calls' : \E c \in calls : Continues(d, c),
         \A d, e \in calls' : d.id = e.id => d = e,
         (res'.id = res.id /\ res'.sql = res.sql) \/ res'.id = 0
  PROVE  CallsFit
<1>1. issued \in Ids /\ issued <= issued
  BY RowEditAssumption DEF IInv, TypeOK, Ids
<1>2. CallsOf(calls', {})
  BY <1>1 DEF CallsOf
<1>3. ResultOf(calls')
  BY DEF ResultOf
<1> QED BY <1>2, <1>3, CallsKept DEF CallsFit

LEMMA CallMoves ==
  ASSUME IInv, NEW c \in calls, NEW d \in CallType, Continues(d, c), Advance(c, d),
         UNCHANGED issued, res' \in ResType,
         (res'.id = res.id /\ res'.sql = res.sql) \/ res'.id = 0
  PROVE  CallsFit
<1>1. calls' = (calls \ {c}) \cup {d} /\ calls \subseteq CallType
  BY DEF Advance, IInv, TypeOK
<1>2. calls' \subseteq CallType /\ \A e \in calls' : \E b \in calls : Continues(e, b)
  BY <1>1 DEF Continues
<1>3. \A e, b \in calls' : e.id = b.id => e = b
  <2>1. \A e, b \in calls : e.id = b.id => e = b
    BY DEF IInv, IdsInv
  <2>2. d.id = c.id
    BY DEF Continues
  <2> QED BY <1>1, <2>1, <2>2
<1> QED BY <1>2, <1>3, CallsContinue

LEMMA CallsLeave ==
  ASSUME IInv, calls' \subseteq calls, UNCHANGED issued, res' \in ResType,
         (res'.id = res.id /\ res'.sql = res.sql) \/ res'.id = 0
  PROVE  CallsFit
<1>1. calls' \subseteq CallType /\ \A e \in calls' : \E b \in calls : Continues(e, b)
  BY DEF IInv, TypeOK, Continues
<1>2. \A e, b \in calls' : e.id = b.id => e = b
  BY DEF IInv, IdsInv
<1> QED BY <1>1, <1>2, CallsContinue

LEMMA CallIssued ==
  ASSUME IInv, NEW old, NEW x \in CallType, calls' = old \cup {x}, old \subseteq CallType,
         \A d \in old : \E c \in calls : Continues(d, c),
         \A d, e \in old : d.id = e.id => d = e,
         issued < MaxCalls, issued' = issued + 1, x.id = issued + 1,
         x.of \in {res.id, res'.id} \/ \E c \in calls : c.of = x.of,
         x.kind # "run" => x.of # 0 /\ (x.of = res'.id => x.sql = res'.sql),
         res' \in ResType, (res'.id = res.id /\ res'.sql = res.sql) \/ res'.id = 0
  PROVE  CallsFit
<1>1. issued \in Nat /\ issued' \in Ids /\ issued < issued' /\ issued <= issued' /\ issued' <= issued'
  BY RowEditAssumption DEF IInv, TypeOK, Ids
<1>2. /\ issued < x.id /\ x.id <= issued'
      /\ \A d \in {x} : d = x
      /\ {x} \subseteq CallType
  BY <1>1
<1>3. CallsOf(old, {x})
  BY <1>1, <1>2 DEF CallsOf
<1>4. ResultOf(old)
  BY DEF ResultOf
<1> QED BY <1>3, <1>4, CallsKept DEF CallsFit

\* A step that leaves the table, the drafts and the values typed alone.
LEMMA CalmStep ==
  ASSUME IInv, CallsFit, Fits(res'), UNCHANGED <<open, db, inserted, typed>>,
         res' \in ResType, form' \in {form, NoForm}, pending' \in Actions,
         shown' \in [Rows -> Values], cache' \in [id : Ids, rows : [Rows -> Values]],
         issued' \in Ids,
         gaps \subseteq gaps', gaps' \subseteq gaps \cup {"reread", "warned", "dropped", "overtaken", "misplaced"},
         \A d \in calls' : d.kind = "insert" =>
           \E c \in calls : /\ c.kind = "insert" /\ c.id = d.id /\ c.row = d.row
                            /\ c.value = d.value /\ c.step = d.step,
         form' = NoForm \/
           \A c \in calls : c.kind = "insert" /\ c.step = "done" =>
             \E d \in calls' : d.kind = "insert" /\ d.step = "done" /\ d.value = c.value
  PROVE  IInv'
<1>1. /\ typed \in Values /\ typed \in Nat /\ form \in FormType
      /\ (form.modified => form.row # NoRow) /\ (~open => form = NoForm)
  BY RowEditAssumption DEF IInv, TypeOK, DraftInv, Values
<1>2. typed' \in Values /\ typed <= typed' /\ (~open' => form' = NoForm)
  BY <1>1
<1>3. form' \in FormType /\ (form'.modified => form'.row # NoRow)
  BY <1>1, FormFacts
<1>4. TypeOK'
  BY <1>3, CalmTypes DEF CallsFit
<1>5. ASSUME form'.row = Draft
      PROVE  /\ form'.row = form.row /\ form'.value = form.value
             /\ \A c \in calls : c.kind = "insert" /\ c.step = "done" =>
                  \E d \in calls' : d.kind = "insert" /\ d.step = "done" /\ d.value = c.value
  <2>1. form' # NoForm
    BY <1>5, FormFacts
  <2> QED BY <2>1
<1>6. DraftInv'
  BY <1>2, <1>5, DraftsKept
<1> QED BY <1>4, <1>6 DEF CallsFit, Fits, ModeInv, IInv

\* What a calm step does not touch.
LEMMA Kept ==
  ASSUME IInv
  PROVE  /\ res \in ResType /\ form \in FormType /\ pending \in Actions /\ Fits(res)
         /\ shown \in [Rows -> Values] /\ cache \in [id : Ids, rows : [Rows -> Values]]
         /\ issued \in Ids /\ issued \in Nat /\ db \in [Rows -> Values] /\ "none" \in Actions
         /\ calls \subseteq CallType /\ (~open => form = NoForm)
BY RowEditAssumption DEF IInv, TypeOK, Fits, ModeInv, DraftInv, Actions, Ids

----------
(* One lemma per action: runs and refreshes. *)

LEMMA ReadsTablePreserves ==
  ASSUME IInv, NEW c \in calls, ReadsTable(c)
  PROVE  IInv'
<1> DEFINE d == [c EXCEPT !.step = "done", !.rows = db]
<1>1. c.kind \in {"run", "refresh"} /\ Advance(c, d)
      /\ UNCHANGED <<open, res, form, pending, shown, cache, db, inserted, issued, typed, gaps>>
  BY DEF ReadsTable
<1>2. c \in CallType
  BY CallFits
<1>3. d \in CallType /\ Continues(d, c) /\ d.kind = c.kind
  BY <1>2, Kept DEF CallType, Continues, Steps
<1> HIDE DEF d
<1>4. CallsFit
  BY <1>1, <1>3, CallMoves, Kept
<1>5. calls' = (calls \ {c}) \cup {d}
  BY <1>1 DEF Advance
<1> QED BY <1>1, <1>3, <1>4, <1>5, Kept, CalmStep

LEMMA StoresRowsPreserves ==
  ASSUME IInv, NEW c \in calls, StoresRows(c)
  PROVE  IInv'
<1> DEFINE d == [c EXCEPT !.step = "stored"]
<1>1. /\ c.kind \in {"run", "refresh"} /\ Advance(c, d)
      /\ cache' = [id |-> c.id, rows |-> c.rows]
      /\ gaps \subseteq gaps' /\ gaps' \subseteq gaps \cup {"reread"}
      /\ UNCHANGED <<open, res, form, pending, shown, db, inserted, issued, typed>>
  BY DEF StoresRows
<1>2. c \in CallType
  BY CallFits
<1>3. d \in CallType /\ Continues(d, c) /\ d.kind = c.kind
  BY <1>2 DEF CallType, Continues, Steps
<1>4. cache' \in [id : Ids, rows : [Rows -> Values]]
  BY <1>1, <1>2, RowEditAssumption DEF CallType, Ids
<1> HIDE DEF d
<1>5. CallsFit
  BY <1>1, <1>3, CallMoves, Kept
<1>6. calls' = (calls \ {c}) \cup {d}
  BY <1>1 DEF Advance
<1> QED BY <1>1, <1>3, <1>4, <1>5, <1>6, Kept, CalmStep

\* The answer to a tab that is gone.
LEMMA DroppedPreserves ==
  ASSUME IInv, NEW c \in calls, ~open, Dropped(c), UNCHANGED <<open, shown, cache, db, inserted, typed, gaps>>
  PROVE  IInv'
<1>1. calls' = calls \ {c} /\ UNCHANGED <<res, form, pending, issued>>
  BY DEF Dropped, Settle
<1>2. CallsFit
  BY <1>1, CallsLeave, Kept
<1>3. form' = NoForm
  BY <1>1, Kept
<1> QED BY <1>1, <1>2, <1>3, Kept, CalmStep

LEMMA RunReplyPreserves ==
  ASSUME IInv, NEW c \in calls, RunReply(c)
  PROVE  IInv'
<1>1. CASE open
  <2> DEFINE r == [Cleared(res) EXCEPT !.id = c.id, !.sql = c.sql, !.analyzing = TRUE]
  <2>1. /\ c.kind = "run" /\ Ends(c, r, NoForm, {Analysis(c.id, c.sql, "none")})
        /\ shown' = c.rows /\ UNCHANGED <<open, cache, db, inserted, typed>>
        /\ gaps \subseteq gaps' /\ gaps' \subseteq gaps \cup {"overtaken"}
    BY <1>1 DEF RunReply
  <2>2. c \in CallType /\ c.id \in Ids /\ c.id # 0
    BY CallFits, RowEditAssumption DEF CallType, Ids
  <2>3. r \in ResType /\ r.id = c.id /\ r.sql = c.sql /\ Fits(r)
    BY <2>2, Kept, ClearedFacts DEF ResType, CallType, Fits
  <2>4. shown' \in [Rows -> Values]
    BY <2>1, <2>2 DEF CallType
  <2> HIDE DEF r
  <2> QED BY <1>1, <2>1, <2>2, <2>3, <2>4, EndPreserves
<1>2. CASE ~open
  <2>1. Dropped(c) /\ UNCHANGED <<open, shown, cache, db, inserted, typed, gaps>>
    BY <1>2 DEF RunReply
  <2> QED BY <1>2, <2>1, DroppedPreserves
<1> QED BY <1>1, <1>2

LEMMA RunFailedPreserves ==
  ASSUME IInv, NEW c \in calls, RunFailed(c)
  PROVE  IInv'
<1>1. CASE open
  <2> DEFINE r == [Cleared(res) EXCEPT !.id = 0, !.sql = 0]
  <2>1. /\ c.kind = "run" /\ Ends(c, r, NoForm, {})
        /\ UNCHANGED <<open, shown, cache, db, inserted, typed, gaps>>
    BY <1>1 DEF RunFailed
  <2>2. r \in ResType /\ r.id = 0 /\ Fits(r)
    BY Kept, ClearedFacts, FormFacts DEF ResType, Fits
  <2> HIDE DEF r
  <2> QED BY <1>1, <2>1, <2>2, Kept, EndPreserves
<1>2. CASE ~open
  BY <1>2, DroppedPreserves DEF RunFailed
<1> QED BY <1>1, <1>2

LEMMA RefreshReplyPreserves ==
  ASSUME IInv, NEW c \in calls, RefreshReply(c)
  PROVE  IInv'
<1>0. c.kind = "refresh" /\ UNCHANGED <<open, cache, db, inserted, typed>>
      /\ gaps' = gaps \cup (IF open /\ res.id # c.of THEN {"dropped"} ELSE {})
  BY DEF RefreshReply
<1>1. CASE open /\ res.id = c.of
  <2> DEFINE r == [res EXCEPT !.id = c.id, !.stale = FALSE, !.saveError = FALSE,
                              !.analyzing = TRUE]
  <2>1. Ends(c, r, form, {Analysis(c.id, c.sql, "none")}) /\ shown' = c.rows
    BY <1>1 DEF RefreshReply
  <2>2. c \in CallType /\ c.id \in Ids /\ c.id # 0 /\ c.sql = res.sql
    BY <1>0, <1>1, CallFits, RowEditAssumption DEF CallType, Ids
  <2>3. r \in ResType /\ r.id = c.id /\ r.sql = c.sql /\ Fits(r)
    BY <2>2, Kept DEF ResType, Fits
  <2>4. shown' \in [Rows -> Values]
    BY <2>1, <2>2 DEF CallType
  <2>5. gaps' = gaps
    BY <1>0, <1>1
  <2> HIDE DEF r
  <2> QED BY <1>0, <1>1, <2>1, <2>2, <2>3, <2>4, <2>5, EndPreserves
<1>2. CASE open /\ res.id # c.of
  <2>1. Ends(c, res, form, {}) /\ UNCHANGED shown
    BY <1>2 DEF RefreshReply
  <2> QED BY <1>0, <1>2, <2>1, Kept, EndPreserves
<1>3. CASE ~open
  <2>1. Dropped(c) /\ UNCHANGED shown /\ UNCHANGED gaps
    BY <1>0, <1>3 DEF RefreshReply
  <2> QED BY <1>0, <1>3, <2>1, DroppedPreserves
<1> QED BY <1>1, <1>2, <1>3

LEMMA RefreshFailedPreserves ==
  ASSUME IInv, NEW c \in calls, RefreshFailed(c)
  PROVE  IInv'
<1>1. CASE open
  <2> DEFINE r == [res EXCEPT !.stale = TRUE]
  <2>1. /\ c.kind = "refresh" /\ Ends(c, r, form, {})
        /\ UNCHANGED <<open, shown, cache, db, inserted, typed, gaps>>
    BY <1>1 DEF RefreshFailed
  <2>2. r \in ResType /\ r.id = res.id /\ r.sql = res.sql /\ Fits(r)
    BY Kept DEF ResType, Fits
  <2> HIDE DEF r
  <2> QED BY <1>1, <2>1, <2>2, Kept, EndPreserves
<1>2. CASE ~open
  BY <1>2, DroppedPreserves DEF RefreshFailed
<1> QED BY <1>1, <1>2

----------
(* Analysis and edit mode. *)

LEMMA AnalysisReplyPreserves ==
  ASSUME IInv, NEW c \in calls, NEW ok \in BOOLEAN, NEW newest \in BOOLEAN,
         AnalysisReply(c, ok, newest)
  PROVE  IInv'
<1>1. /\ c.kind = "analyze" /\ calls' = calls \ {c}
      /\ UNCHANGED <<open, pending, shown, cache, db, inserted, issued, typed, gaps>>
  BY DEF AnalysisReply, Settle
<1>2. /\ c \in CallType /\ (c.of = res.id => c.sql = res.sql) /\ c.of # 0
  BY <1>1, CallFits
<1>3. res' \in ResType /\ res'.id = res.id /\ res'.sql = res.sql /\ Fits(res')
      /\ form' \in {form, NoForm}
  <2>1. CASE ~open
    BY <2>1, Kept DEF AnalysisReply
  <2>2. CASE open /\ res.id # c.of
    <3>1. res' = [res EXCEPT !.analyzing = @ /\ ~newest] /\ form' = form
      BY <2>2 DEF AnalysisReply
    <3> QED BY <3>1, Kept DEF ResType, Fits
  <2>3. CASE open /\ res.id = c.of /\ ok
    <3>1. /\ res' = [res EXCEPT !.meta = c.sql, !.analyzing = FALSE,
                                !.mode = @ \/ c.then = "mode",
                                !.saveError = @ /\ c.then # "mode"]
          /\ form' \in {form, NoForm}
      BY <2>3 DEF AnalysisReply
    <3>2. c.sql \in Ids /\ c.sql = res.sql /\ res.id # 0
      BY <1>2, <2>3 DEF CallType
    <3> QED BY <3>1, <3>2, Kept DEF ResType, Fits
  <2>4. CASE open /\ res.id = c.of /\ ~ok
    <3>1. res' = [res EXCEPT !.analyzing = FALSE] /\ form' = form
      BY <2>4 DEF AnalysisReply
    <3> QED BY <3>1, Kept DEF ResType, Fits
  <2> QED BY <2>1, <2>2, <2>3, <2>4
<1>4. CallsFit
  BY <1>1, <1>3, CallsLeave
<1> QED BY <1>1, <1>3, <1>4, Kept, CalmStep

\* A step of the user that touches no call.
LEMMA QuietStep ==
  ASSUME IInv, UNCHANGED <<open, shown, cache, db, inserted, calls, issued, typed, gaps>>,
         res' \in ResType, Fits(res'), (res'.id = res.id /\ res'.sql = res.sql) \/ res'.id = 0,
         form' \in {form, NoForm}, pending' \in Actions
  PROVE  IInv'
<1>1. CallsFit
  BY CallsLeave
<1> QED BY <1>1, Kept, CalmStep

LEMMA SetEditModePreserves ==
  ASSUME IInv, SetEditMode
  PROVE  IInv'
<1>0. /\ open /\ res.id # 0 /\ UNCHANGED <<open, pending, shown, cache, db, inserted, typed, gaps>>
  BY DEF SetEditMode
<1>1. CASE res.meta # 0
  <2>1. res' = EnterMode /\ form' = NoForm /\ UNCHANGED <<calls, issued>>
    BY <1>1 DEF SetEditMode
  <2>2. res' \in ResType /\ res'.id = res.id /\ res'.sql = res.sql /\ Fits(res')
    BY <1>1, <2>1, Kept DEF EnterMode, ResType, Fits
  <2> QED BY <1>0, <2>1, <2>2, Kept, QuietStep
<1>2. CASE res.meta = 0
  <2> DEFINE x == Analysis(res.id, res.sql, "mode")
  <2>1. /\ issued < MaxCalls /\ issued' = issued + 1 /\ calls' = calls \cup {x}
        /\ res' = [res EXCEPT !.analyzing = TRUE] /\ UNCHANGED form
    BY <1>2 DEF SetEditMode, Issue
  <2>2. res' \in ResType /\ res'.id = res.id /\ res'.sql = res.sql /\ Fits(res')
    BY <2>1, Kept DEF ResType, Fits
  <2>3. res.id \in Ids /\ res.sql \in Ids /\ res \in ResType /\ issued \in Ids
    BY Kept DEF ResType
  <2>4. x = Analysis(res.id, res.sql, "mode")
    OBVIOUS
  <2> HIDE DEF x
  <2>5. x \in CallType /\ x.kind = "analyze" /\ x.id = issued + 1 /\ x.of = res.id /\ x.sql = res.sql
    <3> DEFINE i == res.id
               s == res.sql
               n == "mode"
    <3>1. i \in Ids /\ s \in Ids /\ n \in {"none", "mode"}
      BY <2>3
    <3>2. x = Analysis(i, s, n)
      BY <2>4
    <3> HIDE DEF i, s, n
    <3>3. x \in CallType /\ x.kind = "analyze" /\ x.id = issued + 1 /\ x.of = i /\ x.sql = s
      BY <2>1, <2>3, <3>1, <3>2, AnalysisFacts
    <3> QED BY <3>3 DEF i, s
  <2>6. /\ calls \subseteq CallType
        /\ \A d \in calls : \E b \in calls : Continues(d, b)
        /\ \A d, e \in calls : d.id = e.id => d = e
    BY Kept, CallFits
  <2>7. CallsFit
    BY <1>0, <2>1, <2>2, <2>5, <2>6, CallIssued
  <2>8. issued' \in Ids
    BY <2>1, Kept, RowEditAssumption DEF Ids
  <2> QED BY <1>0, <2>1, <2>2, <2>5, <2>7, <2>8, Kept, CalmStep
<1> QED BY <1>1, <1>2

LEMMA LeaveEditModePreserves ==
  ASSUME IInv, LeaveEditMode
  PROVE  IInv'
<1>1. /\ res' = [res EXCEPT !.mode = FALSE, !.analyzing = FALSE, !.saveError = FALSE,
                            !.stale = FALSE]
      /\ form' = NoForm
      /\ UNCHANGED <<open, pending, shown, cache, db, inserted, calls, issued, typed, gaps>>
  BY DEF LeaveEditMode
<1>2. res' \in ResType /\ res'.id = res.id /\ res'.sql = res.sql /\ Fits(res')
  BY <1>1, Kept DEF ResType, Fits
<1> QED BY <1>1, <1>2, Kept, QuietStep

----------
(* The form. *)

\* Typing changes the form, the values typed and flags of the result only.
LEMMA TypingStep ==
  ASSUME IInv, open, UNCHANGED <<open, pending, shown, cache, db, inserted, calls, issued, gaps>>,
         res' \in ResType, Fits(res'), res'.id = res.id, res'.sql = res.sql,
         form' \in FormType, form'.modified => form'.row # NoRow,
         typed' \in Values, typed <= typed',
         \/ form'.row # Draft
         \/ form'.value = typed + 1 /\ typed' = typed + 1
  PROVE  IInv'
<1>1. CallsFit
  BY CallsLeave
<1>2. TypeOK'
  BY <1>1 DEF IInv, TypeOK, CallsFit
<1>3. DraftInv'
  BY DraftsKept
<1> QED BY <1>1, <1>2, <1>3 DEF CallsFit, Fits, ModeInv, IInv

LEMMA TypedFacts ==
  ASSUME IInv
  PROVE  /\ typed \in Values /\ typed \in Nat /\ typed <= typed
         /\ typed < MaxTyped => typed + 1 \in Values /\ typed <= typed + 1
BY RowEditAssumption DEF IInv, TypeOK, Values

LEMMA StartEditingRowPreserves ==
  ASSUME IInv, NEW r \in Rows, StartEditingRow(r)
  PROVE  IInv'
<1>1. /\ open /\ form' = [row |-> r, value |-> shown[r], modified |-> FALSE, of |-> res.id]
      /\ res' = [res EXCEPT !.saveError = FALSE]
      /\ UNCHANGED <<open, pending, shown, cache, db, inserted, calls, issued, typed, gaps>>
  BY DEF StartEditingRow, Typing
<1>2. res' \in ResType /\ res'.id = res.id /\ res'.sql = res.sql /\ Fits(res')
  BY <1>1, Kept DEF ResType, Fits
<1>3. form' \in FormType /\ ~form'.modified /\ form'.row # Draft
  BY <1>1, Kept, RowsAssumption DEF FormType, ResType
<1> QED BY <1>1, <1>2, <1>3, TypedFacts, TypingStep

LEMMA UpdateCellValuePreserves ==
  ASSUME IInv, UpdateCellValue
  PROVE  IInv'
<1>1. /\ open /\ form.row # NoRow /\ typed < MaxTyped /\ typed' = typed + 1
      /\ form' = [form EXCEPT !.value = typed + 1, !.modified = TRUE]
      /\ res' = [res EXCEPT !.saveError = FALSE]
      /\ UNCHANGED <<open, pending, shown, cache, db, inserted, calls, issued, gaps>>
  BY DEF UpdateCellValue, Typing
<1>2. res' \in ResType /\ res'.id = res.id /\ res'.sql = res.sql /\ Fits(res')
  BY <1>1, Kept DEF ResType, Fits
<1>3. form' \in FormType /\ form'.row # NoRow /\ form'.value = typed + 1
  BY <1>1, Kept, TypedFacts DEF FormType
<1> QED BY <1>1, <1>2, <1>3, TypedFacts, TypingStep

LEMMA CloneSelectedRowPreserves ==
  ASSUME IInv, CloneSelectedRow
  PROVE  IInv'
<1>1. /\ open /\ typed < MaxTyped /\ typed' = typed + 1
      /\ form' = [row |-> Draft, value |-> typed + 1, modified |-> TRUE, of |-> res.id]
      /\ res' = [res EXCEPT !.saveError = FALSE, !.stale = FALSE]
      /\ UNCHANGED <<open, pending, shown, cache, db, inserted, calls, issued, gaps>>
  BY DEF CloneSelectedRow, Typing
<1>2. res' \in ResType /\ res'.id = res.id /\ res'.sql = res.sql /\ Fits(res')
  BY <1>1, Kept DEF ResType, Fits
<1>3. form' \in FormType /\ form'.row # NoRow /\ form'.value = typed + 1
  BY <1>1, Kept, TypedFacts, FormFacts DEF FormType, ResType
<1> QED BY <1>1, <1>2, <1>3, TypedFacts, TypingStep

LEMMA DiscardCurrentRowPreserves ==
  ASSUME IInv, DiscardCurrentRow
  PROVE  IInv'
<1>1. /\ form' = NoForm /\ res' = [res EXCEPT !.saveError = FALSE]
      /\ UNCHANGED <<open, pending, shown, cache, db, inserted, calls, issued, typed, gaps>>
  BY DEF DiscardCurrentRow
<1>2. res' \in ResType /\ res'.id = res.id /\ res'.sql = res.sql /\ Fits(res')
  BY <1>1, Kept DEF ResType, Fits
<1> QED BY <1>1, <1>2, Kept, QuietStep

----------
(* Saving. *)

LEMMA SaveModifiedPreserves ==
  ASSUME IInv, open, NEW then \in {"none", "nav"}, form.row # NoRow, res.mode, SaveModified(then),
         UNCHANGED <<open, pending, shown, cache, db, inserted, typed>>
  PROVE  IInv'
<1>0. PICK at \in Addressed :
        Issue([Call(IF form.row = Draft THEN "insert" ELSE "update", form.row, form.value, then)
                 EXCEPT !.at = at])
  BY DEF SaveModified
<1>at. at \in Rows \cup {Draft, NoRow}
  BY Kept DEF Addressed, FormType
<1> DEFINE kind == IF form.row = Draft THEN "insert" ELSE "update"
           x == [Call(kind, form.row, form.value, then) EXCEPT !.at = at]
<1>1. /\ issued < MaxCalls /\ issued' = issued + 1 /\ calls' = calls \cup {x}
      /\ gaps' = gaps \cup (IF \E c \in Saves : c.row = form.row THEN {"resaved"} ELSE {})
      /\ UNCHANGED <<res, form>>
  BY <1>0 DEF SaveModified, Issue
<1>2. /\ form.row \in Rows \cup {Draft, NoRow} /\ form.value \in Values
      /\ kind \in {"run", "refresh", "analyze", "update", "sync", "insert"}
      /\ then \in {"none", "nav", "orphan", "mode"}
  BY Kept DEF FormType
<1>3. x = [Call(kind, form.row, form.value, then) EXCEPT !.at = at]
  OBVIOUS
<1>4. kind = "insert" <=> form.row = Draft
  OBVIOUS
<1>5. kind \in {"insert", "update"}
  OBVIOUS
<1> HIDE DEF kind, x
<1>6. /\ x \in CallType /\ x.kind = kind /\ x.id = issued + 1 /\ x.of = res.id
      /\ x.sql = res.sql /\ x.row = form.row /\ x.value = form.value /\ x.step = "sent"
  <2> DEFINE row == form.row
             value == form.value
  <2>1. row \in Rows \cup {Draft, NoRow} /\ value \in Values /\ x = [Call(kind, row, value, then) EXCEPT !.at = at]
    BY <1>2, <1>3
  <2> HIDE DEF row, value
  <2>2. /\ x \in CallType /\ x.kind = kind /\ x.id = issued + 1 /\ x.of = res.id
        /\ x.sql = res.sql /\ x.row = row /\ x.value = value /\ x.step = "sent"
    <3>1. res \in ResType /\ issued \in Ids /\ issued < MaxCalls
      BY <1>1, Kept
    <3>2. kind \in {"run", "refresh", "analyze", "update", "sync", "insert"}
      BY <1>2
    <3>3. then \in {"none", "nav", "orphan", "mode"}
      BY <1>2
    <3>4. issued + 1 \in 1 .. MaxCalls /\ [r \in Rows |-> 0] \in [Rows -> Values]
      BY <3>1, RowEditAssumption, FormFacts DEF Ids
    <3>5. x = [kind |-> kind, id |-> issued + 1, of |-> res.id, sql |-> res.sql, row |-> row,
               at |-> at, value |-> value, step |-> "sent", rows |-> [r \in Rows |-> 0],
               then |-> then]
      BY <2>1 DEF Call
    <3> DEFINE nothing == [r \in Rows |-> 0]
               id == issued + 1
    <3>6. x = [kind |-> kind, id |-> id, of |-> res.id, sql |-> res.sql, row |-> row,
               at |-> at, value |-> value, step |-> "sent", rows |-> nothing, then |-> then]
      BY <3>5
    <3>7. id \in 1 .. MaxCalls /\ nothing \in [Rows -> Values] /\ res.id \in Ids /\ res.sql \in Ids
      BY <3>1, <3>4 DEF ResType
    <3> HIDE DEF nothing, id
    <3>8. /\ x.kind = kind /\ x.id = id /\ x.of = res.id
          /\ x.sql = res.sql /\ x.row = row /\ x.value = value /\ x.step = "sent"
      BY <3>6
    <3>9. x \in CallType
      <4>1. row \in Rows \cup {Draft, NoRow} /\ value \in Values
        BY <2>1
      <4>2. \A k \in {"run", "refresh", "analyze", "update", "sync", "insert"} :
              \A t \in {"none", "nav", "orphan", "mode"} :
                [kind |-> k, id |-> id, of |-> res.id, sql |-> res.sql, row |-> row,
                 at |-> at, value |-> value, step |-> "sent", rows |-> nothing, then |-> t]
                  \in CallType
        BY <1>at, <3>7, <4>1 DEF CallType, Steps
      <4> QED BY <3>2, <3>3, <3>6, <4>2
    <3> QED BY <3>8, <3>9 DEF id
  <2> QED BY <2>2 DEF row, value
<1>7. res.id # 0
  BY Kept DEF Fits
<1>8. CallsFit
  <2>1. /\ calls \subseteq CallType
        /\ \A d \in calls : \E b \in calls : Continues(d, b)
        /\ \A d, e \in calls : d.id = e.id => d = e
    BY Kept, CallFits
  <2> QED BY <1>1, <1>6, <1>7, <2>1, Kept, CallIssued
<1>9. issued' \in Ids
  BY <1>1, Kept, RowEditAssumption DEF Ids
<1>10. gaps' \subseteq {"reread", "resaved", "warned", "dropped", "overtaken", "misplaced"}
  BY <1>1 DEF IInv, TypeOK
<1>11. TypeOK'
  BY <1>1, <1>8, <1>9, <1>10 DEF IInv, TypeOK, CallsFit
<1>12. DraftInv'
  <2>1. /\ form.row = Draft => form.value <= typed
        /\ \A c \in calls : c.kind = "insert" => c.row = Draft /\ c.value <= typed
        /\ \A v \in Values : inserted[v] # 0 => v <= typed
        /\ "resaved" \notin gaps => OneInsert
    BY DEF IInv, DraftInv
  <2>2. \A c \in calls' : c.kind = "insert" => c.row = Draft /\ c.value <= typed
    BY <1>1, <1>4, <1>6, <2>1
  <2>3. ASSUME "resaved" \notin gaps'
        PROVE  OneInsert'
    <3>1. OneInsert /\ ~\E c \in Saves : c.row = form.row
      BY <1>1, <2>1, <2>3
    <3>2. form.row = Draft => \A c \in calls : c.kind # "insert"
      BY <2>1, <3>1 DEF Saves
    <3>3. form.row = Draft => inserted[form.value] = 0
      BY <3>1, <3>2 DEF OneInsert
    <3>4. \A c, d \in calls' : c.kind = "insert" /\ d.kind = "insert" => c.id = d.id
      BY <1>1, <1>4, <1>6, <3>1, <3>2 DEF OneInsert
    <3>5. \A c \in calls' : c.kind = "insert" /\ c.step = "sent" => inserted'[c.value] = 0
      BY <1>1, <1>4, <1>6, <3>1, <3>3 DEF OneInsert
    <3> QED BY <1>1, <3>1, <3>3, <3>4, <3>5 DEF OneInsert
  <2> QED BY <1>1, <2>1, <2>2, <2>3, Kept DEF DraftInv
<1>13. ModeInv'
  BY <1>1, <1>8, Kept DEF CallsFit, Fits, ModeInv
<1> QED BY <1>8, <1>11, <1>12, <1>13 DEF CallsFit, IInv

LEMMA SaveCurrentRowPreserves ==
  ASSUME IInv, SaveCurrentRow
  PROVE  IInv'
<1>0. /\ open /\ res.mode /\ form.row # NoRow
      /\ UNCHANGED <<open, pending, shown, cache, db, inserted, typed>>
  BY DEF SaveCurrentRow
<1>1. CASE form.modified
  BY <1>0, <1>1, SaveModifiedPreserves DEF SaveCurrentRow
<1>2. CASE ~form.modified
  <2>1. /\ form' = NoForm /\ res' = [res EXCEPT !.saveError = FALSE]
        /\ UNCHANGED <<calls, issued, gaps>>
    BY <1>2 DEF SaveCurrentRow
  <2>2. res' \in ResType /\ res'.id = res.id /\ res'.sql = res.sql /\ Fits(res')
    BY <2>1, Kept DEF ResType, Fits
  <2> QED BY <1>0, <2>1, <2>2, Kept, QuietStep
<1> QED BY <1>1, <1>2

LEMMA WritesTablePreserves ==
  ASSUME IInv, NEW c \in calls, WritesTable(c)
  PROVE  IInv'
<1> DEFINE d == [c EXCEPT !.step = "done"]
<1>1. /\ c.kind \in {"update", "insert"} /\ c.step = "sent" /\ Advance(c, d)
      /\ UNCHANGED <<open, res, form, pending, shown, cache, issued, typed, gaps>>
  BY DEF WritesTable
<1>2. c \in CallType /\ c.value \in Values
  BY CallFits DEF CallType
<1>3. /\ d \in CallType /\ Continues(d, c) /\ d.kind = c.kind /\ d.row = c.row
      /\ d.value = c.value /\ d.step = "done" /\ d.id = c.id
  BY <1>2 DEF CallType, Continues, Steps
<1>4. \/ c.kind = "update" /\ db' = [db EXCEPT ![c.row] = c.value] /\ UNCHANGED inserted
      \/ c.kind = "insert" /\ inserted' = [inserted EXCEPT ![c.value] = @ + 1] /\ UNCHANGED db
  BY <1>1 DEF WritesTable
<1> HIDE DEF d
<1>5. CallsFit
  BY <1>1, <1>3, CallMoves, Kept
<1>6. calls' = (calls \ {c}) \cup {d}
  BY <1>1 DEF Advance
<1>7. inserted \in [Values -> Nat] /\ db \in [Rows -> Values]
  BY DEF IInv, TypeOK
<1>8. inserted' \in [Values -> Nat] /\ db' \in [Rows -> Values]
  BY <1>2, <1>4, <1>7
<1>9. TypeOK'
  BY <1>1, <1>5, <1>8 DEF IInv, TypeOK, CallsFit
<1>10. ModeInv'
  BY <1>1, <1>5, Kept DEF CallsFit, Fits, ModeInv
<1>11. DraftInv'
  <2>1. CASE c.kind = "update"
    <3>1. \A e \in calls' : e.kind = "insert" => e \in calls
      BY <1>3, <1>6, <2>1
    <3>2. \A e \in calls : e.kind = "insert" => e \in calls'
      BY <1>6, <2>1
    <3>3. UNCHANGED inserted
      BY <1>4, <2>1
    <3> QED BY <1>1, <3>1, <3>2, <3>3, TypedFacts, Kept, DraftsKept
  <2>2. CASE c.kind = "insert"
    <3>1. inserted' = [inserted EXCEPT ![c.value] = @ + 1]
      BY <1>4, <2>2
    <3>2. /\ form.row = Draft => form.value <= typed
          /\ \A e \in calls : e.kind = "insert" => e.row = Draft /\ e.value <= typed
          /\ \A v \in Values : inserted[v] # 0 => v <= typed
          /\ "resaved" \notin gaps => OneInsert
          /\ ~open => form = NoForm
      BY DEF IInv, DraftInv
    <3>3. \A e \in calls' : e.kind = "insert" => e.row = Draft /\ e.value <= typed
      BY <1>3, <1>6, <2>2, <3>2
    <3>4. \A v \in Values : inserted'[v] # 0 => v <= typed
      BY <1>7, <2>2, <3>1, <3>2
    <3>5. ASSUME OneInsert
          PROVE  OneInsert'
      <4>1. /\ \A e, b \in calls : e.kind = "insert" /\ b.kind = "insert" => e.id = b.id
            /\ inserted[c.value] = 0
            /\ form.row = Draft /\ inserted[form.value] # 0 =>
                 \E e \in calls : e.kind = "insert" /\ e.step = "done" /\ e.value = form.value
            /\ \A v \in Values : inserted[v] <= 1
        BY <1>1, <2>2, <3>5 DEF OneInsert
      <4>2. \A e \in calls' : e.kind = "insert" => e = d
        BY <1>6, <2>2, <4>1, CallFits
      <4>3. \A e, b \in calls' : e.kind = "insert" /\ b.kind = "insert" => e.id = b.id
        BY <4>2
      <4>4. \A e \in calls' : e.kind = "insert" => e.step # "sent"
        BY <1>3, <4>2
      <4>5. \A v \in Values : inserted'[v] <= 1
        BY <1>7, <3>1, <4>1
      <4>6. ASSUME form.row = Draft, inserted'[form.value] # 0
            PROVE  \E e \in calls' : e.kind = "insert" /\ e.step = "done" /\ e.value = form.value
        <5>1. form.value \in Values
          BY Kept DEF FormType
        <5>2. CASE form.value = c.value
          BY <1>3, <1>6, <2>2, <5>2
        <5>3. CASE form.value # c.value
          <6>1. inserted[form.value] # 0
            BY <1>7, <3>1, <4>6, <5>1, <5>3
          <6>2. PICK e \in calls : e.kind = "insert" /\ e.step = "done"
            BY <4>1, <4>6, <6>1
          <6>3. e.id = c.id
            BY <2>2, <4>1, <6>2
          <6>4. e = c
            BY <6>3, CallFits
          <6> QED BY <1>1, <6>2, <6>4
        <5> QED BY <5>2, <5>3
      <4> QED BY <1>1, <4>3, <4>4, <4>5, <4>6 DEF OneInsert
    <3> QED BY <1>1, <3>2, <3>3, <3>4, <3>5 DEF DraftInv
  <2> QED BY <1>1, <2>1, <2>2
<1> QED BY <1>5, <1>9, <1>10, <1>11 DEF CallsFit, IInv

LEMMA WriteFailedPreserves ==
  ASSUME IInv, NEW c \in calls, WriteFailed(c)
  PROVE  IInv'
<1>1. CASE open
  <2> DEFINE r == [res EXCEPT !.saveError = TRUE]
  <2>1. /\ c.step = "sent" /\ Ends(c, r, form, {})
        /\ UNCHANGED <<open, shown, cache, db, inserted, typed, gaps>>
    BY <1>1 DEF WriteFailed
  <2>2. r \in ResType /\ r.id = res.id /\ r.sql = res.sql /\ Fits(r)
    BY Kept DEF ResType, Fits
  <2> HIDE DEF r
  <2> QED BY <1>1, <2>1, <2>2, Kept, EndPreserves
<1>2. CASE ~open
  BY <1>2, DroppedPreserves DEF WriteFailed
<1> QED BY <1>1, <1>2

LEMMA UpdateReplyPreserves ==
  ASSUME IInv, NEW c \in calls, UpdateReply(c)
  PROVE  IInv'
<1>1. /\ c.kind = "update"
      /\ UNCHANGED <<open, res, form, pending, shown, cache, db, inserted, issued, typed, gaps>>
  BY DEF UpdateReply
<1>2. CASE open
  <2> DEFINE d == [c EXCEPT !.kind = "sync", !.step = "sent"]
  <2>1. Advance(c, d)
    BY <1>2 DEF UpdateReply
  <2>2. c \in CallType
    BY CallFits
  <2>3. d \in CallType /\ Continues(d, c) /\ d.kind = "sync"
    BY <1>1, <2>2 DEF CallType, Continues, Steps
  <2> HIDE DEF d
  <2>4. CallsFit
    BY <1>1, <2>1, <2>3, CallMoves, Kept
  <2>5. calls' = (calls \ {c}) \cup {d}
    BY <2>1 DEF Advance
  <2> QED BY <1>1, <2>3, <2>4, <2>5, Kept, CalmStep
<1>3. CASE ~open
  <2>1. calls' = calls \ {c}
    BY <1>3 DEF UpdateReply, Settle
  <2>2. CallsFit
    BY <1>1, <2>1, CallsLeave, Kept
  <2> QED BY <1>1, <2>1, <2>2, Kept, CalmStep
<1> QED BY <1>2, <1>3

\* The sync of the backend's row ends, one way or another.
LEMMA SyncStep ==
  ASSUME IInv, NEW c \in calls, c.kind = "sync", NEW s \in Steps,
         Advance(c, [c EXCEPT !.step = s]), cache' \in [id : Ids, rows : [Rows -> Values]],
         gaps \subseteq gaps', gaps' \subseteq gaps \cup {"reread", "warned", "dropped", "overtaken", "misplaced"},
         UNCHANGED <<open, res, form, pending, shown, db, inserted, issued, typed>>
  PROVE  IInv'
<1> DEFINE d == [c EXCEPT !.step = s]
<1>1. c \in CallType
  BY CallFits
<1>2. d \in CallType /\ Continues(d, c) /\ d.kind = "sync" /\ Advance(c, d)
  BY <1>1 DEF CallType, Continues
<1> HIDE DEF d
<1>3. CallsFit
  BY <1>2, CallMoves, Kept
<1>4. calls' = (calls \ {c}) \cup {d}
  BY <1>2 DEF Advance
<1> QED BY <1>2, <1>3, <1>4, Kept, CalmStep

LEMMA PatchedFacts ==
  ASSUME IInv, NEW c \in calls, NEW rows \in [Rows -> Values]
  PROVE  /\ Patched(rows, c) \in [Rows -> Values]
         /\ \A r \in Rows : Patched(rows, c)[r] = IF r = c.at THEN c.value ELSE rows[r]
<1>1. c.value \in Values
  BY CallFits DEF CallType
<1> QED BY <1>1 DEF Patched

LEMMA SyncsCachePreserves ==
  ASSUME IInv, NEW c \in calls, SyncsCache(c)
  PROVE  IInv'
<1>1. /\ c.kind = "sync" /\ "stored" \in Steps /\ "done" \in Steps
      /\ UNCHANGED <<open, res, form, pending, shown, db, inserted, issued, typed>>
  BY DEF SyncsCache, Steps
<1>2. CASE cache.id = c.of
  <2>1. /\ cache' = [cache EXCEPT !.rows = Patched(@, c)]
        /\ Advance(c, [c EXCEPT !.step = "stored"])
        /\ gaps \subseteq gaps' /\ gaps' \subseteq gaps \cup {"misplaced"}
    BY <1>2 DEF SyncsCache
  <2>2. Patched(cache.rows, c) \in [Rows -> Values]
    BY PatchedFacts, Kept
  <2>3. cache' \in [id : Ids, rows : [Rows -> Values]]
    BY <2>1, <2>2, Kept
  <2> QED BY <1>1, <2>1, <2>3, SyncStep
<1>3. CASE cache.id # c.of
  <2>1. /\ UNCHANGED cache /\ Advance(c, [c EXCEPT !.step = "done"])
        /\ gaps \subseteq gaps' /\ gaps' \subseteq gaps \cup {"reread"}
    BY <1>3 DEF SyncsCache
  <2> QED BY <1>1, <2>1, Kept, SyncStep
<1> QED BY <1>2, <1>3

LEMMA SyncFailsPreserves ==
  ASSUME IInv, NEW c \in calls, SyncFails(c)
  PROVE  IInv'
<1>1. /\ c.kind = "sync" /\ "stored" \in Steps /\ Advance(c, [c EXCEPT !.step = "stored"])
      /\ gaps' = gaps \cup {"warned"}
      /\ UNCHANGED <<open, res, form, pending, shown, cache, db, inserted, issued, typed>>
  BY DEF SyncFails, Steps
<1> QED BY <1>1, Kept, SyncStep

LEMMA SavedFacts ==
  ASSUME IInv
  PROVE  Saved \in ResType /\ Saved.id = res.id /\ Saved.sql = res.sql /\ Fits(Saved)
BY Kept DEF Saved, ResType, Fits

LEMMA SyncReplyPreserves ==
  ASSUME IInv, NEW c \in calls, SyncReply(c)
  PROVE  IInv'
<1>1. CASE open
  <2>1. /\ Ends(c, Saved, NoForm, {})
        /\ shown' = IF c.step = "stored" /\ res.id = c.of
                    THEN Patched(shown, c) ELSE shown
        /\ UNCHANGED <<open, cache, db, inserted, typed, gaps>>
    BY <1>1 DEF SyncReply
  <2>2. Patched(shown, c) \in [Rows -> Values]
    BY PatchedFacts, Kept
  <2>3. shown' \in [Rows -> Values]
    BY <2>1, <2>2, Kept
  <2> QED BY <1>1, <2>1, <2>3, SavedFacts, EndPreserves
<1>2. CASE ~open
  BY <1>2, DroppedPreserves DEF SyncReply
<1> QED BY <1>1, <1>2

LEMMA InsertReplyPreserves ==
  ASSUME IInv, NEW c \in calls, InsertReply(c)
  PROVE  IInv'
<1>0. /\ c.kind = "insert"
      /\ UNCHANGED <<open, pending, shown, cache, db, inserted, typed, gaps>>
  BY DEF InsertReply
<1>1. CASE open
  <2> DEFINE d == [c EXCEPT !.kind = "refresh", !.step = "sent", !.id = issued + 1]
             old == calls \ {c}
  <2>1. /\ res' = Saved /\ form' = NoForm /\ issued < MaxCalls /\ issued' = issued + 1
        /\ calls' = old \cup {d}
    BY <1>1 DEF InsertReply, Advance
  <2>2. c \in CallType /\ c.of # 0 /\ (c.of = res.id => c.sql = res.sql)
    BY <1>0, CallFits
  <2>3. issued + 1 \in 1 .. MaxCalls /\ issued' \in Ids
    BY <2>1, Kept, RowEditAssumption DEF Ids
  <2>4. d \in CallType /\ d.kind = "refresh" /\ d.id = issued + 1 /\ d.of = c.of /\ d.sql = c.sql
    BY <2>2, <2>3 DEF CallType, Steps
  <2>5. /\ old \subseteq CallType /\ \A e \in old : \E b \in calls : Continues(e, b)
        /\ \A e, b \in old : e.id = b.id => e = b
    BY Kept, CallFits
  <2>6. \A e \in old : e \in calls
    OBVIOUS
  <2> HIDE DEF d, old
  <2>7. CallsFit
    BY <2>1, <2>2, <2>4, <2>5, SavedFacts, CallIssued
  <2>8. \A e \in calls' : e.kind = "insert" => e \in calls
    BY <2>1, <2>4, <2>6
  <2> QED BY <1>0, <2>1, <2>3, <2>7, <2>8, SavedFacts, Kept, CalmStep
<1>2. CASE ~open
  <2>1. calls' = calls \ {c} /\ UNCHANGED <<res, form, issued>>
    BY <1>2 DEF InsertReply, Settle
  <2>2. Dropped(c)
    BY <1>0, <2>1 DEF Dropped, Settle
  <2> QED BY <1>0, <1>2, <2>2, DroppedPreserves
<1> QED BY <1>1, <1>2

----------
(* Navigation. *)

\* A run starts while old calls continue.
LEMMA RunStarts ==
  ASSUME IInv, NEW old, old \subseteq CallType,
         \A d \in old : \E c \in calls : /\ Continues(d, c) /\ d.kind = c.kind /\ d.row = c.row
                                         /\ d.value = c.value /\ d.step = c.step,
         \A d, e \in old : d.id = e.id => d = e,
         issued < MaxCalls, issued' = issued + 1, calls' = old \cup {RunCall(issued + 1)},
         res' = Cleared(res), form' = NoForm, pending' \in Actions,
         UNCHANGED <<open, shown, cache, db, inserted, typed, gaps>>
  PROVE  IInv'
<1> DEFINE x == RunCall(issued + 1)
<1>1. issued + 1 \in 1 .. MaxCalls /\ issued' \in Ids
  BY Kept, RowEditAssumption DEF Ids
<1>2. x \in CallType /\ x.kind = "run" /\ x.id = issued + 1 /\ x.of = res.id
  <2>1. res \in ResType
    BY Kept
  <2> QED BY <1>1, <2>1, RunCallFacts
<1>3. calls' = old \cup {x}
  OBVIOUS
<1> HIDE DEF x
<1>4. res' \in ResType /\ res'.id = res.id /\ res'.sql = res.sql /\ Fits(res')
  BY Kept, ClearedFacts DEF Fits
<1>5. CallsFit
  <2>1. \A d \in old : \E c \in calls : Continues(d, c)
    OBVIOUS
  <2> QED BY <1>2, <1>3, <1>4, <2>1, CallIssued
<1>6. \A d \in calls' : d.kind = "insert" => d \in old
  BY <1>2, <1>3
<1>7. \A d \in calls' : d.kind = "insert" =>
        \E c \in calls : /\ c.kind = "insert" /\ c.id = d.id /\ c.row = d.row
                         /\ c.value = d.value /\ c.step = d.step
  BY <1>6 DEF Continues
<1> QED BY <1>1, <1>4, <1>5, <1>7, Kept, CalmStep

LEMMA RequestNavigationPreserves ==
  ASSUME IInv, NEW action \in Actions, RequestNavigationAction(action)
  PROVE  IInv'
<1>0. open /\ UNCHANGED <<open, shown, cache, db, inserted, typed, gaps>>
  BY DEF RequestNavigationAction
<1>1. CASE form.modified
  <2>1. pending' = action /\ UNCHANGED <<res, form, calls, issued>>
    BY <1>1 DEF RequestNavigationAction
  <2> QED BY <1>0, <2>1, Kept, QuietStep
<1>2. CASE ~form.modified /\ action = "run"
  <2>1. UNCHANGED pending /\ ExecuteQuery
    BY <1>2 DEF RequestNavigationAction
  <2>2. /\ issued < MaxCalls /\ issued' = issued + 1 /\ calls' = calls \cup {RunCall(issued + 1)}
        /\ res' = Cleared(res) /\ form' = NoForm
    BY <2>1 DEF ExecuteQuery, Issue
  <2>3. /\ calls \subseteq CallType /\ \A d, e \in calls : d.id = e.id => d = e
        /\ \A d \in calls : Continues(d, d)
    BY Kept, CallFits
  <2> QED BY <1>0, <2>1, <2>2, <2>3, Kept, RunStarts
<1>3. CASE ~form.modified /\ action # "run"
  <2>1. UNCHANGED pending /\ form' = NoForm /\ UNCHANGED <<res, calls, issued>>
    BY <1>3 DEF RequestNavigationAction
  <2> QED BY <1>0, <2>1, Kept, QuietStep
<1> QED BY <1>1, <1>2, <1>3

LEMMA ConfirmBySavingPreserves ==
  ASSUME IInv, ConfirmBySaving
  PROVE  IInv'
<1>1. /\ open /\ res.mode /\ form.modified /\ SaveModified("nav")
      /\ UNCHANGED <<open, pending, shown, cache, db, inserted, typed>>
  BY DEF ConfirmBySaving
<1>2. form.row # NoRow
  BY <1>1 DEF IInv, TypeOK
<1>3. "nav" \in {"none", "nav"}
  OBVIOUS
<1> QED BY <1>1, <1>2, <1>3, SaveModifiedPreserves

\* The calls when a dialog closes.
LEMMA OrphansFit ==
  ASSUME IInv, NEW T, T = Orphaned(calls)
  PROVE  /\ T \subseteq CallType
         /\ \A d \in T : \E c \in calls : /\ Continues(d, c) /\ d.kind = c.kind /\ d.row = c.row
                                        /\ d.value = c.value /\ d.step = c.step
         /\ \A d \in T : d.kind = "insert" =>
              \E c \in calls : /\ c.kind = "insert" /\ c.id = d.id /\ c.row = d.row
                               /\ c.value = d.value /\ c.step = d.step
         /\ \A c \in calls : \E d \in T : d.kind = c.kind /\ d.value = c.value /\ d.step = c.step
         /\ \A d, e \in T : d.id = e.id => d = e
<1>1. Twins(T, calls)
  BY OrphanedFacts
<1> QED BY <1>1 DEF Twins, Twin, Continues

LEMMA ConfirmByDiscardingPreserves ==
  ASSUME IInv, ConfirmByDiscarding
  PROVE  IInv'
<1>0. /\ pending' = "none" /\ form' = NoForm
      /\ UNCHANGED <<open, shown, cache, db, inserted, typed, gaps>>
  BY DEF ConfirmByDiscarding
<1>1. CASE pending = "run" /\ ~Running
  <2>1. /\ issued < MaxCalls /\ issued' = issued + 1
        /\ calls' = Orphaned(calls) \cup {RunCall(issued + 1)} /\ res' = Cleared(res)
    BY <1>1 DEF ConfirmByDiscarding
  <2> DEFINE T == Orphaned(calls)
  <2>2. T = Orphaned(calls) /\ calls' = T \cup {RunCall(issued + 1)}
    BY <2>1
  <2> HIDE DEF T
  <2>3. /\ T \subseteq CallType /\ \A d, e \in T : d.id = e.id => d = e
        /\ \A d \in T : \E c \in calls : /\ Continues(d, c) /\ d.kind = c.kind /\ d.row = c.row
                                       /\ d.value = c.value /\ d.step = c.step
    BY <2>2, OrphansFit
  <2> QED BY <1>0, <2>1, <2>2, <2>3, Kept, RunStarts
<1>2. CASE ~(pending = "run" /\ ~Running)
  <2>1. calls' = Orphaned(calls) /\ res' = [res EXCEPT !.saveError = FALSE] /\ UNCHANGED issued
    BY <1>2 DEF ConfirmByDiscarding
  <2>2. res' \in ResType /\ res'.id = res.id /\ res'.sql = res.sql /\ Fits(res')
    BY <2>1, Kept DEF ResType, Fits
  <2>3. CallsFit
    BY <2>1, <2>2, OrphansFit, CallsContinue
  <2>4. \A d \in calls' : d.kind = "insert" =>
          \E c \in calls : /\ c.kind = "insert" /\ c.id = d.id /\ c.row = d.row
                           /\ c.value = d.value /\ c.step = d.step
    BY <2>1, OrphansFit
  <2> QED BY <1>0, <2>1, <2>2, <2>3, <2>4, Kept, CalmStep
<1> QED BY <1>1, <1>2

LEMMA CancelNavigationPreserves ==
  ASSUME IInv, CancelNavigation
  PROVE  IInv'
<1>1. /\ pending' = "none" /\ calls' = Orphaned(calls)
      /\ UNCHANGED <<open, res, form, shown, cache, db, inserted, issued, typed, gaps>>
  BY DEF CancelNavigation
<1>2. CallsFit
  BY <1>1, Kept, OrphansFit, CallsContinue
<1>3. /\ \A d \in calls' : d.kind = "insert" =>
           \E c \in calls : /\ c.kind = "insert" /\ c.id = d.id /\ c.row = d.row
                            /\ c.value = d.value /\ c.step = d.step
      /\ \A c \in calls : c.kind = "insert" /\ c.step = "done" =>
           \E d \in calls' : d.kind = "insert" /\ d.step = "done" /\ d.value = c.value
  BY <1>1, OrphansFit
<1> QED BY <1>1, <1>2, <1>3, Kept, CalmStep

LEMMA CloseTabPreserves ==
  ASSUME IInv, CloseTab
  PROVE  IInv'
<1>1. /\ open' = FALSE /\ pending' = "none" /\ form' = NoForm
      /\ res' = [Cleared(res) EXCEPT !.id = 0, !.sql = 0]
      /\ UNCHANGED <<shown, cache, db, inserted, calls, issued, typed, gaps>>
  BY DEF CloseTab
<1>2. res' \in ResType /\ res'.id = 0 /\ Fits(res')
  BY <1>1, Kept, ClearedFacts, FormFacts DEF ResType, Fits
<1>3. CallsFit
  BY <1>1, <1>2, CallsLeave
<1>4. TypeOK'
  BY <1>1, <1>2, <1>3, FormFacts DEF IInv, TypeOK, CallsFit, Actions
<1>5. DraftInv'
  BY <1>1, FormFacts, TypedFacts, DraftsKept
<1> QED BY <1>2, <1>3, <1>4, <1>5 DEF CallsFit, Fits, ModeInv, IInv

----------
(* The invariant, and what it says. *)

LEMMA InitIInv == Init => IInv
<1> SUFFICES ASSUME Init PROVE IInv
  OBVIOUS
<1>1. /\ 0 \in Ids /\ 0 \in Values /\ NoForm \in FormType /\ NoForm.row = NoRow
      /\ ~NoForm.modified /\ Draft # NoRow
  BY FormFacts
<1>2. /\ res.id = 1 /\ res.sql = 1 /\ res.meta = 1 /\ ~res.mode /\ res \in ResType
      /\ issued = 1 /\ issued \in Ids /\ cache \in [id : Ids, rows : [Rows -> Values]]
  BY <1>1, RowEditAssumption DEF Init, ResType, Ids
<1>3. inserted \in [Values -> Nat] /\ \A v \in Values : inserted[v] = 0
  BY DEF Init
<1>4. TypeOK
  BY <1>1, <1>2, <1>3 DEF Init, TypeOK, Actions
<1>5. IdsInv /\ ModeInv
  BY <1>2 DEF Init, IdsInv, ModeInv
<1>6. DraftInv
  BY <1>1, <1>3 DEF Init, DraftInv, OneInsert
<1> QED BY <1>4, <1>5, <1>6 DEF IInv

LEMMA NextIInv == IInv /\ [Next]_vars => IInv'
<1> SUFFICES ASSUME IInv, [Next]_vars PROVE IInv'
  OBVIOUS
<1>1. CASE Backend
  <2>1. PICK c \in calls : \/ ReadsTable(c) \/ StoresRows(c) \/ WritesTable(c)
                           \/ SyncsCache(c) \/ SyncFails(c)
    BY <1>1 DEF Backend
  <2> QED BY <2>1, ReadsTablePreserves, StoresRowsPreserves, WritesTablePreserves,
             SyncsCachePreserves, SyncFailsPreserves
<1>2. CASE Reply
  <2>1. PICK c \in calls :
          \/ RunReply(c) \/ RunFailed(c) \/ RefreshReply(c) \/ RefreshFailed(c)
          \/ \E ok, newest \in BOOLEAN : AnalysisReply(c, ok, newest)
          \/ WriteFailed(c) \/ UpdateReply(c) \/ SyncReply(c) \/ InsertReply(c)
    BY <1>2 DEF Reply
  <2> QED BY <2>1, RunReplyPreserves, RunFailedPreserves, RefreshReplyPreserves,
             RefreshFailedPreserves, AnalysisReplyPreserves, WriteFailedPreserves,
             UpdateReplyPreserves, SyncReplyPreserves, InsertReplyPreserves
<1>3. CASE User
  BY <1>3, SetEditModePreserves, LeaveEditModePreserves, StartEditingRowPreserves,
     UpdateCellValuePreserves, CloneSelectedRowPreserves, DiscardCurrentRowPreserves,
     SaveCurrentRowPreserves, RequestNavigationPreserves, ConfirmBySavingPreserves,
     ConfirmByDiscardingPreserves, CancelNavigationPreserves, CloseTabPreserves DEF User
<1>4. CASE UNCHANGED vars
  BY <1>4 DEF vars, IInv, TypeOK, IdsInv, ModeInv, DraftInv, OneInsert
<1> QED BY <1>1, <1>2, <1>3, <1>4 DEF Next

THEOREM InductiveInvariant == Spec => []IInv
BY InitIInv, NextIInv, PTL DEF Spec

\* The edit belongs to the result on screen and is written once: edit mode is on only with
\* the metadata of the result's own statement (analyzeResultForEdit's answer may come after
\* the result was replaced), and a cloned row is inserted once unless Save was pressed again
\* while the insert was in flight (saveCurrentRow).
THEOREM EditIsSafe == Spec => []EditInv
<1>1. IInv => EditInv
  <2> SUFFICES ASSUME IInv PROVE EditInv
    OBVIOUS
  <2>1. ASSUME "resaved" \notin gaps PROVE \A v \in Values : inserted[v] <= 1
    BY <2>1 DEF IInv, DraftInv, OneInsert
  <2>2. EditModeFitsResult
    BY DEF IInv, ModeInv, EditModeFitsResult
  <2> QED BY <2>1, <2>2 DEF EditInv, InsertedOnce, IInv
<1> QED BY <1>1, InductiveInvariant, PTL

----------
(* The three copies of a row. What follows is kept by every step that keeps *)
(* IInv.                                                                    *)

Reader(c)  == c.kind \in {"run", "refresh"}
Written(c) == c.kind = "sync" \/ (c.kind = "update" /\ c.step = "done")
Due(c)     == (c.kind = "update" /\ c.step = "done") \/ (c.kind = "sync" /\ c.step = "sent")
Patches(c) == c.kind = "sync" /\ c.step = "stored"
Coming     == \E c \in calls : Reader(c) /\ c.id = cache.id
Missed     == gaps \cap {"dropped", "overtaken"} # {}

\* While the dialog saves, the action stays pending and the form is what is being saved.
NavInv ==
  open => \A c \in calls : c.then = "nav" =>
    /\ pending # "none" /\ c.kind \in {"update", "sync", "insert", "refresh"}
    /\ form.modified => c.kind # "refresh" /\ form.row = c.row /\ form.value = c.value

\* Saves are of rows of the table; unless Save was pressed twice they are of different
\* rows, and what they wrote is still there.
SavesInv ==
  /\ \A c \in calls : c.kind \in {"update", "sync"} => c.row \in Rows
  /\ "resaved" \notin gaps =>
       /\ \A c, d \in Saves : c.row = d.row => c = d
       /\ \A c \in calls : Written(c) => db[c.row] = c.value

\* Runs and refreshes store their rows in the order they were issued; a run whose rows were
\* replaced waits for its answer together with the newer one, or comes too late.
ReadersInv ==
  /\ cache.id <= issued
  /\ \A c \in calls : Reader(c) =>
       /\ c.of < c.id
       /\ c.step = "stored" <=> c.id <= cache.id
       /\ c.step = "done" => \A d \in calls : Reader(d) /\ d.id < c.id => d.step = "stored"
  /\ \A c, d \in calls : c.kind = "run" /\ d.kind = "run" => c = d
  /\ \A c \in calls : open /\ c.kind = "run" /\ c.step = "stored" /\ c.id < cache.id =>
       Coming \/ res.id = cache.id \/ Missed

\* The backend has the rows of the result on screen or of one whose answer is due, the page
\* differs only where its patch is due, and the table only where the copy of a save is due.
CopyInv ==
  /\ open /\ res.id # 0 /\ ~Missed => cache.id = res.id \/ Coming
  /\ gaps \subseteq {"reread"} =>
       /\ \A c \in calls : Reader(c) /\ c.id = cache.id => cache.rows = c.rows
       /\ \A c \in calls : Patches(c) =>
            c.at = c.row /\ (c.of = cache.id => cache.rows[c.row] = c.value)
       /\ open /\ res.id # 0 /\ cache.id = res.id =>
            \A r \in Rows : \/ shown[r] = cache.rows[r]
                            \/ \E c \in calls : Patches(c) /\ c.of = res.id /\ c.row = r
  /\ open /\ gaps \cap {"reread", "resaved", "warned", "misplaced"} = {} =>
       \A r \in Rows : cache.rows[r] = db[r] \/ \E c \in calls : Due(c) /\ c.row = r

CInv == NavInv /\ SavesInv /\ ReadersInv /\ CopyInv

----------
(* What a step does to the calls, as far as the copies are concerned. *)

\* Call d reads or has read what call c has; it is call c, perhaps a step further.
Reads(d, c) ==
  /\ d.id = c.id /\ d.of = c.of /\ d.row = c.row /\ d.at = c.at /\ d.value = c.value
  /\ Reader(d) <=> Reader(c)
  /\ d.kind = "run" <=> c.kind = "run"
  /\ Reader(c) => (d.step = "stored" <=> c.step = "stored")
  /\ Reader(c) /\ c.step = "stored" => d.rows = c.rows
  /\ Reader(c) /\ d.step = "done" /\ c.step # "done" =>
       \A e \in calls : Reader(e) /\ e.id < c.id => e.step = "stored"

\* And as far as the copy of a save is concerned.
Alike(d, c) == Reads(d, c) /\ (Patches(d) <=> Patches(c)) /\ (Due(c) => Due(d))

Fresh(d) ==
  /\ d.step = "sent" /\ d.kind # "sync" /\ issued < d.id
  /\ Reader(d) => d.of < d.id
  /\ d.kind = "run" => ~Running /\ d.id = issued'

ReadsMove(lost) ==
  /\ \A d \in calls' : (\E c \in calls \ lost : Reads(d, c)) \/ Fresh(d)
  /\ \A c \in calls \ lost : \E d \in calls' : Reads(d, c)
  /\ issued <= issued'

CallsMove(lost) ==
  /\ \A d \in calls' : (\E c \in calls \ lost : Alike(d, c)) \/ Fresh(d)
  /\ \A c \in calls \ lost : \E d \in calls' : Alike(d, c)
  /\ issued <= issued'

SaveKinds == {"update", "sync", "insert"}

SavesMove ==
  \A d \in calls' : d.kind \in SaveKinds =>
    \E c \in calls : /\ c.kind \in SaveKinds /\ d.id = c.id /\ d.row = c.row /\ d.value = c.value
                     /\ d.kind # "insert" => c.kind # "insert"
                     /\ Written(d) => Written(c)

NavMove ==
  /\ open' => open
  /\ form' = form \/ ~form'.modified \/ pending = "none"
  /\ \A d \in calls' : d.then = "nav" /\ open' =>
       /\ pending' = pending \/ pending = "none"
       /\ \E c \in calls :
            /\ c.then = "nav" /\ d.row = c.row /\ d.value = c.value
            /\ \/ d.kind = c.kind
               \/ c.kind = "update" /\ d.kind = "sync"
               \/ c.kind = "insert" /\ d.kind = "refresh" /\ ~form'.modified

LEMMA NavKept ==
  ASSUME NavInv, NavMove
  PROVE  NavInv'
<1> SUFFICES ASSUME open', NEW d \in calls', d.then = "nav"
             PROVE  /\ pending' # "none" /\ d.kind \in {"update", "sync", "insert", "refresh"}
                    /\ form'.modified =>
                         d.kind # "refresh" /\ form'.row = d.row /\ form'.value = d.value
  BY DEF NavInv
<1>1. /\ open /\ (pending' = pending \/ pending = "none")
      /\ form' = form \/ ~form'.modified \/ pending = "none"
  BY DEF NavMove
<1>2. PICK c \in calls : /\ c.then = "nav" /\ d.row = c.row /\ d.value = c.value
                         /\ \/ d.kind = c.kind
                            \/ c.kind = "update" /\ d.kind = "sync"
                            \/ c.kind = "insert" /\ d.kind = "refresh" /\ ~form'.modified
  BY DEF NavMove
<1>3. /\ pending # "none" /\ c.kind \in {"update", "sync", "insert", "refresh"}
      /\ form.modified => c.kind # "refresh" /\ form.row = c.row /\ form.value = c.value
  BY <1>1, <1>2 DEF NavInv
<1> QED BY <1>1, <1>2, <1>3

LEMMA SavesKept ==
  ASSUME SavesInv, IInv', SavesMove, UNCHANGED db, gaps \subseteq gaps'
  PROVE  SavesInv'
<1>1. \A c, d \in calls' : c.id = d.id => c = d
  BY DEF IInv, IdsInv
<1>2. \A d \in calls' : d.kind \in {"update", "sync"} => d.row \in Rows
  BY DEF SavesInv, SavesMove, SaveKinds
<1>3. ASSUME "resaved" \notin gaps', NEW c \in Saves', NEW d \in Saves', c.row = d.row
      PROVE  c = d
  <2>1. /\ \A a, b \in Saves : a.row = b.row => a = b
        /\ c \in calls' /\ c.kind \in SaveKinds /\ d \in calls' /\ d.kind \in SaveKinds
    BY <1>3 DEF SavesInv, Saves, SaveKinds
  <2>2. PICK a \in calls : a.kind \in SaveKinds /\ c.id = a.id /\ c.row = a.row
    BY <2>1 DEF SavesMove
  <2>3. PICK b \in calls : b.kind \in SaveKinds /\ d.id = b.id /\ d.row = b.row
    BY <2>1 DEF SavesMove
  <2>4. a \in Saves /\ b \in Saves
    BY <2>2, <2>3 DEF Saves, SaveKinds
  <2>5. a = b
    BY <1>3, <2>1, <2>2, <2>3, <2>4
  <2> QED BY <1>1, <2>1, <2>2, <2>3, <2>5
<1>4. ASSUME "resaved" \notin gaps', NEW d \in calls', Written(d)
      PROVE  db'[d.row] = d.value
  <2>1. d.kind \in SaveKinds
    BY <1>4 DEF Written, SaveKinds
  <2>2. PICK c \in calls : d.row = c.row /\ d.value = c.value /\ Written(c)
    BY <1>4, <2>1 DEF SavesMove
  <2> QED BY <1>4, <2>2 DEF SavesInv
<1> QED BY <1>2, <1>3, <1>4 DEF SavesInv

LEMMA ReaderIds ==
  ASSUME IInv
  PROVE  /\ issued \in Nat /\ cache.id \in Nat /\ res.id \in Nat
         /\ \A c \in calls : c.id \in Nat /\ c.of \in Nat /\ c.step \in Steps
BY RowEditAssumption DEF IInv, TypeOK, Ids, ResType, CallType

LEMMA ReadersKept ==
  ASSUME IInv, IInv', ReadersInv, NEW lost \in SUBSET calls, ReadsMove(lost), cache'.id = cache.id,
         gaps \subseteq gaps', open' => open,
         \A c \in lost : Reader(c) /\ c.id = cache.id =>
           ~open' \/ res'.id = cache.id \/ Missed',
         res'.id = res.id \/ ~open' \/ res.id # cache.id \/ \E c \in lost : c.kind = "run"
  PROVE  ReadersInv' /\ (Coming /\ open' /\ res'.id # cache.id /\ ~Missed' => Coming')
<1>1. /\ issued \in Nat /\ cache.id \in Nat /\ \A c \in calls : c.id \in Nat /\ c.step \in Steps
      /\ issued' \in Nat /\ \A c \in calls' : c.id \in Nat /\ c.of \in Nat /\ c.step \in Steps
  <2>1. /\ issued' \in Nat /\ \A c \in calls' : c.id \in Nat /\ c.of \in Nat /\ c.step \in Steps
    BY RowEditAssumption DEF IInv, TypeOK, Ids, CallType
  <2> QED BY <2>1, ReaderIds
<1>2. /\ cache.id <= issued
      /\ \A c \in calls : Reader(c) =>
           /\ c.of < c.id
           /\ c.step = "stored" <=> c.id <= cache.id
           /\ c.step = "done" => \A d \in calls : Reader(d) /\ d.id < c.id => d.step = "stored"
      /\ \A c, d \in calls : c.kind = "run" /\ d.kind = "run" => c = d
      /\ \A c \in calls : open /\ c.kind = "run" /\ c.step = "stored" /\ c.id < cache.id =>
           Coming \/ res.id = cache.id \/ Missed
  BY DEF ReadersInv
<1>3. /\ \A d \in calls' : (\E c \in calls \ lost : Reads(d, c)) \/ Fresh(d)
      /\ \A c \in calls \ lost : \E d \in calls' : Reads(d, c)
      /\ issued <= issued'
  BY DEF ReadsMove
<1>4. \A c, d \in calls' : c.id = d.id => c = d
  BY DEF IInv, IdsInv
<1>5. \A c \in calls : c.id <= issued
  BY DEF IInv, IdsInv
<1>6. cache'.id <= issued'
  BY <1>1, <1>2, <1>3
<1>7. ASSUME NEW d \in calls', Reader(d)
      PROVE  /\ d.of < d.id
             /\ d.step = "stored" <=> d.id <= cache'.id
             /\ d.step = "done" => \A e \in calls' : Reader(e) /\ e.id < d.id => e.step = "stored"
  <2>1. CASE Fresh(d)
    <3>1. d.step = "sent" /\ issued < d.id /\ d.of < d.id
      BY <1>7, <2>1 DEF Fresh
    <3> QED BY <1>1, <1>2, <3>1
  <2>2. CASE \E c \in calls \ lost : Reads(d, c)
    <3>1. PICK c \in calls : Reads(d, c)
      BY <2>2
    <3>2. /\ d.id = c.id /\ d.of = c.of /\ Reader(c) /\ (d.step = "stored" <=> c.step = "stored")
          /\ d.step = "done" /\ c.step # "done" =>
               \A e \in calls : Reader(e) /\ e.id < c.id => e.step = "stored"
      BY <1>7, <3>1 DEF Reads
    <3>3. ASSUME d.step = "done", NEW e \in calls', Reader(e), e.id < d.id
          PROVE  e.step = "stored"
      <4>1. \A b \in calls : Reader(b) /\ b.id < c.id => b.step = "stored"
        BY <1>2, <3>2, <3>3
      <4>2. ~Fresh(e)
        BY <1>1, <1>5, <3>2, <3>3 DEF Fresh
      <4>3. PICK b \in calls : Reads(e, b)
        BY <1>3, <4>2
      <4>4. Reader(b) /\ b.id = e.id /\ (e.step = "stored" <=> b.step = "stored")
        BY <3>3, <4>3 DEF Reads
      <4> QED BY <3>2, <3>3, <4>1, <4>4
    <3> QED BY <1>2, <3>2, <3>3
  <2> QED BY <1>3, <2>1, <2>2
<1>8. ASSUME NEW c \in calls', NEW d \in calls', c.kind = "run", d.kind = "run"
      PROVE  c = d
  <2>1. CASE Fresh(c) /\ Fresh(d)
    BY <1>4, <1>8, <2>1 DEF Fresh
  <2>2. \A e \in calls' : e.kind = "run" /\ ~Fresh(e) => \E b \in calls : b.kind = "run" /\ b.id = e.id
    BY <1>3 DEF Reads
  <2>3. \A e \in calls' : e.kind = "run" /\ Fresh(e) => \A b \in calls : b.kind # "run"
    BY DEF Fresh, Running
  <2>4. CASE ~Fresh(c) /\ ~Fresh(d)
    BY <1>2, <1>4, <1>8, <2>2, <2>4
  <2> QED BY <1>8, <2>1, <2>2, <2>3, <2>4
<1>9. Coming /\ open' /\ res'.id # cache.id /\ ~Missed' => Coming'
  <2> SUFFICES ASSUME Coming, open', res'.id # cache.id, ~Missed'
               PROVE  Coming'
    OBVIOUS
  <2>1. PICK e \in calls : Reader(e) /\ e.id = cache.id
    BY DEF Coming
  <2>2. PICK d \in calls' : Reads(d, e)
    BY <1>3, <2>1
  <2> QED BY <2>1, <2>2 DEF Coming, Reads, Reader
<1>10. ASSUME NEW d \in calls', open', d.kind = "run", d.step = "stored", d.id < cache'.id
       PROVE  Coming' \/ res'.id = cache'.id \/ Missed'
  <2>1. ~Fresh(d)
    BY <1>10 DEF Fresh
  <2>2. PICK c \in calls \ lost : Reads(d, c)
    BY <1>3, <2>1
  <2>3. c.kind = "run" /\ c.step = "stored" /\ c.id < cache.id
    BY <1>10, <2>2 DEF Reads, Reader
  <2>4. Coming \/ res.id = cache.id \/ Missed
    BY <1>2, <1>10, <2>3
  <2>5. Missed => Missed'
    BY DEF Missed
  <2>6. \A b \in lost : b.kind # "run"
    BY <1>2, <2>2, <2>3
  <2> QED BY <1>9, <1>10, <2>4, <2>5, <2>6
<1>11. ReadersInv'
  BY <1>6, <1>7, <1>8, <1>10 DEF ReadersInv
<1> QED BY <1>9, <1>11

LEMMA MoveReads ==
  ASSUME NEW lost, CallsMove(lost)
  PROVE  ReadsMove(lost)
BY DEF CallsMove, ReadsMove, Alike

\* What is said of the backend's rows, and of the table's.
LEMMA RowsKept ==
  ASSUME IInv, ReadersInv, CopyInv, NEW lost \in SUBSET calls, CallsMove(lost),
         UNCHANGED cache, gaps \subseteq gaps', open' => open,
         \A r \in Rows : db'[r] = db[r] \/ \E d \in calls' : Due(d) /\ d.row = r,
         open' => \A c \in lost : ~Due(c)
  PROVE  /\ gaps' \subseteq {"reread"} =>
              /\ \A c \in calls' : Reader(c) /\ c.id = cache'.id => cache'.rows = c.rows
              /\ \A c \in calls' : Patches(c) =>
                   c.at = c.row /\ (c.of = cache'.id => cache'.rows[c.row] = c.value)
         /\ open' /\ gaps' \cap {"reread", "resaved", "warned", "misplaced"} = {} =>
              \A r \in Rows : cache'.rows[r] = db'[r] \/ \E c \in calls' : Due(c) /\ c.row = r
<1>2. /\ \A d \in calls' : (\E c \in calls \ lost : Alike(d, c)) \/ Fresh(d)
      /\ \A c \in calls \ lost : \E d \in calls' : Alike(d, c)
  BY DEF CallsMove
<1>5. ASSUME gaps' \subseteq {"reread"}, NEW d \in calls', Reader(d), d.id = cache'.id
      PROVE  cache'.rows = d.rows
  <2>1. ~Fresh(d)
    BY <1>5, ReaderIds DEF Fresh, ReadersInv
  <2>2. PICK c \in calls : Alike(d, c)
    BY <1>2, <2>1
  <2>3. Reader(c) /\ c.id = cache.id
    BY <1>5, <2>2 DEF Alike, Reads
  <2>4. c.step = "stored"
    BY <2>3, ReaderIds DEF ReadersInv
  <2> QED BY <1>5, <2>2, <2>3, <2>4 DEF Alike, Reads, CopyInv
<1>6. ASSUME gaps' \subseteq {"reread"}, NEW d \in calls', Patches(d)
      PROVE  d.at = d.row /\ (d.of = cache'.id => cache'.rows[d.row] = d.value)
  <2>1. ~Fresh(d)
    BY <1>6 DEF Fresh, Patches
  <2>2. PICK c \in calls : Alike(d, c)
    BY <1>2, <2>1
  <2> QED BY <1>6, <2>2 DEF Alike, Reads, CopyInv
<1>8. ASSUME open', gaps' \cap {"reread", "resaved", "warned", "misplaced"} = {}, NEW r \in Rows
      PROVE  cache'.rows[r] = db'[r] \/ \E d \in calls' : Due(d) /\ d.row = r
  <2>1. cache.rows[r] = db[r] \/ \E c \in calls : Due(c) /\ c.row = r
    BY <1>8 DEF CopyInv
  <2>2. ASSUME NEW c \in calls, Due(c), c.row = r
        PROVE  \E d \in calls' : Due(d) /\ d.row = r
    <3>1. PICK d \in calls' : Alike(d, c)
      BY <1>2, <1>8, <2>2
    <3> QED BY <2>2, <3>1 DEF Alike, Reads
  <2> QED BY <1>8, <2>1, <2>2
<1> QED BY <1>5, <1>6, <1>8

\* The copies, when none of them changes.
LEMMA CopiesKept ==
  ASSUME IInv, IInv', ReadersInv, CopyInv, NEW lost \in SUBSET calls, CallsMove(lost),
         UNCHANGED <<cache, shown>>, gaps \subseteq gaps', open' => open,
         \A c \in lost : Reader(c) /\ c.id = cache.id =>
           ~open' \/ res'.id = cache.id \/ Missed',
         \/ res'.id = res.id
         \/ ~open'
         \/ res'.id = 0 /\ \E c \in lost : c.kind = "run",
         \A r \in Rows : db'[r] = db[r] \/ \E d \in calls' : Due(d) /\ d.row = r,
         open' => \A c \in lost : ~Patches(c) /\ ~Due(c)
  PROVE  ReadersInv' /\ CopyInv'
<1>1. ReadersInv' /\ (Coming /\ open' /\ res'.id # cache.id /\ ~Missed' => Coming')
  BY MoveReads, ReadersKept
<1>2. /\ \A d \in calls' : (\E c \in calls \ lost : Alike(d, c)) \/ Fresh(d)
      /\ \A c \in calls \ lost : \E d \in calls' : Alike(d, c)
  BY DEF CallsMove
<1>3. open' /\ res'.id # 0 => open /\ res'.id = res.id
  OBVIOUS
<1>4. open' /\ res'.id # 0 /\ ~Missed' => cache'.id = res'.id \/ Coming'
  <2>1. ~Missed' => ~Missed
    BY DEF Missed
  <2> QED BY <1>1, <1>3, <2>1 DEF CopyInv
<1>7. ASSUME gaps' \subseteq {"reread"}, open', res'.id # 0, cache'.id = res'.id, NEW r \in Rows
      PROVE  \/ shown'[r] = cache'.rows[r]
             \/ \E d \in calls' : Patches(d) /\ d.of = res'.id /\ d.row = r
  <2>1. \/ shown[r] = cache.rows[r]
        \/ \E c \in calls : Patches(c) /\ c.of = res.id /\ c.row = r
    BY <1>3, <1>7 DEF CopyInv
  <2>2. ASSUME NEW c \in calls, Patches(c), c.of = res.id, c.row = r
        PROVE  \E d \in calls' : Patches(d) /\ d.of = res'.id /\ d.row = r
    <3>1. PICK d \in calls' : Alike(d, c)
      BY <1>2, <1>7, <2>2
    <3> QED BY <1>3, <1>7, <2>2, <3>1 DEF Alike, Reads
  <2> QED BY <2>1, <2>2
<1>8. /\ gaps' \subseteq {"reread"} =>
           /\ \A c \in calls' : Reader(c) /\ c.id = cache'.id => cache'.rows = c.rows
           /\ \A c \in calls' : Patches(c) =>
                c.at = c.row /\ (c.of = cache'.id => cache'.rows[c.row] = c.value)
      /\ open' /\ gaps' \cap {"reread", "resaved", "warned", "misplaced"} = {} =>
           \A r \in Rows : cache'.rows[r] = db'[r] \/ \E c \in calls' : Due(c) /\ c.row = r
  BY RowsKept
<1> QED BY <1>1, <1>4, <1>7, <1>8 DEF CopyInv

----------
(* How a step's calls come about. *)

LEMMA TwinAlike ==
  ASSUME NEW d, NEW c, Twin(d, c)
  PROVE  Alike(d, c)
BY DEF Twin, Alike, Reads, Reader, Patches, Due

\* Most steps keep some calls, issue new ones, and lose the others.
LEMMA CallsJoin ==
  ASSUME NEW lost \in SUBSET calls, NEW T, NEW F, Twins(T, calls \ lost), calls' = T \cup F,
         \A d \in F : Fresh(d), issued <= issued'
  PROVE  CallsMove(lost)
BY TwinAlike DEF Twins, CallsMove

LEMMA SavesJoin ==
  ASSUME NEW S \in SUBSET calls, NEW T, NEW F, Twins(T, S), calls' = T \cup F,
         \A d \in F : d.kind \notin SaveKinds
  PROVE  SavesMove
<1> SUFFICES ASSUME NEW d \in calls', d.kind \in SaveKinds
             PROVE  \E c \in calls :
                      /\ c.kind \in SaveKinds /\ d.id = c.id /\ d.row = c.row /\ d.value = c.value
                      /\ d.kind # "insert" => c.kind # "insert"
                      /\ Written(d) => Written(c)
  BY DEF SavesMove
<1>1. d \in T
  OBVIOUS
<1>2. PICK c \in S : Twin(d, c)
  BY <1>1 DEF Twins
<1> QED BY <1>2 DEF Twin, Written

LEMMA NavJoin ==
  ASSUME NEW S \in SUBSET calls, NEW T, NEW F, Twins(T, S), calls' = T \cup F,
         \A d \in F : d.then # "nav",
         open' => open, form' = form \/ ~form'.modified \/ pending = "none",
         pending' = pending \/ pending = "none" \/ ~open' \/ \A d \in T : d.then # "nav"
  PROVE  NavMove
<1> SUFFICES ASSUME NEW d \in calls', d.then = "nav", open'
             PROVE  /\ pending' = pending \/ pending = "none"
                    /\ \E c \in calls :
                         /\ c.then = "nav" /\ d.row = c.row /\ d.value = c.value
                         /\ \/ d.kind = c.kind
                            \/ c.kind = "update" /\ d.kind = "sync"
                            \/ c.kind = "insert" /\ d.kind = "refresh" /\ ~form'.modified
  BY DEF NavMove
<1>1. d \in T
  OBVIOUS
<1>2. PICK c \in S : Twin(d, c)
  BY <1>1 DEF Twins
<1> QED BY <1>1, <1>2 DEF Twin

LEMMA RunFresh ==
  ASSUME IInv, issued' \in Nat, issued < issued', ~Running, NEW b, b = RunCall(issued')
  PROVE  Fresh(b) /\ b.kind \notin SaveKinds /\ b.then # "nav"
<1>1. b.kind = "run" /\ b.step = "sent" /\ b.id = issued' /\ b.of = res.id /\ b.then = "none"
  BY DEF RunCall, Call
<1>2. res.id \in Nat /\ issued \in Nat /\ res.id <= issued
  BY ReaderIds DEF IInv, IdsInv
<1> QED BY <1>1, <1>2 DEF Fresh, Reader, SaveKinds

LEMMA AnalysisFresh ==
  ASSUME IInv, NEW of, NEW sql, NEW then \in {"none", "mode"}, NEW a, a = Analysis(of, sql, then)
  PROVE  Fresh(a) /\ a.kind \notin SaveKinds /\ a.then # "nav"
<1>1. a.kind = "analyze" /\ a.step = "sent" /\ a.id = issued + 1 /\ a.then = then
  BY DEF Analysis, Call
<1>2. issued \in Nat
  BY ReaderIds
<1> QED BY <1>1, <1>2 DEF Fresh, Reader, SaveKinds

\* A call ends.
LEMMA EndsMoves ==
  ASSUME IInv, open, UNCHANGED open, NEW c \in calls, NEW r, NEW f, NEW new, Ends(c, r, f, new),
         NEW of, NEW sql, new = {} \/ new = {Analysis(of, sql, "none")},
         f = form \/ f = NoForm
  PROVE  /\ CallsMove({c}) /\ SavesMove /\ NavMove /\ issued' \in Nat
         /\ res' = r \/ res' = Cleared(r)
         /\ Twins(Left(c, r), calls \ {c}) /\ Left(c, r) \subseteq calls'
         /\ pending' = (IF Goes(c, r) THEN "none" ELSE pending)
<1> DEFINE a == Analysis(of, sql, "none")
           T == Left(c, r)
<1>1. a.kind = "analyze" /\ (new = {} \/ new = {a})
  BY DEF Analysis, Call
<1>2. issued \in Nat /\ res \in ResType
  BY Kept
<1>3. Fresh(a) /\ a.kind \notin SaveKinds /\ a.then # "nav"
  BY AnalysisFresh
<1>4. Twins(T, calls \ {c}) /\ (Goes(c, r) => \A d \in T : d.then # "nav")
  BY LeftFacts, OrphanedFacts DEF Left
<1> HIDE DEF a
<1>5. /\ issued' \in Nat /\ pending' = (IF Goes(c, r) THEN "none" ELSE pending)
      /\ \/ /\ calls' = T \cup new /\ res' = r /\ form' = f
            /\ \/ new = {} /\ issued' = issued
               \/ new = {a} /\ issued' = issued + 1
         \/ /\ calls' = T \cup (new \cup {RunCall(issued')})
            /\ res' = Cleared(r) /\ form' = NoForm /\ ~Running
            /\ \/ new = {} /\ issued' = issued + 1
               \/ new = {a} /\ issued' = issued + 2
  BY <1>1, <1>2, EndsFacts
<1> HIDE DEF T
<1>6. \E F : /\ calls' = T \cup F
             /\ \A d \in F : Fresh(d) /\ d.kind \notin SaveKinds /\ d.then # "nav"
  <2>1. CASE calls' = T \cup new
    <3>1. \A d \in new : Fresh(d) /\ d.kind \notin SaveKinds /\ d.then # "nav"
      BY <1>1, <1>3
    <3> QED BY <2>1, <3>1
  <2>2. CASE calls' = T \cup (new \cup {RunCall(issued')}) /\ ~Running /\ issued < issued'
    <3> DEFINE b == RunCall(issued')
               W == new \cup {b}
    <3>1. Fresh(b) /\ b.kind \notin SaveKinds /\ b.then # "nav"
      BY <1>5, <2>2, RunFresh
    <3> HIDE DEF b
    <3>2. \A d \in W : Fresh(d) /\ d.kind \notin SaveKinds /\ d.then # "nav"
      BY <1>1, <1>3, <3>1
    <3>3. calls' = T \cup W
      BY <2>2 DEF b
    <3> HIDE DEF W
    <3> QED BY <3>2, <3>3
  <2>3. issued < issued + 1 /\ issued < issued + 2
    BY <1>2
  <2> QED BY <1>5, <2>1, <2>2, <2>3
<1>7. PICK F : /\ calls' = T \cup F
               /\ \A d \in F : Fresh(d) /\ d.kind \notin SaveKinds /\ d.then # "nav"
  BY <1>6
<1>8. issued <= issued'
  BY <1>2, <1>5
<1>9. ~NoForm.modified
  BY FormFacts
<1>10. CallsMove({c})
  BY <1>4, <1>7, <1>8, CallsJoin
<1>11. SavesMove
  BY <1>4, <1>7, SavesJoin
<1>12. NavMove
  BY <1>4, <1>5, <1>7, <1>9, NavJoin
<1> QED BY <1>4, <1>5, <1>7, <1>10, <1>11, <1>12 DEF T

\* One call moves on, or is settled, or none does.
LEMMA OneMoves ==
  ASSUME IInv, NEW c \in calls, NEW d, calls' = (calls \ {c}) \cup {d}, Alike(d, c), UNCHANGED issued
  PROVE  CallsMove({})
<1>1. \A e \in calls : Twin(e, e)
  BY DEF Twin
<1>2. \A e \in calls : Alike(e, e)
  BY <1>1, TwinAlike
<1> QED BY <1>2, ReaderIds DEF CallsMove

LEMMA SomeLeft ==
  ASSUME IInv, NEW lost \in SUBSET calls, calls' = calls \ lost, UNCHANGED issued
  PROVE  /\ CallsMove(lost) /\ SavesMove
         /\ (open' => open) /\ (form' = form \/ ~form'.modified \/ pending = "none")
              /\ (pending' = pending \/ pending = "none" \/ ~open') => NavMove
<1> DEFINE T == calls \ lost
           F == {}
<1>0. issued <= issued'
  BY ReaderIds
<1>1. /\ Twins(T, calls \ lost) /\ calls' = T \cup F /\ T \in SUBSET calls
      /\ \A d \in F : Fresh(d) /\ d.kind \notin SaveKinds /\ d.then # "nav"
  BY SameAreTwins
<1>5. Twins(T, T)
  BY SameAreTwins
<1> HIDE DEF T, F
<1>2. CallsMove(lost)
  BY <1>0, <1>1, CallsJoin
<1>3. SavesMove
  BY <1>1, <1>5, SavesJoin
<1>4. (open' => open) /\ (form' = form \/ ~form'.modified \/ pending = "none")
        /\ (pending' = pending \/ pending = "none" \/ ~open') => NavMove
  BY <1>1, <1>5, NavJoin
<1> QED BY <1>2, <1>3, <1>4

\* The invariant, for steps that leave the copies alone.
LEMMA QuietKeeps ==
  ASSUME IInv, IInv', CInv, NEW lost \in SUBSET calls, CallsMove(lost), SavesMove, NavMove,
         UNCHANGED <<cache, db, shown>>, gaps \subseteq gaps',
         \A c \in lost : Reader(c) /\ c.id = cache.id =>
           ~open' \/ res'.id = cache.id \/ Missed',
         \/ res'.id = res.id
         \/ ~open'
         \/ res'.id = 0 /\ \E c \in lost : c.kind = "run",
         open' => \A c \in lost : ~Patches(c) /\ ~Due(c)
  PROVE  CInv'
<1>1. NavInv' /\ SavesInv'
  BY NavKept, SavesKept DEF CInv
<1>2. open' => open
  BY DEF NavMove
<1>3. ReadersInv' /\ CopyInv'
  BY <1>2, CopiesKept DEF CInv
<1> QED BY <1>1, <1>3 DEF CInv

\* The same when no call ends or only calls that concern no copy.
LEMMA StillKeeps ==
  ASSUME IInv, IInv', CInv, calls' = calls, UNCHANGED <<issued, cache, db, shown, gaps>>,
         open' => open, form' = form \/ ~form'.modified \/ pending = "none",
         pending' = pending \/ pending = "none" \/ ~open', res'.id = res.id \/ ~open'
  PROVE  CInv'
<1>1. calls' = calls \ {}
  OBVIOUS
<1>2. CallsMove({}) /\ SavesMove /\ NavMove
  BY <1>1, SomeLeft
<1> QED BY <1>2, QuietKeeps

----------
(* One lemma per action: the user. *)

LEMMA SetEditModeKeeps ==
  ASSUME IInv, IInv', CInv, SetEditMode
  PROVE  CInv'
<1>0. /\ open /\ UNCHANGED <<open, pending, shown, cache, db, inserted, typed, gaps>>
  BY DEF SetEditMode
<1>1. CASE res.meta # 0
  <2>1. res'.id = res.id /\ form' = NoForm /\ UNCHANGED <<calls, issued>>
    BY <1>1, Kept DEF SetEditMode, EnterMode, ResType
  <2> QED BY <1>0, <2>1, FormFacts, StillKeeps
<1>2. CASE res.meta = 0
  <2> DEFINE x == Analysis(res.id, res.sql, "mode")
             of == res.id
             sql == res.sql
             then == "mode"
             W == {x}
  <2>1. /\ issued' = issued + 1 /\ calls' = calls \cup W
        /\ res'.id = res.id /\ UNCHANGED form
    BY <1>2, Kept DEF SetEditMode, Issue, ResType
  <2>2. x = Analysis(of, sql, then) /\ then \in {"none", "mode"}
    OBVIOUS
  <2> HIDE DEF x, of, sql, then
  <2>3. Fresh(x) /\ x.kind \notin SaveKinds /\ x.then # "nav"
    BY <2>2, AnalysisFresh
  <2>4. \A d \in W : Fresh(d) /\ d.kind \notin SaveKinds /\ d.then # "nav"
    BY <2>3
  <2>5. Twins(calls, calls \ {}) /\ Twins(calls, calls) /\ issued <= issued'
    BY <2>1, SameAreTwins, ReaderIds
  <2> HIDE DEF W
  <2>6. CallsMove({})
    BY <2>1, <2>4, <2>5, CallsJoin
  <2>7. SavesMove /\ NavMove
    BY <1>0, <2>1, <2>4, <2>5, SavesJoin, NavJoin
  <2> QED BY <1>0, <2>1, <2>6, <2>7, QuietKeeps
<1> QED BY <1>1, <1>2

LEMMA LeaveEditModeKeeps ==
  ASSUME IInv, IInv', CInv, LeaveEditMode
  PROVE  CInv'
<1>1. /\ res'.id = res.id /\ form' = NoForm
      /\ UNCHANGED <<open, pending, shown, cache, db, inserted, calls, issued, typed, gaps>>
  BY Kept DEF LeaveEditMode, ResType
<1> QED BY <1>1, FormFacts, StillKeeps

LEMMA TypingKeeps ==
  ASSUME IInv, IInv', CInv,
         (\E r \in Rows : StartEditingRow(r)) \/ UpdateCellValue \/ CloneSelectedRow
  PROVE  CInv'
<1> DEFINE Still == /\ open /\ pending = "none" /\ res'.id = res.id
                    /\ UNCHANGED <<open, pending, shown, cache, db, inserted, calls, issued, gaps>>
<1>1. Still
  <2>1. ASSUME NEW r \in Rows, StartEditingRow(r)
        PROVE  Still
    BY <2>1, Kept DEF StartEditingRow, Typing, ResType
  <2>2. CASE UpdateCellValue
    BY <2>2, Kept DEF UpdateCellValue, Typing, ResType
  <2>3. CASE CloneSelectedRow
    BY <2>3, Kept DEF CloneSelectedRow, Typing, ResType
  <2> QED BY <2>1, <2>2, <2>3
<1> QED BY <1>1, StillKeeps

LEMMA DiscardCurrentRowKeeps ==
  ASSUME IInv, IInv', CInv, DiscardCurrentRow
  PROVE  CInv'
<1>1. /\ res'.id = res.id /\ form' = NoForm
      /\ UNCHANGED <<open, pending, shown, cache, db, inserted, calls, issued, typed, gaps>>
  BY Kept DEF DiscardCurrentRow, ResType
<1> QED BY <1>1, FormFacts, StillKeeps

LEMMA CloseTabKeeps ==
  ASSUME IInv, IInv', CInv, CloseTab
  PROVE  CInv'
<1>1. /\ open' = FALSE /\ form' = NoForm
      /\ UNCHANGED <<shown, cache, db, inserted, calls, issued, typed, gaps>>
  BY DEF CloseTab
<1> QED BY <1>1, FormFacts, StillKeeps

LEMMA SaveModifiedKeeps ==
  ASSUME IInv, IInv', CInv, open, NEW then \in {"none", "nav"}, form.modified,
         form.row # NoRow, SaveModified(then),
         then = "nav" => pending # "none",
         UNCHANGED <<open, pending, shown, cache, db, inserted, typed>>
  PROVE  CInv'
<1>0. PICK at \in Addressed :
        Issue([Call(IF form.row = Draft THEN "insert" ELSE "update", form.row, form.value, then)
                 EXCEPT !.at = at])
  BY DEF SaveModified
<1> DEFINE kind == IF form.row = Draft THEN "insert" ELSE "update"
           x == [Call(kind, form.row, form.value, then) EXCEPT !.at = at]
           W == {x}
<1>1. /\ issued' = issued + 1 /\ calls' = calls \cup W
      /\ gaps' = gaps \cup (IF \E c \in Saves : c.row = form.row THEN {"resaved"} ELSE {})
      /\ UNCHANGED <<res, form>>
  BY <1>0 DEF SaveModified, Issue
<1>2. /\ x.kind = kind /\ x.id = issued + 1 /\ x.row = form.row /\ x.value = form.value
      /\ x.step = "sent" /\ x.then = then
  BY DEF Call
<1>3. /\ kind \in {"insert", "update"} /\ (kind = "update" => form.row \in Rows)
  BY Kept DEF FormType
<1> HIDE DEF kind, x
<1>4. /\ Fresh(x) /\ ~Written(x) /\ issued <= issued' /\ x.kind \in SaveKinds
  BY <1>1, <1>2, <1>3, ReaderIds DEF Fresh, Reader, Written, SaveKinds
<1>5. \A d \in W : Fresh(d)
  BY <1>4
<1>6. Twins(calls, calls \ {})
  BY SameAreTwins
<1>7. \A d \in W : d = x
  OBVIOUS
<1>8. x \in calls'
  BY <1>1
<1> HIDE DEF W
<1>9. CallsMove({})
  BY <1>1, <1>4, <1>5, <1>6, CallsJoin
<1>10. ReadersInv' /\ CopyInv'
  BY <1>1, <1>9, CopiesKept DEF CInv
<1>11. NavInv'
  BY <1>1, <1>2, <1>3, <1>7 DEF CInv, NavInv
<1>12. SavesInv'
  <2>1. \A c \in calls' : c.kind \in {"update", "sync"} => c.row \in Rows
    BY <1>1, <1>2, <1>3, <1>7 DEF CInv, SavesInv
  <2>2. ASSUME "resaved" \notin gaps'
        PROVE  /\ \A c, d \in Saves' : c.row = d.row => c = d
               /\ \A c \in calls' : Written(c) => db'[c.row] = c.value
    <3>1. /\ \A c, d \in Saves : c.row = d.row => c = d
          /\ \A c \in calls : Written(c) => db[c.row] = c.value
          /\ \A c \in Saves : c.row # form.row
      BY <1>1, <2>2 DEF CInv, SavesInv
    <3>2. \A c \in Saves' : c \in Saves \/ c = x
      BY <1>1, <1>7 DEF Saves
    <3> QED BY <1>1, <1>2, <1>4, <1>7, <3>1, <3>2
  <2> QED BY <2>1, <2>2 DEF SavesInv
<1> QED BY <1>10, <1>11, <1>12 DEF CInv

LEMMA SaveCurrentRowKeeps ==
  ASSUME IInv, IInv', CInv, SaveCurrentRow
  PROVE  CInv'
<1>0. /\ open /\ form.row # NoRow
      /\ UNCHANGED <<open, pending, shown, cache, db, inserted, typed>>
  BY DEF SaveCurrentRow
<1>1. CASE form.modified
  <2>1. SaveModified("none") /\ "none" \in {"none", "nav"} /\ "none" # "nav"
    BY <1>1 DEF SaveCurrentRow
  <2> QED BY <1>0, <1>1, <2>1, SaveModifiedKeeps
<1>2. CASE ~form.modified
  <2>1. form' = NoForm /\ res'.id = res.id /\ UNCHANGED <<calls, issued, gaps>>
    BY <1>2, Kept DEF SaveCurrentRow, ResType
  <2> QED BY <1>0, <2>1, FormFacts, StillKeeps
<1> QED BY <1>1, <1>2

\* A run starts while the calls T, which were S, go on.
LEMMA RunStartKeeps ==
  ASSUME IInv, IInv', CInv, NEW T, Twins(T, calls), ~Running, issued' = issued + 1,
         calls' = T \cup {RunCall(issued + 1)}, res'.id = res.id, form' = NoForm,
         pending' = pending \/ \A d \in T : d.then # "nav",
         UNCHANGED <<open, shown, cache, db, gaps>>
  PROVE  CInv'
<1> DEFINE b == RunCall(issued')
           W == {b}
<1>1. issued' \in Nat /\ issued < issued' /\ issued <= issued'
  BY ReaderIds
<1>2. Fresh(b) /\ b.kind \notin SaveKinds /\ b.then # "nav"
  BY <1>1, RunFresh
<1>3. calls' = T \cup W
  OBVIOUS
<1> HIDE DEF b
<1>4. \A d \in W : Fresh(d) /\ d.kind \notin SaveKinds /\ d.then # "nav"
  BY <1>2
<1> HIDE DEF W
<1>5. Twins(T, calls \ {})
  OBVIOUS
<1>6. CallsMove({})
  BY <1>1, <1>3, <1>4, <1>5, CallsJoin
<1>7. SavesMove /\ NavMove
  BY <1>3, <1>4, FormFacts, SavesJoin, NavJoin
<1> QED BY <1>6, <1>7, QuietKeeps

LEMMA RequestNavigationKeeps ==
  ASSUME IInv, IInv', CInv, NEW action, RequestNavigationAction(action)
  PROVE  CInv'
<1>0. open /\ pending = "none" /\ UNCHANGED <<open, shown, cache, db, inserted, typed, gaps>>
  BY DEF RequestNavigationAction
<1>1. CASE form.modified
  <2>1. UNCHANGED <<res, form, calls, issued>>
    BY <1>1 DEF RequestNavigationAction
  <2> QED BY <1>0, <2>1, StillKeeps
<1>2. CASE ~form.modified /\ action = "run"
  <2>1. UNCHANGED pending /\ ExecuteQuery
    BY <1>2 DEF RequestNavigationAction
  <2>2. /\ ~Running /\ issued' = issued + 1 /\ calls' = calls \cup {RunCall(issued + 1)}
        /\ res'.id = res.id /\ form' = NoForm
    BY <2>1, Kept, ClearedFacts DEF ExecuteQuery, Issue
  <2>3. Twins(calls, calls)
    BY SameAreTwins
  <2> QED BY <1>0, <2>1, <2>2, <2>3, RunStartKeeps
<1>3. CASE ~form.modified /\ action # "run"
  <2>1. UNCHANGED pending /\ form' = NoForm /\ UNCHANGED <<res, calls, issued>>
    BY <1>3 DEF RequestNavigationAction
  <2> QED BY <1>0, <2>1, FormFacts, StillKeeps
<1> QED BY <1>1, <1>2, <1>3

LEMMA ConfirmBySavingKeeps ==
  ASSUME IInv, IInv', CInv, ConfirmBySaving
  PROVE  CInv'
<1>1. /\ open /\ form.modified /\ pending # "none" /\ SaveModified("nav")
      /\ UNCHANGED <<open, pending, shown, cache, db, inserted, typed>>
      /\ "nav" \in {"none", "nav"}
  BY DEF ConfirmBySaving
<1>2. form.row # NoRow
  BY <1>1 DEF IInv, TypeOK
<1> QED BY <1>1, <1>2, SaveModifiedKeeps

\* The dialog closes and no run starts.
LEMMA DialogCloses ==
  ASSUME IInv, IInv', CInv, calls' = Orphaned(calls), res'.id = res.id,
         form' = form \/ form' = NoForm, UNCHANGED <<open, issued, shown, cache, db, gaps>>
  PROVE  CInv'
<1> DEFINE T == Orphaned(calls)
           W == {}
<1>1. /\ Twins(T, calls) /\ Twins(T, calls \ {}) /\ \A d \in T : d.then # "nav"
  BY OrphanedFacts
<1>2. calls' = T \cup W /\ \A d \in W : Fresh(d) /\ d.kind \notin SaveKinds /\ d.then # "nav"
  OBVIOUS
<1> HIDE DEF T, W
<1>3. issued <= issued'
  BY ReaderIds
<1>4. CallsMove({})
  BY <1>1, <1>2, <1>3, CallsJoin
<1>5. SavesMove /\ NavMove
  BY <1>1, <1>2, FormFacts, SavesJoin, NavJoin
<1> QED BY <1>4, <1>5, QuietKeeps

LEMMA ConfirmByDiscardingKeeps ==
  ASSUME IInv, IInv', CInv, ConfirmByDiscarding
  PROVE  CInv'
<1>0. /\ form' = NoForm /\ UNCHANGED <<open, shown, cache, db, inserted, typed, gaps>>
  BY DEF ConfirmByDiscarding
<1>1. CASE pending = "run" /\ ~Running
  <2> DEFINE T == Orphaned(calls)
  <2>1. /\ issued' = issued + 1 /\ calls' = T \cup {RunCall(issued + 1)} /\ res'.id = res.id
    BY <1>1, Kept, ClearedFacts DEF ConfirmByDiscarding
  <2>2. Twins(T, calls) /\ \A d \in T : d.then # "nav"
    BY OrphanedFacts
  <2> HIDE DEF T
  <2> QED BY <1>0, <1>1, <2>1, <2>2, RunStartKeeps
<1>2. CASE ~(pending = "run" /\ ~Running)
  <2>1. calls' = Orphaned(calls) /\ res'.id = res.id /\ UNCHANGED issued
    BY <1>2, Kept DEF ConfirmByDiscarding, ResType
  <2> QED BY <1>0, <2>1, DialogCloses
<1> QED BY <1>1, <1>2

LEMMA CancelNavigationKeeps ==
  ASSUME IInv, IInv', CInv, CancelNavigation
  PROVE  CInv'
<1>1. /\ calls' = Orphaned(calls)
      /\ UNCHANGED <<open, res, form, shown, cache, db, inserted, issued, typed, gaps>>
  BY DEF CancelNavigation
<1> QED BY <1>1, DialogCloses

----------
(* The answers. *)

\* A call ends that has nothing more to say of the copies.
LEMMA EndKeeps ==
  ASSUME IInv, IInv', CInv, open, NEW c \in calls, NEW r, NEW f \in {form, NoForm},
         Ends(c, r, f, {}), UNCHANGED <<open, shown, cache, db>>, gaps \subseteq gaps',
         Reader(c) => c.step = "sent" \/ Missed',
         ~Patches(c) /\ ~Due(c),
         r.id = res.id \/ (r.id = 0 /\ c.kind = "run"), r \in ResType
  PROVE  CInv'
<1> DEFINE new == {}
           of == 0
           sql == 0
<1>1. Ends(c, r, f, new) /\ (new = {} \/ new = {Analysis(of, sql, "none")})
  OBVIOUS
<1> HIDE DEF new, of, sql
<1>2. /\ CallsMove({c}) /\ SavesMove /\ NavMove
      /\ res' = r \/ res' = Cleared(r)
  BY <1>1, EndsMoves
<1>3. res'.id = r.id
  BY <1>2, ClearedFacts
<1>4. Reader(c) /\ c.id = cache.id => Missed'
  BY ReaderIds DEF CInv, ReadersInv
<1>5. \A e \in {c} : e = c
  OBVIOUS
<1> QED BY <1>2, <1>3, <1>4, <1>5, QuietKeeps

LEMMA DroppedKeeps ==
  ASSUME IInv, IInv', CInv, NEW c \in calls, ~open, Dropped(c),
         UNCHANGED <<open, shown, cache, db, inserted, typed, gaps>>
  PROVE  CInv'
<1>1. calls' = calls \ {c} /\ UNCHANGED <<res, form, pending, issued>>
  BY DEF Dropped, Settle
<1>2. CallsMove({c}) /\ SavesMove /\ NavMove
  BY <1>1, SomeLeft
<1> QED BY <1>1, <1>2, QuietKeeps

LEMMA RunFailedKeeps ==
  ASSUME IInv, IInv', CInv, NEW c \in calls, RunFailed(c)
  PROVE  CInv'
<1>0. /\ c.kind = "run" /\ c.step = "sent"
      /\ UNCHANGED <<open, shown, cache, db, inserted, typed, gaps>>
  BY DEF RunFailed
<1>1. CASE open
  <2> DEFINE r == [Cleared(res) EXCEPT !.id = 0, !.sql = 0]
  <2>1. Ends(c, r, NoForm, {})
    BY <1>1 DEF RunFailed
  <2>2. r \in ResType /\ r.id = 0
    BY Kept, ClearedFacts, FormFacts DEF ResType
  <2> HIDE DEF r
  <2>3. ~Patches(c) /\ ~Due(c)
    BY <1>0 DEF Patches, Due
  <2> QED BY <1>0, <1>1, <2>1, <2>2, <2>3, EndKeeps
<1>2. CASE ~open
  BY <1>0, <1>2, DroppedKeeps DEF RunFailed
<1> QED BY <1>1, <1>2

LEMMA RefreshFailedKeeps ==
  ASSUME IInv, IInv', CInv, NEW c \in calls, RefreshFailed(c)
  PROVE  CInv'
<1>0. /\ c.kind = "refresh" /\ c.step = "sent"
      /\ UNCHANGED <<open, shown, cache, db, inserted, typed, gaps>>
  BY DEF RefreshFailed
<1>1. CASE open
  <2> DEFINE r == [res EXCEPT !.stale = TRUE]
  <2>1. Ends(c, r, form, {})
    BY <1>1 DEF RefreshFailed
  <2>2. r \in ResType /\ r.id = res.id
    BY Kept DEF ResType
  <2> HIDE DEF r
  <2>3. ~Patches(c) /\ ~Due(c)
    BY <1>0 DEF Patches, Due
  <2> QED BY <1>0, <1>1, <2>1, <2>2, <2>3, EndKeeps
<1>2. CASE ~open
  BY <1>0, <1>2, DroppedKeeps DEF RefreshFailed
<1> QED BY <1>1, <1>2

LEMMA WriteFailedKeeps ==
  ASSUME IInv, IInv', CInv, NEW c \in calls, WriteFailed(c)
  PROVE  CInv'
<1>0. /\ c.kind \in {"update", "insert"} /\ c.step = "sent"
      /\ UNCHANGED <<open, shown, cache, db, inserted, typed, gaps>>
  BY DEF WriteFailed
<1>1. CASE open
  <2> DEFINE r == [res EXCEPT !.saveError = TRUE]
  <2>1. Ends(c, r, form, {})
    BY <1>1 DEF WriteFailed
  <2>2. r \in ResType /\ r.id = res.id
    BY Kept DEF ResType
  <2> HIDE DEF r
  <2>3. ~Patches(c) /\ ~Due(c) /\ ~Reader(c)
    BY <1>0 DEF Patches, Due, Reader
  <2> QED BY <1>0, <1>1, <2>1, <2>2, <2>3, EndKeeps
<1>2. CASE ~open
  BY <1>0, <1>2, DroppedKeeps DEF WriteFailed
<1> QED BY <1>1, <1>2

\* The answer with the rows: they are on screen now.
LEMMA RowsShown ==
  ASSUME IInv, IInv', CInv, open, NEW c \in calls, NEW r, NEW f \in {form, NoForm}, NEW sql,
         Reader(c), c.step = "stored", Ends(c, r, f, {Analysis(c.id, sql, "none")}),
         r \in ResType, r.id = c.id, shown' = c.rows, UNCHANGED <<open, cache, db>>,
         gaps \subseteq gaps',
         \/ c.kind = "run" /\ (Missed' \/ res.id <= c.id)
         \/ res.id = c.of /\ c.of # 0
  PROVE  CInv'
<1> DEFINE new == {Analysis(c.id, sql, "none")}
           of == c.id
<1>1. Ends(c, r, f, new) /\ (new = {} \/ new = {Analysis(of, sql, "none")})
  OBVIOUS
<1> HIDE DEF new, of
<1>2. /\ CallsMove({c}) /\ SavesMove /\ NavMove
      /\ res' = r \/ res' = Cleared(r)
  BY <1>1, EndsMoves
<1>3. /\ res'.id = c.id /\ c.id \in Nat /\ c.of \in Nat /\ cache.id \in Nat /\ res.id \in Nat
      /\ \A e \in {c} : e = c
  BY <1>2, ClearedFacts, ReaderIds
<1>4. NavInv' /\ SavesInv' /\ ReadersInv /\ CopyInv
  BY <1>2, NavKept, SavesKept DEF CInv
<1>5. /\ c.id <= cache.id /\ c.of < c.id
      /\ open /\ c.kind = "run" /\ c.id < cache.id => Coming \/ res.id = cache.id \/ Missed
  BY <1>4 DEF ReadersInv
<1>6. c.kind = "run" \/ res.id # cache.id
  BY <1>3, <1>5
<1>7. ReadersInv' /\ (Coming /\ open' /\ res'.id # cache.id /\ ~Missed' => Coming')
  <2>1. ReadsMove({c})
    BY <1>2, MoveReads
  <2> QED BY <1>3, <1>4, <1>6, <2>1, ReadersKept
<1>8. /\ gaps' \subseteq {"reread"} =>
           /\ \A e \in calls' : Reader(e) /\ e.id = cache'.id => cache'.rows = e.rows
           /\ \A e \in calls' : Patches(e) =>
                e.at = e.row /\ (e.of = cache'.id => cache'.rows[e.row] = e.value)
      /\ open' /\ gaps' \cap {"reread", "resaved", "warned", "misplaced"} = {} =>
           \A x \in Rows : cache'.rows[x] = db'[x] \/ \E e \in calls' : Due(e) /\ e.row = x
  <2>1. \A e \in {c} : ~Due(e)
    BY <1>3 DEF Due, Reader
  <2> QED BY <1>2, <1>4, <2>1, RowsKept
<1>9. ~Missed' => cache'.id = res'.id \/ Coming'
  <2> SUFFICES ASSUME ~Missed', c.id # cache.id PROVE Coming'
    BY <1>3
  <2>1. ~Missed /\ c.id < cache.id
    BY <1>3, <1>5 DEF Missed
  <2>2. Coming
    <3>1. CASE c.kind = "run"
      BY <1>3, <1>5, <2>1, <3>1 DEF Reader
    <3>2. CASE res.id = c.of /\ c.of # 0
      BY <1>3, <1>4, <1>5, <2>1, <3>2 DEF CopyInv
    <3> QED BY <3>1, <3>2
  <2> QED BY <1>3, <1>7, <2>2
<1>10. gaps' \subseteq {"reread"} /\ cache'.id = res'.id => \A x \in Rows : shown'[x] = cache'.rows[x]
  BY <1>3, <1>4 DEF CopyInv
<1>11. CopyInv'
  BY <1>8, <1>9, <1>10 DEF CopyInv
<1> QED BY <1>4, <1>7, <1>11 DEF CInv

LEMMA RunReplyKeeps ==
  ASSUME IInv, IInv', CInv, NEW c \in calls, RunReply(c)
  PROVE  CInv'
<1>0. /\ c.kind = "run" /\ c.step = "stored" /\ UNCHANGED <<open, cache, db, inserted, typed>>
      /\ gaps' = gaps \cup (IF open /\ res.id > c.id THEN {"overtaken"} ELSE {})
  BY DEF RunReply
<1>1. CASE open
  <2> DEFINE r == [Cleared(res) EXCEPT !.id = c.id, !.sql = c.sql, !.analyzing = TRUE]
             sql == c.sql
  <2>1. Ends(c, r, NoForm, {Analysis(c.id, sql, "none")}) /\ shown' = c.rows
    BY <1>1 DEF RunReply
  <2>2. c \in CallType /\ c.id \in Ids /\ c.id \in Nat /\ res.id \in Nat
    BY CallFits, ReaderIds, RowEditAssumption DEF CallType, Ids
  <2>3. r \in ResType /\ r.id = c.id
    BY <2>2, Kept, ClearedFacts DEF ResType, CallType
  <2>4. Missed' \/ res.id <= c.id
    BY <1>0, <1>1, <2>2 DEF Missed
  <2>5. Reader(c) /\ gaps \subseteq gaps'
    BY <1>0 DEF Reader
  <2> HIDE DEF r, sql
  <2> QED BY <1>0, <1>1, <2>1, <2>3, <2>4, <2>5, RowsShown
<1>2. CASE ~open
  <2>1. Dropped(c) /\ UNCHANGED <<open, shown, cache, db, inserted, typed, gaps>>
    BY <1>0, <1>2 DEF RunReply
  <2> QED BY <1>2, <2>1, DroppedKeeps
<1> QED BY <1>1, <1>2

LEMMA RefreshReplyKeeps ==
  ASSUME IInv, IInv', CInv, NEW c \in calls, RefreshReply(c)
  PROVE  CInv'
<1>0. /\ c.kind = "refresh" /\ c.step = "stored" /\ UNCHANGED <<open, cache, db, inserted, typed>>
      /\ gaps' = gaps \cup (IF open /\ res.id # c.of THEN {"dropped"} ELSE {})
      /\ Reader(c) /\ ~Patches(c) /\ ~Due(c) /\ gaps \subseteq gaps'
  BY DEF RefreshReply, Reader, Patches, Due
<1>1. CASE open /\ res.id = c.of
  <2> DEFINE r == [res EXCEPT !.id = c.id, !.stale = FALSE, !.saveError = FALSE,
                              !.analyzing = TRUE]
             sql == c.sql
  <2>1. Ends(c, r, form, {Analysis(c.id, sql, "none")}) /\ shown' = c.rows
    BY <1>1 DEF RefreshReply
  <2>2. c \in CallType /\ c.id \in Ids /\ c.of # 0
    BY <1>0, CallFits, RowEditAssumption DEF CallType, Ids
  <2>3. r \in ResType /\ r.id = c.id
    BY <2>2, Kept DEF ResType
  <2> HIDE DEF r, sql
  <2> QED BY <1>0, <1>1, <2>1, <2>2, <2>3, RowsShown
<1>2. CASE open /\ res.id # c.of
  <2>1. Ends(c, res, form, {}) /\ UNCHANGED shown /\ Missed'
    BY <1>0, <1>2 DEF RefreshReply, Missed
  <2> QED BY <1>0, <1>2, <2>1, Kept, EndKeeps
<1>3. CASE ~open
  <2>1. Dropped(c) /\ UNCHANGED shown /\ UNCHANGED gaps
    BY <1>0, <1>3 DEF RefreshReply
  <2> QED BY <1>0, <1>3, <2>1, DroppedKeeps
<1> QED BY <1>1, <1>2, <1>3

LEMMA AnalysisReplyKeeps ==
  ASSUME IInv, IInv', CInv, NEW c \in calls, NEW ok, NEW newest, AnalysisReply(c, ok, newest)
  PROVE  CInv'
<1>1. /\ c.kind = "analyze" /\ calls' = calls \ {c}
      /\ UNCHANGED <<open, pending, shown, cache, db, inserted, issued, typed, gaps>>
  BY DEF AnalysisReply, Settle
<1>2. res'.id = res.id /\ (form' = form \/ form' = NoForm)
  BY Kept DEF AnalysisReply, ResType
<1>3. CallsMove({c}) /\ SavesMove /\ NavMove
  BY <1>1, <1>2, FormFacts, SomeLeft
<1>4. \A e \in {c} : ~Reader(e) /\ ~Patches(e) /\ ~Due(e)
  BY <1>1 DEF Reader, Patches, Due
<1> QED BY <1>1, <1>2, <1>3, <1>4, QuietKeeps

----------
(* The backend, and the answers to a save. *)

\* One call goes on, with its row and value.
LEMMA OneFollows ==
  ASSUME IInv, NEW c \in calls, NEW d, calls' = (calls \ {c}) \cup {d},
         UNCHANGED <<open, form, pending>>, d.id = c.id, d.row = c.row, d.value = c.value,
         d.then = c.then, d.kind = c.kind \/ (c.kind = "update" /\ d.kind = "sync")
  PROVE  NavMove /\ ((Written(d) => Written(c)) => SavesMove)
<1>1. NavMove
  BY DEF NavMove
<1>2. ASSUME Written(d) => Written(c) PROVE SavesMove
  BY <1>2 DEF SavesMove, SaveKinds
<1> QED BY <1>1, <1>2

LEMMA ReadsTableKeeps ==
  ASSUME IInv, IInv', CInv, NEW c \in calls, ReadsTable(c)
  PROVE  CInv'
<1> DEFINE d == [c EXCEPT !.step = "done", !.rows = db]
<1>1. /\ c.kind \in {"run", "refresh"} /\ c.step = "sent" /\ calls' = (calls \ {c}) \cup {d}
      /\ \A e \in calls : Reader(e) /\ e.id < c.id => e.step = "stored"
      /\ UNCHANGED <<open, res, form, pending, shown, cache, db, inserted, issued, typed, gaps>>
  BY DEF ReadsTable, Advance, Reader
<1>2. /\ d.id = c.id /\ d.of = c.of /\ d.row = c.row /\ d.at = c.at /\ d.value = c.value
      /\ d.then = c.then
      /\ d.kind = c.kind /\ d.step = "done"
  BY CallFits DEF CallType
<1> HIDE DEF d
<1>3. Alike(d, c) /\ ~Written(d)
  BY <1>1, <1>2 DEF Alike, Reads, Reader, Patches, Due, Written
<1>4. CallsMove({})
  BY <1>1, <1>3, OneMoves
<1>5. SavesMove /\ NavMove
  BY <1>1, <1>2, <1>3, OneFollows
<1> QED BY <1>1, <1>4, <1>5, QuietKeeps

LEMMA StoresRowsKeeps ==
  ASSUME IInv, IInv', CInv, NEW c \in calls, StoresRows(c)
  PROVE  CInv'
<1> DEFINE d == [c EXCEPT !.step = "stored"]
<1>1. /\ c.kind \in {"run", "refresh"} /\ c.step = "done" /\ calls' = (calls \ {c}) \cup {d}
      /\ cache' = [id |-> c.id, rows |-> c.rows]
      /\ gaps' = gaps \cup (IF c.rows # db THEN {"reread"} ELSE {})
      /\ UNCHANGED <<open, res, form, pending, shown, db, inserted, issued, typed>>
  BY DEF StoresRows, Advance
<1>2. /\ d.id = c.id /\ d.of = c.of /\ d.row = c.row /\ d.at = c.at /\ d.value = c.value
      /\ d.then = c.then
      /\ d.kind = c.kind /\ d.step = "stored" /\ d.rows = c.rows
  BY CallFits DEF CallType
<1> HIDE DEF d
<1>3. Reader(c) /\ Reader(d) /\ ~Written(d) /\ ~Patches(d) /\ d \in calls' /\ gaps \subseteq gaps'
  BY <1>1, <1>2 DEF Reader, Written, Patches
<1>4. SavesMove /\ NavMove
  BY <1>1, <1>2, <1>3, OneFollows
<1>5. NavInv' /\ SavesInv'
  BY <1>1, <1>3, <1>4, NavKept, SavesKept DEF CInv
<1>6. /\ c.id \in Nat /\ cache.id \in Nat /\ \A e \in calls : e.id \in Nat /\ e.id <= issued
      /\ \A e, b \in calls : e.id = b.id => e = b
      /\ c.id # res.id /\ \A e \in calls : e.of # c.id
  BY <1>3, ReaderIds DEF IInv, IdsInv, Reader
<1>7. /\ \A e \in calls : Reader(e) =>
           /\ e.of < e.id
           /\ e.step = "stored" <=> e.id <= cache.id
           /\ e.step = "done" => \A b \in calls : Reader(b) /\ b.id < e.id => b.step = "stored"
      /\ \A e, b \in calls : e.kind = "run" /\ b.kind = "run" => e = b
  BY DEF CInv, ReadersInv
<1>8. cache.id < c.id
  BY <1>1, <1>3, <1>6, <1>7
<1>9. ReadersInv'
  <2>1. ASSUME NEW e \in calls', Reader(e)
        PROVE  /\ e.of < e.id
               /\ e.step = "stored" <=> e.id <= c.id
               /\ e.step = "done" => \A b \in calls' : Reader(b) /\ b.id < e.id => b.step = "stored"
    <3>1. CASE e = d
      BY <1>2, <1>3, <1>6, <1>7, <3>1
    <3>2. CASE e \in calls /\ e # c
      <4>1. e.step = "stored" => e.id <= c.id
        BY <1>6, <1>7, <1>8, <2>1, <3>2
      <4>2. e.id <= c.id => e.step = "stored"
        <5>1. e.id # c.id
          BY <1>6, <3>2
        <5> QED BY <1>1, <1>3, <1>6, <1>7, <2>1, <3>2, <5>1
      <4> QED BY <1>1, <1>2, <1>7, <2>1, <3>2, <4>1, <4>2
    <3> QED BY <1>1, <3>1, <3>2
  <2>2. \A e, b \in calls' : e.kind = "run" /\ b.kind = "run" => e = b
    BY <1>1, <1>2, <1>7
  <2>3. Coming' /\ cache'.id = c.id
    BY <1>1, <1>2, <1>3 DEF Coming
  <2> QED BY <1>1, <1>6, <2>1, <2>2, <2>3 DEF ReadersInv
<1>10. CopyInv'
  <2>1. Coming' /\ cache'.id = c.id /\ cache'.rows = c.rows
    BY <1>1, <1>2, <1>3 DEF Coming
  <2>2. \A e \in calls' : Reader(e) /\ e.id = c.id => e = d
    BY <1>1, <1>6
  <2>3. \A e \in calls' : e.of # c.id
    BY <1>1, <1>2, <1>6
  <2>4. gaps' \cap {"reread", "resaved", "warned", "misplaced"} = {} => c.rows = db
    BY <1>1
  <2>5. gaps' \subseteq {"reread"} => \A e \in calls' : Patches(e) => e.at = e.row
    BY <1>1, <1>3 DEF CInv, CopyInv
  <2> QED BY <1>1, <1>2, <1>6, <2>1, <2>2, <2>3, <2>4, <2>5 DEF CopyInv
<1> QED BY <1>5, <1>9, <1>10 DEF CInv

LEMMA WritesTableKeeps ==
  ASSUME IInv, IInv', CInv, NEW c \in calls, WritesTable(c)
  PROVE  CInv'
<1> DEFINE d == [c EXCEPT !.step = "done"]
<1>1. /\ c.kind \in {"update", "insert"} /\ c.step = "sent" /\ calls' = (calls \ {c}) \cup {d}
      /\ db' = IF c.kind = "update" THEN [db EXCEPT ![c.row] = c.value] ELSE db
      /\ UNCHANGED <<open, res, form, pending, shown, cache, issued, typed, gaps>>
  BY DEF WritesTable, Advance
<1>2. /\ d.id = c.id /\ d.of = c.of /\ d.row = c.row /\ d.at = c.at /\ d.value = c.value
      /\ d.then = c.then
      /\ d.kind = c.kind /\ d.step = "done"
  BY CallFits DEF CallType
<1> HIDE DEF d
<1>3. /\ Alike(d, c) /\ d \in calls' /\ (c.kind = "update" => Due(d))
      /\ c \in Saves /\ ~Written(c) /\ (c.kind = "insert" => ~Written(d))
  BY <1>1, <1>2 DEF Alike, Reads, Reader, Patches, Due, Saves, Written
<1>4. CallsMove({})
  BY <1>1, <1>3, OneMoves
<1>5. NavMove
  BY <1>1, <1>2, OneFollows
<1>6. db \in [Rows -> Values] /\ (c.kind = "update" => c.row \in Rows)
  BY Kept DEF CInv, SavesInv
<1>7. \A r \in Rows : db'[r] = db[r] \/ \E e \in calls' : Due(e) /\ e.row = r
  BY <1>1, <1>2, <1>3, <1>6
<1>8. ReadersInv' /\ CopyInv'
  BY <1>1, <1>4, <1>7, CopiesKept DEF CInv
<1>9. SavesInv'
  <2>1. \A e \in calls' : e.kind \in {"update", "sync"} => e.row \in Rows
    BY <1>1, <1>2 DEF CInv, SavesInv
  <2>2. ASSUME "resaved" \notin gaps'
        PROVE  /\ \A a, b \in Saves' : a.row = b.row => a = b
               /\ \A e \in calls' : Written(e) => db'[e.row] = e.value
    <3>1. /\ \A a, b \in Saves : a.row = b.row => a = b
          /\ \A e \in calls : Written(e) => db[e.row] = e.value
      BY <1>1, <2>2 DEF CInv, SavesInv
    <3>2. \A a \in Saves' : a = d \/ (a \in Saves /\ a # c)
      BY <1>1 DEF Saves
    <3>3. \A a, b \in Saves' : a.row = b.row => a = b
      BY <1>2, <1>3, <3>1, <3>2
    <3>4. ASSUME NEW e \in calls', Written(e)
          PROVE  db'[e.row] = e.value
      <4>1. CASE e = d
        <5>1. c.kind = "update"
          BY <1>1, <1>3, <3>4, <4>1
        <5> QED BY <1>1, <1>2, <1>6, <4>1, <5>1
      <4>2. CASE e \in calls /\ e # c
        <5>1. e \in Saves /\ e.row \in Rows
          BY <3>4, <4>2 DEF Saves, Written, CInv, SavesInv
        <5>2. e.row # c.row
          BY <1>3, <3>1, <4>2, <5>1
        <5>3. db[e.row] = e.value
          BY <3>1, <3>4, <4>2
        <5> QED BY <1>1, <1>6, <5>1, <5>2, <5>3
      <4> QED BY <1>1, <4>1, <4>2
    <3> QED BY <3>3, <3>4
  <2> QED BY <2>1, <2>2 DEF SavesInv
<1>10. NavInv'
  BY <1>5, NavKept DEF CInv
<1> QED BY <1>8, <1>9, <1>10 DEF CInv

LEMMA UpdateReplyKeeps ==
  ASSUME IInv, IInv', CInv, NEW c \in calls, UpdateReply(c)
  PROVE  CInv'
<1>0. /\ c.kind = "update" /\ c.step = "done"
      /\ UNCHANGED <<open, res, form, pending, shown, cache, db, inserted, issued, typed, gaps>>
  BY DEF UpdateReply
<1>1. CASE open
  <2> DEFINE d == [c EXCEPT !.kind = "sync", !.step = "sent"]
  <2>1. calls' = (calls \ {c}) \cup {d}
    BY <1>1 DEF UpdateReply, Advance
  <2>2. /\ d.id = c.id /\ d.of = c.of /\ d.row = c.row /\ d.at = c.at /\ d.value = c.value
        /\ d.then = c.then
        /\ d.kind = "sync" /\ d.step = "sent"
    BY CallFits DEF CallType
  <2> HIDE DEF d
  <2>3. Alike(d, c) /\ Written(c)
    BY <1>0, <2>2 DEF Alike, Reads, Reader, Patches, Due, Written
  <2>4. CallsMove({})
    BY <1>0, <2>1, <2>3, OneMoves
  <2>5. SavesMove /\ NavMove
    BY <1>0, <2>1, <2>2, <2>3, OneFollows
  <2> QED BY <1>0, <2>4, <2>5, QuietKeeps
<1>2. CASE ~open
  <2>1. Dropped(c)
    BY <1>0, <1>2 DEF UpdateReply, Dropped
  <2> QED BY <1>0, <1>2, <2>1, DroppedKeeps
<1> QED BY <1>1, <1>2

\* A sync ends in step s: what does not depend on the rows it wrote.
LEMMA SyncStepKeeps ==
  ASSUME IInv, IInv', CInv, NEW c \in calls, NEW d, c.kind = "sync",
         NEW s \in Steps, d = [c EXCEPT !.step = s], calls' = (calls \ {c}) \cup {d},
         cache'.id = cache.id, gaps \subseteq gaps',
         UNCHANGED <<open, res, form, pending, shown, db, inserted, issued, typed>>
  PROVE  /\ NavInv' /\ SavesInv' /\ ReadersInv'
         /\ d.of = c.of /\ d.row = c.row /\ d.at = c.at /\ d.value = c.value
         /\ d.kind = "sync" /\ d.step = s
         /\ open' /\ res'.id # 0 /\ ~Missed' => cache'.id = res'.id \/ Coming'
<1>1. /\ d.id = c.id /\ d.of = c.of /\ d.row = c.row /\ d.at = c.at /\ d.value = c.value
      /\ d.then = c.then
      /\ d.kind = "sync" /\ d.step = s
  BY CallFits DEF CallType
<1>2. Reads(d, c) /\ Written(c)
  BY <1>1 DEF Reads, Reader, Written
<1>3. SavesMove /\ NavMove
  BY <1>1, <1>2, OneFollows
<1>4. NavInv' /\ SavesInv'
  BY <1>3, NavKept, SavesKept DEF CInv
<1>5. ReadsMove({})
  <2>1. \A e \in calls : Reads(e, e)
    BY DEF Reads
  <2> QED BY <1>2, <2>1, ReaderIds DEF ReadsMove
<1>6. ReadersInv' /\ (Coming /\ open' /\ res'.id # cache.id /\ ~Missed' => Coming')
  BY <1>5, ReadersKept DEF CInv
<1>7. ~Missed' => ~Missed
  BY DEF Missed
<1> QED BY <1>1, <1>4, <1>6, <1>7 DEF CInv, CopyInv

LEMMA SyncsCacheKeeps ==
  ASSUME IInv, IInv', CInv, NEW c \in calls, SyncsCache(c)
  PROVE  CInv'
<1>0. /\ c.kind = "sync" /\ c.step = "sent"
      /\ UNCHANGED <<open, res, form, pending, shown, db, inserted, issued, typed>>
      /\ "stored" \in Steps /\ "done" \in Steps
  BY DEF SyncsCache, Steps
<1>1. /\ ~Patches(c) /\ Due(c) /\ Written(c) /\ c \in Saves /\ c.row \in Rows
      /\ cache \in [id : Ids, rows : [Rows -> Values]]
  BY <1>0, Kept DEF Patches, Due, Written, Saves, CInv, SavesInv
<1>2. CopyInv /\ SavesInv
  BY DEF CInv
<1>3. CASE cache.id = c.of /\ c.at = c.row
  <2> DEFINE d == [c EXCEPT !.step = "stored"]
  <2>1. /\ cache' = [cache EXCEPT !.rows = Patched(@, c)]
        /\ calls' = (calls \ {c}) \cup {d} /\ gaps' = gaps
    BY <1>3 DEF SyncsCache, Advance
  <2>2. /\ cache'.id = cache.id /\ cache'.rows[c.row] = c.value
        /\ \A r \in Rows : r # c.row => cache'.rows[r] = cache.rows[r]
    BY <1>1, <1>3, <2>1, PatchedFacts
  <2>3. d = [c EXCEPT !.step = "stored"]
    OBVIOUS
  <2> HIDE DEF d
  <2>4. /\ NavInv' /\ SavesInv' /\ ReadersInv'
        /\ d.of = c.of /\ d.row = c.row /\ d.at = c.at /\ d.value = c.value
        /\ d.kind = "sync" /\ d.step = "stored"
        /\ open' /\ res'.id # 0 /\ ~Missed' => cache'.id = res'.id \/ Coming'
    BY <1>0, <2>1, <2>2, <2>3, SyncStepKeeps
  <2>5. Patches(d) /\ d \in calls'
    BY <2>1, <2>4 DEF Patches
  <2>6. \A e \in calls' : Reader(e) => e.id # cache'.id
    BY <1>3, <2>2, <2>4, <2>5 DEF IInv, IdsInv, Reader
  <2>7. ASSUME gaps' \subseteq {"reread"}, NEW e \in calls', Patches(e)
        PROVE  e.at = e.row /\ (e.of = cache'.id => cache'.rows[e.row] = e.value)
    <3>1. CASE e = d
      BY <1>3, <2>2, <2>4, <3>1
    <3>2. CASE e \in calls /\ e # c
      <4>1. /\ e \in Saves /\ e.row \in Rows /\ e.at = e.row
            /\ e.of = cache.id => cache.rows[e.row] = e.value
        BY <1>2, <2>1, <2>2, <2>7, <3>2 DEF Saves, Patches, SavesInv, CopyInv
      <4>2. "resaved" \notin gaps
        BY <2>1, <2>7
      <4>3. e.row # c.row
        BY <1>1, <1>2, <3>2, <4>1, <4>2 DEF SavesInv
      <4> QED BY <2>2, <4>1, <4>3
    <3> QED BY <2>1, <3>1, <3>2
  <2>8. ASSUME gaps' \subseteq {"reread"}, open', res'.id # 0, cache'.id = res'.id, NEW r \in Rows
        PROVE  \/ shown'[r] = cache'.rows[r]
               \/ \E e \in calls' : Patches(e) /\ e.of = res'.id /\ e.row = r
    <3>1. CASE r = c.row
      BY <1>0, <1>3, <2>2, <2>4, <2>5, <2>8, <3>1
    <3>2. CASE r # c.row
      <4>1. \/ shown[r] = cache.rows[r]
            \/ \E e \in calls : Patches(e) /\ e.of = res.id /\ e.row = r
        BY <1>0, <1>2, <2>1, <2>2, <2>8 DEF CopyInv
      <4> QED BY <1>0, <1>1, <2>1, <2>2, <3>2, <4>1
    <3> QED BY <3>1, <3>2
  <2>9. ASSUME open', gaps' \cap {"reread", "resaved", "warned", "misplaced"} = {}, NEW r \in Rows
        PROVE  cache'.rows[r] = db'[r] \/ \E e \in calls' : Due(e) /\ e.row = r
    <3>1. CASE r = c.row
      BY <1>0, <1>1, <1>2, <2>1, <2>2, <2>9, <3>1 DEF SavesInv
    <3>2. CASE r # c.row
      <4>1. cache.rows[r] = db[r] \/ \E e \in calls : Due(e) /\ e.row = r
        BY <1>0, <1>2, <2>1, <2>9 DEF CopyInv
      <4> QED BY <1>0, <2>1, <2>2, <3>2, <4>1
    <3> QED BY <3>1, <3>2
  <2> QED BY <2>4, <2>6, <2>7, <2>8, <2>9 DEF CInv, CopyInv
<1>5. CASE cache.id = c.of /\ c.at # c.row
  <2> DEFINE d == [c EXCEPT !.step = "stored"]
  <2>1. /\ cache' = [cache EXCEPT !.rows = Patched(@, c)]
        /\ calls' = (calls \ {c}) \cup {d} /\ gaps' = gaps \cup {"misplaced"}
    BY <1>5 DEF SyncsCache, Advance
  <2>2. d = [c EXCEPT !.step = "stored"] /\ cache'.id = cache.id /\ gaps \subseteq gaps'
    BY <1>1, <2>1
  <2> HIDE DEF d
  <2>3. /\ NavInv' /\ SavesInv' /\ ReadersInv'
        /\ open' /\ res'.id # 0 /\ ~Missed' => cache'.id = res'.id \/ Coming'
    BY <1>0, <2>1, <2>2, SyncStepKeeps
  <2> QED BY <2>1, <2>3 DEF CInv, CopyInv
<1>4. CASE cache.id # c.of
  <2> DEFINE d == [c EXCEPT !.step = "done"]
  <2>1. /\ UNCHANGED cache /\ calls' = (calls \ {c}) \cup {d}
        /\ gaps' = gaps \cup (IF cache.rows # db THEN {"reread"} ELSE {})
    BY <1>4 DEF SyncsCache, Advance
  <2>2. d = [c EXCEPT !.step = "done"] /\ gaps \subseteq gaps'
    BY <2>1
  <2> HIDE DEF d
  <2>3. /\ NavInv' /\ SavesInv' /\ ReadersInv' /\ d.kind = "sync" /\ d.step = "done"
        /\ open' /\ res'.id # 0 /\ ~Missed' => cache'.id = res'.id \/ Coming'
    BY <1>0, <2>1, <2>2, SyncStepKeeps
  <2>4. ~Patches(d) /\ ~Reader(d)
    BY <2>3 DEF Patches, Reader
  <2>5. /\ \A e \in calls' : Reader(e) \/ Patches(e) => e \in calls
        /\ \A e \in calls : Patches(e) => e \in calls'
    BY <1>1, <2>1, <2>4
  <2>6. gaps' \subseteq {"reread"} => gaps \subseteq {"reread"}
    BY <2>2
  <2>7. gaps' \cap {"reread", "resaved", "warned", "misplaced"} = {} => cache.rows = db
    BY <2>1
  <2>8. gaps' \subseteq {"reread"} =>
          /\ \A e \in calls' : Reader(e) /\ e.id = cache'.id => cache'.rows = e.rows
          /\ \A e \in calls' : Patches(e) =>
               e.at = e.row /\ (e.of = cache'.id => cache'.rows[e.row] = e.value)
          /\ open' /\ res'.id # 0 /\ cache'.id = res'.id =>
               \A r \in Rows : \/ shown'[r] = cache'.rows[r]
                               \/ \E e \in calls' : Patches(e) /\ e.of = res'.id /\ e.row = r
    BY <1>0, <1>2, <2>1, <2>5, <2>6 DEF CopyInv
  <2> QED BY <1>0, <2>1, <2>3, <2>7, <2>8 DEF CInv, CopyInv
<1> QED BY <1>3, <1>4, <1>5

LEMMA SyncFailsKeeps ==
  ASSUME IInv, IInv', CInv, NEW c \in calls, SyncFails(c)
  PROVE  CInv'
<1> DEFINE d == [c EXCEPT !.step = "stored"]
<1>1. /\ c.kind = "sync" /\ calls' = (calls \ {c}) \cup {d} /\ gaps' = gaps \cup {"warned"}
      /\ UNCHANGED <<open, res, form, pending, shown, cache, db, inserted, issued, typed>>
      /\ "stored" \in Steps
  BY DEF SyncFails, Advance, Steps
<1>2. d = [c EXCEPT !.step = "stored"] /\ gaps \subseteq gaps'
  BY <1>1
<1> HIDE DEF d
<1>3. /\ NavInv' /\ SavesInv' /\ ReadersInv'
      /\ open' /\ res'.id # 0 /\ ~Missed' => cache'.id = res'.id \/ Coming'
  BY <1>1, <1>2, SyncStepKeeps
<1> QED BY <1>1, <1>3 DEF CInv, CopyInv

LEMMA SyncReplyKeeps ==
  ASSUME IInv, IInv', CInv, NEW c \in calls, SyncReply(c)
  PROVE  CInv'
<1>0. /\ c.kind = "sync" /\ c.step \in {"stored", "done"}
      /\ UNCHANGED <<open, cache, db, inserted, typed, gaps>>
      /\ ~Reader(c) /\ ~Due(c)
  BY DEF SyncReply, Reader, Due
<1>1. CASE open
  <2> DEFINE new == {}
             of == 0
             sql == 0
             f == NoForm
  <2>1. /\ Ends(c, Saved, f, new) /\ (new = {} \/ new = {Analysis(of, sql, "none")})
        /\ f = form \/ f = NoForm
        /\ shown' = IF c.step = "stored" /\ res.id = c.of
                    THEN Patched(shown, c) ELSE shown
    BY <1>1 DEF SyncReply
  <2> HIDE DEF new, of, sql, f
  <2>2. /\ CallsMove({c}) /\ SavesMove /\ NavMove
        /\ res' = Saved \/ res' = Cleared(Saved)
    BY <1>0, <1>1, <2>1, EndsMoves
  <2>3. res'.id = res.id /\ \A e \in {c} : e = c
    BY <2>2, SavedFacts, ClearedFacts
  <2>4. NavInv' /\ SavesInv' /\ ReadersInv /\ CopyInv
    BY <1>0, <2>2, NavKept, SavesKept DEF CInv
  <2>5. ReadersInv' /\ (Coming /\ open' /\ res'.id # cache.id /\ ~Missed' => Coming')
    <3>1. ReadsMove({c})
      BY <2>2, MoveReads
    <3> QED BY <1>0, <2>3, <2>4, <3>1, ReadersKept
  <2>6. /\ gaps' \subseteq {"reread"} =>
             /\ \A e \in calls' : Reader(e) /\ e.id = cache'.id => cache'.rows = e.rows
             /\ \A e \in calls' : Patches(e) =>
                  e.at = e.row /\ (e.of = cache'.id => cache'.rows[e.row] = e.value)
        /\ open' /\ gaps' \cap {"reread", "resaved", "warned", "misplaced"} = {} =>
             \A x \in Rows : cache'.rows[x] = db'[x] \/ \E e \in calls' : Due(e) /\ e.row = x
    BY <1>0, <2>2, <2>3, <2>4, RowsKept
  <2>7. open' /\ res'.id # 0 /\ ~Missed' => cache'.id = res'.id \/ Coming'
    <3>1. Missed' = Missed
      BY <1>0 DEF Missed
    <3> QED BY <1>0, <2>3, <2>4, <2>5, <3>1 DEF CopyInv
  <2>8. ASSUME gaps' \subseteq {"reread"}, res'.id # 0, cache'.id = res'.id, NEW r \in Rows
        PROVE  \/ shown'[r] = cache'.rows[r]
               \/ \E e \in calls' : Patches(e) /\ e.of = res'.id /\ e.row = r
    <3>1. shown \in [Rows -> Values] /\ cache.id = res.id /\ res.id # 0 /\ gaps \subseteq {"reread"}
      BY <1>0, <2>3, <2>8, Kept
    <3>0. \A x \in Rows : Patched(shown, c)[x] = IF x = c.at THEN c.value ELSE shown[x]
      BY <3>1, PatchedFacts
    <3>4. c.step = "stored" => c.at = c.row /\ (c.of = cache.id => cache.rows[c.row] = c.value)
      BY <1>0, <2>4, <3>1 DEF CopyInv, Patches
    <3>2. CASE c.step = "stored" /\ res.id = c.of /\ c.row = r
      <4>1. shown'[r] = c.value
        BY <2>1, <3>0, <3>2, <3>4
      <4> QED BY <1>0, <3>1, <3>2, <3>4, <4>1
    <3>3. CASE ~(c.step = "stored" /\ res.id = c.of /\ c.row = r)
      <4>1. shown'[r] = shown[r]
        BY <2>1, <3>0, <3>3, <3>4
      <4>2. \/ shown[r] = cache.rows[r]
            \/ \E e \in calls : Patches(e) /\ e.of = res.id /\ e.row = r
        BY <1>1, <2>4, <3>1 DEF CopyInv
      <4>3. ASSUME NEW e \in calls, Patches(e), e.of = res.id, e.row = r
            PROVE  \E d \in calls' : Patches(d) /\ d.of = res'.id /\ d.row = r
        <5>1. e # c
          BY <3>3, <4>3 DEF Patches
        <5>2. PICK d \in calls' : Alike(d, e)
          BY <2>2, <5>1 DEF CallsMove
        <5> QED BY <2>3, <4>3, <5>2 DEF Alike, Reads
      <4> QED BY <1>0, <4>1, <4>2, <4>3
    <3> QED BY <3>2, <3>3
  <2>9. CopyInv'
    BY <2>6, <2>7, <2>8 DEF CopyInv
  <2> QED BY <2>4, <2>5, <2>9 DEF CInv
<1>2. CASE ~open
  <2>1. Dropped(c) /\ UNCHANGED shown
    BY <1>2 DEF SyncReply
  <2> QED BY <1>0, <1>2, <2>1, DroppedKeeps
<1> QED BY <1>1, <1>2

LEMMA InsertReplyKeeps ==
  ASSUME IInv, IInv', CInv, NEW c \in calls, InsertReply(c)
  PROVE  CInv'
<1>0. /\ c.kind = "insert"
      /\ UNCHANGED <<open, pending, shown, cache, db, inserted, typed, gaps>>
      /\ ~Reader(c) /\ ~Patches(c) /\ ~Due(c)
  BY DEF InsertReply, Reader, Patches, Due
<1>1. CASE open
  <2> DEFINE d == [c EXCEPT !.kind = "refresh", !.step = "sent", !.id = issued + 1]
             T == calls \ {c}
             W == {d}
  <2>1. /\ res' = Saved /\ form' = NoForm /\ issued' = issued + 1
        /\ calls' = T \cup W
    BY <1>1 DEF InsertReply, Advance
  <2>2. /\ d.kind = "refresh" /\ d.id = issued + 1 /\ d.of = c.of /\ d.step = "sent"
        /\ d.row = c.row /\ d.value = c.value /\ d.then = c.then
    BY CallFits DEF CallType
  <2>3. c.of <= issued /\ c.of \in Nat /\ issued \in Nat
    BY ReaderIds DEF IInv, IdsInv
  <2>4. Twins(T, calls \ {c}) /\ T \in SUBSET calls
    BY SameAreTwins
  <2> HIDE DEF d
  <2>5. Fresh(d) /\ d.kind \notin SaveKinds
    BY <2>2, <2>3 DEF Fresh, SaveKinds
  <2>6. \A e \in W : Fresh(e) /\ e.kind \notin SaveKinds /\ e = d
    BY <2>5
  <2> HIDE DEF T, W
  <2>7. CallsMove({c})
    <3>1. issued <= issued' /\ {c} \in SUBSET calls
      BY <2>1, <2>3
    <3> QED BY <2>1, <2>4, <2>6, <3>1, CallsJoin
  <2>8. SavesMove
    <3>1. calls \ {c} \in SUBSET calls
      OBVIOUS
    <3> QED BY <2>1, <2>4, <2>6, <3>1, SavesJoin
  <2>9. NavMove
    <3>1. \A e \in calls' : e = d \/ e \in calls
      BY <2>1, <2>4, <2>6
    <3> QED BY <1>0, <2>1, <2>2, <3>1, FormFacts DEF NavMove
  <2>10. res'.id = res.id /\ \A e \in {c} : e = c
    BY <2>1, SavedFacts
  <2> QED BY <1>0, <2>7, <2>8, <2>9, <2>10, QuietKeeps
<1>2. CASE ~open
  <2>1. Dropped(c)
    BY <1>0, <1>2 DEF InsertReply, Dropped
  <2> QED BY <1>0, <1>2, <2>1, DroppedKeeps
<1> QED BY <1>1, <1>2

----------
(* The copies and the deferred run, in every behaviour. *)

LEMMA InitCInv == Init => CInv
<1> SUFFICES ASSUME Init PROVE CInv
  OBVIOUS
<1>1. /\ calls = {} /\ res.id = 1 /\ cache.id = 1 /\ issued = 1
      /\ cache.rows = db /\ shown = db
  BY DEF Init
<1>2. NavInv /\ SavesInv /\ ReadersInv
  BY <1>1 DEF NavInv, SavesInv, ReadersInv, Saves
<1>3. CopyInv
  BY <1>1 DEF CopyInv
<1> QED BY <1>2, <1>3 DEF CInv

LEMMA NextCInv == IInv /\ CInv /\ IInv' /\ [Next]_vars => CInv'
<1> SUFFICES ASSUME IInv, CInv, IInv', [Next]_vars PROVE CInv'
  OBVIOUS
<1>1. CASE Backend
  <2>1. PICK c \in calls : \/ ReadsTable(c) \/ StoresRows(c) \/ WritesTable(c)
                           \/ SyncsCache(c) \/ SyncFails(c)
    BY <1>1 DEF Backend
  <2> QED BY <2>1, ReadsTableKeeps, StoresRowsKeeps, WritesTableKeeps, SyncsCacheKeeps,
             SyncFailsKeeps
<1>2. CASE Reply
  <2>1. PICK c \in calls :
          \/ RunReply(c) \/ RunFailed(c) \/ RefreshReply(c) \/ RefreshFailed(c)
          \/ \E ok, newest \in BOOLEAN : AnalysisReply(c, ok, newest)
          \/ WriteFailed(c) \/ UpdateReply(c) \/ SyncReply(c) \/ InsertReply(c)
    BY <1>2 DEF Reply
  <2> QED BY <2>1, RunReplyKeeps, RunFailedKeeps, RefreshReplyKeeps, RefreshFailedKeeps,
             AnalysisReplyKeeps, WriteFailedKeeps, UpdateReplyKeeps, SyncReplyKeeps,
             InsertReplyKeeps
<1>3. CASE User
  BY <1>3, SetEditModeKeeps, LeaveEditModeKeeps, TypingKeeps, DiscardCurrentRowKeeps,
     SaveCurrentRowKeeps, RequestNavigationKeeps, ConfirmBySavingKeeps,
     ConfirmByDiscardingKeeps, CancelNavigationKeeps, CloseTabKeeps DEF User
<1>4. CASE UNCHANGED vars
  BY <1>4, StillKeeps DEF vars
<1> QED BY <1>1, <1>2, <1>3, <1>4 DEF Next

\* The inductive invariant of the three copies and of the deferred run.
THEOREM CopiesInvariant == Spec => [](IInv /\ CInv)
<1>1. Init => IInv /\ CInv
  BY InitIInv, InitCInv
<1>2. (IInv /\ CInv) /\ [Next]_vars => (IInv /\ CInv)'
  BY NextIInv, NextCInv
<1> QED BY <1>1, <1>2, PTL DEF Spec

\* The table, the backend's cache and the page have the same rows once the calls that move
\* them have ended (saveCurrentRow, update_result_cell, the refresh after an insert), up to
\* the races gaps names.
THEOREM CopiesAlwaysAgree == Spec => []CopiesAgree
<1>1. IInv /\ CInv => CopiesAgree
  <2> SUFFICES ASSUME IInv, CInv, open, res.id # 0, calls = {}
               PROVE  /\ gaps = {} => shown = db
                      /\ gaps \subseteq {"reread"} => cache.id = res.id /\ cache.rows = shown
    BY DEF CopiesAgree, ShownMatchesTable, CacheMatchesScreen
  <2>1. shown \in [Rows -> Values] /\ db \in [Rows -> Values] /\ cache.rows \in [Rows -> Values]
    BY Kept
  <2>2. gaps \subseteq {"reread"} => cache.id = res.id
    BY DEF CInv, CopyInv, Coming, Missed
  <2>3. gaps \subseteq {"reread"} => \A r \in Rows : shown[r] = cache.rows[r]
    BY <2>2 DEF CInv, CopyInv
  <2>4. gaps \subseteq {"reread"} => cache.rows = shown
    BY <2>1, <2>3
  <2>5. gaps = {} => \A r \in Rows : cache.rows[r] = db[r]
    BY DEF CInv, CopyInv
  <2>6. gaps = {} => shown = db
    BY <2>1, <2>4, <2>5
  <2> QED BY <2>2, <2>4, <2>6
<1> QED BY <1>1, CopiesInvariant, PTL

\* Call c, made from the dialog, ends.
NavEnds(c) == c.then = "nav" /\ \A d \in calls' : d.id # c.id

\* An ending call lets the deferred run start only when it was the save, and it went well.
LEMMA EndLetsGo ==
  ASSUME IInv, open, UNCHANGED open, NEW e \in calls, NEW r, NEW f, NEW new, Ends(e, r, f, new),
         NEW of, NEW sql, new = {} \/ new = {Analysis(of, sql, "none")}, f = form \/ f = NoForm,
         NEW c \in calls, NavEnds(c), pending # "none", pending' = "none"
  PROVE  e = c /\ ~r.saveError
<1>1. /\ Twins(Left(e, r), calls \ {e}) /\ Left(e, r) \subseteq calls'
      /\ pending' = (IF Goes(e, r) THEN "none" ELSE pending)
  BY EndsMoves
<1>2. ~r.saveError
  BY <1>1 DEF Goes
<1>3. ASSUME e # c PROVE FALSE
  <2>1. PICK d \in Left(e, r) : Twin(d, c)
    BY <1>1, <1>3 DEF Twins
  <2> QED BY <1>1, <2>1 DEF Twin, NavEnds
<1> QED BY <1>2, <1>3

LEMMA LetsGo ==
  ASSUME IInv, CInv, [Next]_vars, open, pending = "run", pending' = "none",
         form.modified, form.row \in Rows, NEW c \in calls, NavEnds(c)
  PROVE  db[form.row] = form.value \/ "resaved" \in gaps
<1>1. /\ c.kind \in {"update", "sync", "insert"} /\ form.row = c.row /\ form.value = c.value
      /\ c.kind # "insert"
  BY RowsAssumption DEF CInv, NavInv, IInv, DraftInv, NavEnds
<1>2. /\ c \notin calls' /\ pending # "none" /\ (open' => calls' # calls)
      /\ \A d \in calls' : d.id # c.id
  BY DEF NavEnds
<1>3. c.kind = "sync" => db[form.row] = form.value \/ "resaved" \in gaps
  BY <1>1 DEF CInv, SavesInv, Written
<1>4. CASE Reply
  <2>1. PICK e \in calls :
          \/ RunReply(e) \/ RunFailed(e) \/ RefreshReply(e) \/ RefreshFailed(e)
          \/ \E ok, newest \in BOOLEAN : AnalysisReply(e, ok, newest)
          \/ WriteFailed(e) \/ UpdateReply(e) \/ SyncReply(e) \/ InsertReply(e)
    BY <1>4 DEF Reply
  <2> DEFINE new == {}
             of == 0
             sql == 0
  <2>2. ASSUME NEW r, NEW f, Ends(e, r, f, {}), f = form \/ f = NoForm, UNCHANGED open
        PROVE  e = c /\ ~r.saveError
    <3>1. Ends(e, r, f, new) /\ (new = {} \/ new = {Analysis(of, sql, "none")})
      BY <2>2
    <3> HIDE DEF new, of, sql
    <3> QED BY <1>2, <2>2, <3>1, EndLetsGo
  <2> HIDE DEF new, of, sql
  <2>3. ASSUME NEW r, NEW f, NEW i, NEW s, Ends(e, r, f, {Analysis(i, s, "none")}),
               f = form \/ f = NoForm, UNCHANGED open
        PROVE  e = c
    <3> DEFINE some == {Analysis(i, s, "none")}
    <3>1. Ends(e, r, f, some) /\ some = {Analysis(i, s, "none")}
      BY <2>3
    <3> HIDE DEF some
    <3> QED BY <1>2, <2>3, <3>1, EndLetsGo
  <2>4. CASE RunReply(e)
    BY <1>1, <2>3, <2>4 DEF RunReply
  <2>5. CASE RunFailed(e)
    BY <1>1, <2>2, <2>5 DEF RunFailed
  <2>6. CASE RefreshReply(e)
    BY <1>1, <2>2, <2>3, <2>6 DEF RefreshReply
  <2>7. CASE RefreshFailed(e)
    BY <1>1, <2>2, <2>7 DEF RefreshFailed
  <2>8. CASE \E ok, newest \in BOOLEAN : AnalysisReply(e, ok, newest)
    BY <1>2, <2>8 DEF AnalysisReply
  <2>9. CASE WriteFailed(e)
    <3>1. Ends(e, [res EXCEPT !.saveError = TRUE], form, {}) /\ UNCHANGED open
      BY <2>9 DEF WriteFailed
    <3>2. [res EXCEPT !.saveError = TRUE].saveError
      BY Kept DEF ResType
    <3> QED BY <2>2, <3>1, <3>2
  <2>10. CASE UpdateReply(e)
    BY <1>2, <2>10 DEF UpdateReply
  <2>11. CASE SyncReply(e)
    BY <1>3, <2>2, <2>11 DEF SyncReply
  <2>12. CASE InsertReply(e)
    BY <1>2, <2>12 DEF InsertReply
  <2> QED BY <2>1, <2>4, <2>5, <2>6, <2>7, <2>8, <2>9, <2>10, <2>11, <2>12
<1>5. CASE ConfirmByDiscarding \/ CancelNavigation
  <2>1. Orphaned(calls) \subseteq calls'
    BY <1>5 DEF ConfirmByDiscarding, CancelNavigation
  <2>2. Twins(Orphaned(calls), calls)
    BY OrphanedFacts
  <2> QED BY <1>2, <2>1, <2>2 DEF Twins, Twin
<1>6. CASE CloseTab
  BY <1>2, <1>6 DEF CloseTab
<1>7. UNCHANGED pending => FALSE
  BY <1>2
<1>8. CASE Backend
  BY <1>7, <1>8 DEF Backend, ReadsTable, StoresRows, WritesTable, SyncsCache, SyncFails
<1>9. CASE User
  BY <1>2, <1>5, <1>6, <1>7, <1>9 DEF User, SetEditMode, LeaveEditMode, StartEditingRow,
     UpdateCellValue, CloneSelectedRow, DiscardCurrentRow, SaveCurrentRow,
     RequestNavigationAction, ConfirmBySaving
<1> QED BY <1>4, <1>7, <1>8, <1>9 DEF Next, vars

\* A run that a modified row held back starts after "Save" only when the table has the row as
\* it was typed (handleDialogSave, confirmNavigation), unless the row was saved twice at once.
THEOREM DeferredRunAlwaysKeepsEdit == Spec => DeferredRunKeepsEdit
<1>1. IInv /\ CInv /\ [Next]_vars =>
        [open /\ pending = "run" /\ pending' = "none" /\ form.modified /\ form.row \in Rows
           /\ (\E c \in calls : c.then = "nav" /\ \A d \in calls' : d.id # c.id)
         => db[form.row] = form.value \/ "resaved" \in gaps]_vars
  BY LetsGo DEF NavEnds
<1> QED BY <1>1, CopiesInvariant, PTL DEF Spec, DeferredRunKeepsEdit

=============================================================================
