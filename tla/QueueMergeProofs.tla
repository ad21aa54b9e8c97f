--------------------------- MODULE QueueMergeProofs ---------------------------
(***************************************************************************)
(* What a merge may double, and what a run may lose, for any sets of keys  *)
(* and any rows.  A second row of a key needs no invariant: it is enough   *)
(* to look at what MERGE inserts.  For the rows that are lost, the rows    *)
(* whose merge is still ahead of a run stay sound: what they refer to is   *)
(* there, once, or ahead of them.                                          *)
(***************************************************************************)
EXTENDS QueueMerge, TLAPS

\* The rows that the run has still to merge.
Pending == {q \in queue : q.row.kind \in Waiting}

SoundSoFar == run.batch = "sound" /\ run.step # "idle" => Sound(Pending)

MergedOrLate ==
  run.batch = "sound" /\ run.step \in {"log", "delete"} => RowsOf(run.kind) \subseteq run.merged \cup run.late

\* Queues that have been emptied hold what came late, and nothing else.
NothingElse ==
  run.batch = "sound" /\ run.step # "idle" =>
    \A q \in queue : \/ q.row.kind \in Waiting \/ q \in run.late
                     \/ run.step # "merge" /\ q.row.kind = run.kind

\* Nor does it matter that a queue that has been merged is merged again.
Resumes ==
  run.batch = "sound" /\ run.late = {} /\ run.step # "merge" /\ (\A q \in queue : ~Missed(q.row)) => Sound(queue)

NoneLate == run.step = "idle" => run.kind = "School" /\ run.late = {}

Inv == TypeOK /\ NoneLate /\ SoundSoFar /\ MergedOrLate /\ NothingElse /\ Resumes

-----------------------------------------------------------------------------
LEMMA QueuedRows ==
  ASSUME NEW q \in Queued
  PROVE  /\ q.row \in Source /\ q.row.kind \in Kinds
         /\ q = [row |-> q.row, copy |-> q.copy]
         /\ q.row = [kind |-> q.row.kind, key |-> q.row.key, parent |-> q.row.parent]
<1>1. q.row \in Source /\ q = [row |-> q.row, copy |-> q.copy]
  BY DEF Queued
<1> QED
  BY <1>1 DEF Source, Row, Kinds

\* Rows of one key are interchangeable.
LEMMA SameKeyIsEquality ==
  ASSUME NEW r, NEW q, NEW p, SameKey(r, q)
  PROVE  /\ SameKey(q, r) /\ (SameKey(q, p) => SameKey(r, p)) /\ (Missed(r) <=> Missed(q))
         /\ Key(r.kind, r.key) = Key(q.kind, q.key)
  BY DEF SameKey, Missed, Key

\* A key names a kind and a key.
LEMMA KeyNames ==
  ASSUME NEW k, NEW x, NEW l, NEW y, Key(k, x) = Key(l, y)
  PROVE  k = l /\ x = y
<1>1. Key(k, x).kind = k /\ Key(k, x).key = x /\ Key(l, y).kind = l /\ Key(l, y).key = y
  BY DEF Key
<1> QED
  BY <1>1

\* The procedures come in an order.
LEMMA ProcedureOrder ==
  ASSUME NEW j \in Kinds
  PROVE  /\ j \notin Following[j] /\ "School" \notin Following[j]
         /\ Following["StudentClasses"] = {} /\ {"School"} \cup Following["School"] = Kinds
         /\ j # "StudentClasses" =>
              /\ NextProcedure[j] \in Kinds
              /\ Following[j] = {NextProcedure[j]} \cup Following[NextProcedure[j]]
<1>1. CASE j = "School"
  BY <1>1 DEF NextProcedure, Following, Kinds
<1>2. CASE j = "Teacher"
  BY <1>2 DEF NextProcedure, Following, Kinds
<1>3. CASE j = "Student"
  BY <1>3 DEF NextProcedure, Following, Kinds
<1>4. CASE j = "Class"
  BY <1>4 DEF NextProcedure, Following, Kinds
<1>5. CASE j = "StudentClasses"
  BY <1>5 DEF Following, Kinds
<1> QED
  BY <1>1, <1>2, <1>3, <1>4, <1>5 DEF Kinds

LEMMA InsertedRows ==
  ASSUME NEW rs, NEW q \in rs
  PROVE  /\ q \in Inserted(rs) <=> Matched(q.row) = {}
         /\ Matched(q.row) = {} => \A t \in stored : SameKey(t, q.row) => Missed(q.row)
  BY DEF Inserted, Matched

\* An updated row is one of its key.
LEMMA UpdateFits ==
  ASSUME NEW r, NEW t \in Matched(r)
  PROVE  /\ t \in stored /\ SameKey(t, r) /\ SameKey(Update(t, r), r) /\ SameKey(t, Update(t, r))
         /\ Update(t, r) \in {t, r}
         /\ r.kind # "Class" => Update(t, r) = t
         /\ r.kind = "Class" => Update(t, r) = r
  BY DEF Matched, Update, SameKey

-----------------------------------------------------------------------------
\* A row of the merged table is an old row that was not matched, a matched row
\* as updated, or a new row.
LEMMA MergedRows ==
  ASSUME NEW rs, NEW p \in Merged(rs)
  PROVE  \/ p \in stored /\ \A q \in rs : p \notin Matched(q.row)
         \/ \E q \in rs : \E t \in Matched(q.row) : p = Update(t, q.row)
         \/ \E q \in Inserted(rs) : p = q.row
<1>1. ASSUME p \in Updated(rs) PROVE \E q \in rs : \E t \in Matched(q.row) : p = Update(t, q.row)
  <2>1. PICK U \in {{Update(t, q.row) : t \in Matched(q.row)} : q \in rs} : p \in U
    BY <1>1 DEF Updated
  <2> QED
    BY <2>1
<1> QED
  BY <1>1 DEF Merged, Kept

\* Every old row and every row of the queue is there after the merge.
LEMMA MergedHolds ==
  ASSUME NEW rs
  PROVE  /\ \A t \in stored : \E p \in Merged(rs) : SameKey(t, p)
         /\ \A q \in rs : \E p \in Merged(rs) : SameKey(p, q.row)
<1>1. ASSUME NEW q \in rs, NEW t \in Matched(q.row) PROVE Update(t, q.row) \in Merged(rs)
  <2> DEFINE U == {Update(u, q.row) : u \in Matched(q.row)}
  <2>1. Update(t, q.row) \in U
    OBVIOUS
  <2>2. U \in {{Update(u, o.row) : u \in Matched(o.row)} : o \in rs}
    OBVIOUS
  <2> QED
    BY <2>1, <2>2 DEF Updated, Merged
<1>2. ASSUME NEW t \in stored PROVE \E p \in Merged(rs) : SameKey(t, p)
  <2>1. CASE \A q \in rs : t \notin Matched(q.row)
    BY <2>1 DEF Merged, Kept, SameKey
  <2>2. ASSUME NEW q \in rs, t \in Matched(q.row) PROVE \E p \in Merged(rs) : SameKey(t, p)
    BY <1>1, <2>2, UpdateFits
  <2> QED
    BY <2>1, <2>2
<1>3. ASSUME NEW q \in rs PROVE \E p \in Merged(rs) : SameKey(p, q.row)
  <2>1. CASE Matched(q.row) = {}
    BY <2>1 DEF Merged, Inserted, SameKey
  <2>2. ASSUME NEW t \in Matched(q.row) PROVE \E p \in Merged(rs) : SameKey(p, q.row)
    BY <1>1, UpdateFits
  <2> QED
    BY <2>1, <2>2
<1> QED
  BY <1>2, <1>3

\* A row that comes alone for its key, or finds the rows of its key, makes no
\* second one.
LEMMA DoubledRows ==
  ASSUME NEW rs, NEW k \in Doubled(rs)
  PROVE  \E q \in Inserted(rs) :
           /\ k = Key(q.row.kind, q.row.key)
           /\ \/ \E t \in stored : SameKey(t, q.row) /\ Missed(q.row)
              \/ \E o \in rs : o # q /\ SameKey(o.row, q.row)
<1>1. PICK q \in Inserted(rs) : /\ k = Key(q.row.kind, q.row.key)
                                /\ \/ \E t \in stored : SameKey(t, q.row)
                                   \/ \E o \in rs : o # q /\ SameKey(o.row, q.row)
  BY DEF Doubled
<1>2. q \in rs /\ Matched(q.row) = {}
  BY DEF Inserted
<1> QED
  BY <1>1, <1>2, InsertedRows

LEMMA StaysThere ==
  ASSUME NEW rs, stored' = Merged(rs), NEW k, NEW x, There(k, x)
  PROVE  There(k, x)'
<1>1. PICK t \in stored : t.kind = k /\ t.key = x
  BY DEF There
<1>2. PICK p \in stored' : SameKey(t, p)
  BY MergedHolds
<1> QED
  BY <1>1, <1>2 DEF There, SameKey

\* The rows of another kind stay as they are.
LEMMA OthersStay ==
  ASSUME NEW kind, stored' = Merged(RowsOf(kind)), NEW k, k # kind, NEW x, There(k, x)'
  PROVE  There(k, x)
<1>1. PICK p \in stored' : p.kind = k /\ p.key = x
  BY DEF There
<1>2. ASSUME NEW q \in RowsOf(kind), NEW t \in Matched(q.row), p = Update(t, q.row) PROVE FALSE
  BY <1>1, <1>2, UpdateFits DEF RowsOf, SameKey
<1>3. ASSUME NEW q \in Inserted(RowsOf(kind)), p = q.row PROVE FALSE
  BY <1>1, <1>3 DEF RowsOf, Inserted
<1>4. p \in stored
  BY <1>2, <1>3, MergedRows
<1> QED
  BY <1>1, <1>4 DEF There

-----------------------------------------------------------------------------
\* A merge that succeeds keeps the tables in order.
LEMMA MergeKeepsTables ==
  ASSUME TypeOK, NEW kind, CanMerge(RowsOf(kind)), stored' = Merged(RowsOf(kind)),
         several' = several \cup Doubled(RowsOf(kind))
  PROVE  /\ stored' \in SUBSET Source
         /\ several' \in SUBSET {Key(t.kind, t.key) : t \in stored'}
         /\ \A t \in stored' : References(t)'
         /\ \A t \in stored', p \in stored' : SameKey(t, p) => t = p \/ Key(t.kind, t.key) \in several'
<1> DEFINE rs == RowsOf(kind)
<1>1. /\ \A q \in rs : q \in Queued /\ q.row \in Source
      /\ \A q \in rs : Fits(q.row)
      /\ \A q \in rs, p \in rs : ~Clash(q, p)
      /\ Inserted(rs) \subseteq rs
  BY QueuedRows DEF TypeOK, RowsOf, CanMerge, Inserted
<1>2. stored' = Merged(rs) /\ several' = several \cup Doubled(rs)
  OBVIOUS
<1> HIDE DEF rs
<1>3. ASSUME NEW p \in stored'
      PROVE  \/ p \in stored /\ \A q \in rs : p \notin Matched(q.row)
             \/ \E q \in rs : \E t \in Matched(q.row) : p = Update(t, q.row)
             \/ \E q \in Inserted(rs) : p = q.row
  BY <1>2, MergedRows
<1>4. stored' \in SUBSET Source
  <2>1. ASSUME NEW p \in stored' PROVE p \in Source
    BY <1>1, <1>3, UpdateFits DEF TypeOK
  <2> QED
    BY <2>1
<1>5. several' \in SUBSET {Key(t.kind, t.key) : t \in stored'}
  <2>1. ASSUME NEW k \in several PROVE k \in {Key(t.kind, t.key) : t \in stored'}
    <3>1. PICK t \in stored : k = Key(t.kind, t.key)
      BY DEF TypeOK
    <3>2. PICK p \in stored' : SameKey(t, p)
      BY <1>2, MergedHolds
    <3> QED
      BY <3>1, <3>2, SameKeyIsEquality
  <2>2. ASSUME NEW k \in Doubled(rs) PROVE k \in {Key(t.kind, t.key) : t \in stored'}
    <3>1. PICK q \in Inserted(rs) : k = Key(q.row.kind, q.row.key)
      BY DoubledRows
    <3>2. q.row \in stored'
      BY <1>2 DEF Merged
    <3> QED
      BY <3>1, <3>2
  <2> QED
    BY <1>2, <2>1, <2>2
<1>6. ASSUME NEW p \in stored' PROVE References(p)'
  <2>1. \A k, x : There(k, x) => There(k, x)'
    BY <1>2, StaysThere
  <2>2. CASE p \in stored
    BY <2>1, <2>2 DEF TypeOK, References
  <2>3. ASSUME NEW q \in rs, References(q.row), p = q.row PROVE References(p)'
    BY <2>1, <2>3 DEF References
  <2>4. ASSUME NEW q \in rs, NEW t \in Matched(q.row), p = Update(t, q.row), p \notin stored
        PROVE  References(p)'
    <3>1. q.row.kind = "Class" /\ p = q.row
      BY <2>4, UpdateFits
    <3>2. References(q.row)
      BY <1>1, <3>1 DEF Fits, References, Has
    <3> QED
      BY <2>3, <3>1, <3>2
  <2>5. ASSUME NEW q \in Inserted(rs), p = q.row PROVE References(p)'
    <3>1. Matched(q.row) = {} /\ q \in rs
      BY DEF Inserted
    <3>2. References(q.row)
      BY <1>1, <3>1 DEF Fits, References, Has
    <3> QED
      BY <2>3, <2>5, <3>1, <3>2
  <2> QED
    BY <1>3, <2>2, <2>4, <2>5
<1>7. ASSUME NEW t \in stored', NEW p \in stored', SameKey(t, p), t # p
      PROVE  Key(t.kind, t.key) \in several'
  <2>1. SameKey(p, t) /\ Key(t.kind, t.key) = Key(p.kind, p.key)
    BY <1>7, SameKeyIsEquality
  <2>2. CASE t \in stored /\ p \in stored
    BY <1>2, <1>7, <2>2 DEF TypeOK
  \* A new row beside any other one is counted.
  <2>3. ASSUME NEW a \in {t, p}, NEW q \in Inserted(rs), a = q.row PROVE Key(a.kind, a.key) \in several'
    <3>1. PICK b \in {t, p} : b # a /\ SameKey(b, a)
      BY <1>7, <2>1
    <3>2. ASSUME NEW s \in stored, SameKey(s, a) PROVE Key(a.kind, a.key) \in Doubled(rs)
      BY <1>1, <2>3, <3>2 DEF Doubled
    <3>3. CASE b \in stored
      BY <1>2, <3>1, <3>2, <3>3
    <3>4. ASSUME NEW o \in rs, NEW u \in Matched(o.row), b = Update(u, o.row)
          PROVE  Key(a.kind, a.key) \in several'
      <4>1. u \in stored /\ SameKey(u, b)
        BY <3>4, UpdateFits
      <4>2. SameKey(u, a)
        BY <3>1, <4>1, SameKeyIsEquality
      <4> QED
        BY <1>2, <3>2, <4>1, <4>2
    <3>5. ASSUME NEW o \in Inserted(rs), b = o.row PROVE Key(a.kind, a.key) \in several'
      <4>1. o # q /\ o \in rs /\ SameKey(o.row, q.row)
        BY <1>1, <2>3, <3>1, <3>5
      <4> QED
        BY <1>2, <2>3, <4>1 DEF Doubled
    <3> QED
      BY <1>3, <3>1, <3>3, <3>4, <3>5
  \* An updated class has no other row of its key beside it.
  <2>4. ASSUME NEW a \in {t, p}, NEW b \in {t, p}, a # b, a \notin stored,
               NEW q \in rs, NEW u \in Matched(q.row), a = Update(u, q.row),
               b \notin {o.row : o \in Inserted(rs)}
        PROVE  FALSE
    <3>1. q.row.kind = "Class" /\ a = q.row /\ u \in stored
      BY <2>4, UpdateFits
    <3>2. SameKey(b, a) /\ SameKey(a, b) /\ b.kind = "Class"
      BY <1>7, <2>1, <2>4, <3>1 DEF SameKey
    <3>3. ASSUME b \in stored PROVE b \in Matched(q.row)
      BY <3>1, <3>2, <3>3 DEF Matched, Missed
    <3>4. PICK o \in rs : \E w \in Matched(o.row) : b = Update(w, o.row)
      BY <1>3, <2>4, <3>3
    <3>5. o.row.kind = "Class" /\ b = o.row
      BY <3>2, <3>4, UpdateFits DEF SameKey
    <3>6. Clash(q, o)
      BY <2>4, <3>1, <3>2, <3>5 DEF Clash
    <3> QED
      BY <1>1, <3>6
  <2> QED
    BY <1>3, <1>7, <2>1, <2>2, <2>3, <2>4
<1> QED
  BY <1>4, <1>5, <1>6, <1>7

-----------------------------------------------------------------------------
\* What comes to a sound row has come, once, or still comes, after a merge.
LEMMA ComesStays ==
  ASSUME TypeOK, NEW kind, stored' = Merged(RowsOf(kind)), several' = several \cup Doubled(RowsOf(kind)),
         NEW R, RowsOf(kind) \subseteq R, R \subseteq queue, Sound(R),
         NEW S, R \ RowsOf(kind) \subseteq S,
         NEW k, k # "StudentClasses", NEW x, Comes(R, k, x),
         k = "Student" => \A p \in R : p.row.key = x /\ Missed(p.row) => ~There("Student", x)
  PROVE  Comes(S, k, x)'
<1> DEFINE rs == RowsOf(kind)
<1>1. /\ stored' = Merged(rs) /\ several' = several \cup Doubled(rs)
      /\ rs \subseteq R /\ R \ rs \subseteq S /\ Inserted(rs) \subseteq rs
      /\ \A q \in rs : q.row.kind = kind
      /\ \A q \in R : q.row.kind = kind => q \in rs
  BY DEF RowsOf, Inserted
<1>2. \A q \in R, p \in R : SameKey(p.row, q.row) => p = q
  BY DEF Sound
<1>3. ASSUME There(k, x) \/ \E q \in rs : q.row.kind = k /\ q.row.key = x PROVE There(k, x)'
  <2>1. CASE There(k, x)
    BY <2>1, StaysThere
  <2>2. ASSUME NEW q \in rs, q.row.kind = k, q.row.key = x PROVE There(k, x)'
    <3>1. PICK p \in stored' : SameKey(p, q.row)
      BY <1>1, MergedHolds
    <3> QED
      BY <2>2, <3>1 DEF There, SameKey
  <2> QED
    BY <1>3, <2>1, <2>2
<1>4. ASSUME Key(k, x) \in Doubled(rs) PROVE There(k, x) /\ k = "Student"
                                             /\ \E p \in R : p.row.key = x /\ Missed(p.row)
  <2>1. PICK q \in Inserted(rs) :
           /\ Key(k, x) = Key(q.row.kind, q.row.key)
           /\ \/ \E t \in stored : SameKey(t, q.row) /\ Missed(q.row)
              \/ \E o \in rs : o # q /\ SameKey(o.row, q.row)
    BY <1>4, DoubledRows
  <2>2. k = q.row.kind /\ x = q.row.key /\ q \in R
    BY <1>1, <2>1, KeyNames
  <2>3. PICK t \in stored : SameKey(t, q.row) /\ Missed(q.row)
    BY <1>1, <1>2, <2>1, <2>2
  <2> QED
    BY <2>2, <2>3 DEF SameKey, Missed, There
<1>5. CASE Has(k, x)
  <2>1. Key(k, x) \notin Doubled(rs)
    BY <1>4
  <2> QED
    BY <1>1, <1>3, <1>5, <2>1 DEF Has, Comes
<1>6. ASSUME ~There(k, x), NEW q \in R, q.row.kind = k, q.row.key = x PROVE Comes(S, k, x)'
  <2>1. CASE k = kind
    <3>1. There(k, x)'
      BY <1>1, <1>3, <1>6, <2>1
    <3>2. Key(k, x) \notin several
      <4>1. ASSUME NEW t \in stored, Key(k, x) = Key(t.kind, t.key) PROVE FALSE
        BY <1>6, <4>1, KeyNames DEF There
      <4> QED
        BY <4>1 DEF TypeOK
    <3>3. Key(k, x) \notin Doubled(rs)
      BY <1>4, <1>6
    <3> QED
      BY <1>1, <3>1, <3>2, <3>3 DEF Has, Comes
  <2>2. CASE k # kind
    <3>1. q \in S
      BY <1>1, <1>6, <2>2
    <3>2. ~There(k, x)'
      BY <1>6, <2>2, OthersStay
    <3> QED
      BY <1>6, <3>1, <3>2 DEF Comes
  <2> QED
    BY <2>1, <2>2
<1> QED
  BY <1>5, <1>6 DEF Comes

\* So the rows that a run has still to merge stay sound, as do those that it has
\* merged, unless a student among them is not found again.
LEMMA MergeKeepsSound ==
  ASSUME TypeOK, NEW kind, stored' = Merged(RowsOf(kind)), several' = several \cup Doubled(RowsOf(kind)),
         NEW R, RowsOf(kind) \subseteq R, R \subseteq queue, Sound(R),
         NEW S, R \ RowsOf(kind) \subseteq S, S \subseteq R,
         S \cap RowsOf(kind) = {} \/ \A q \in S : ~Missed(q.row)
  PROVE  Sound(S)'
<1> SUFFICES ASSUME NEW q \in S
             PROVE  /\ \A p \in S : SameKey(p.row, q.row) => p = q
                    /\ HasRoom(q.row)
                    /\ q.row.kind = "Student" => Matched(q.row)' # {} \/ Comes(S, "School", q.row.parent)'
                    /\ q.row.kind = "Class" => Comes(S, "Teacher", q.row.parent)'
                    /\ q.row.kind = "StudentClasses" =>
                         /\ Comes(S, "Class", q.row.parent)' /\ Comes(S, "Student", q.row.key)'
                         /\ \A p \in S : p.row.key = q.row.key /\ Missed(p.row) =>
                                           ~There("Student", q.row.key)'
  BY DEF Sound, SameKey, HasRoom, Missed
<1>1. q \in R /\ \A p \in S : p \in R
  OBVIOUS
<1>2. /\ \A p \in R : SameKey(p.row, q.row) => p = q
      /\ HasRoom(q.row)
      /\ q.row.kind = "Student" => Matched(q.row) # {} \/ Comes(R, "School", q.row.parent)
      /\ q.row.kind = "Class" => Comes(R, "Teacher", q.row.parent)
      /\ q.row.kind = "StudentClasses" =>
           /\ Comes(R, "Class", q.row.parent) /\ Comes(R, "Student", q.row.key)
           /\ \A p \in R : p.row.key = q.row.key /\ Missed(p.row) => ~There("Student", q.row.key)
  BY <1>1 DEF Sound
<1>3. \A k, x : /\ k # "StudentClasses" /\ Comes(R, k, x)
                /\ k = "Student" => \A p \in R : p.row.key = x /\ Missed(p.row) => ~There("Student", x)
                => Comes(S, k, x)'
  BY ComesStays
<1>4. ASSUME Matched(q.row) # {} PROVE Matched(q.row)' # {}
  <2>1. PICK t \in stored : SameKey(t, q.row) /\ ~Missed(q.row)
    BY <1>4 DEF Matched
  <2>2. PICK p \in stored' : SameKey(t, p)
    BY MergedHolds
  <2>3. SameKey(p, q.row)
    BY <2>1, <2>2, SameKeyIsEquality
  <2> QED
    BY <2>1, <2>3 DEF Matched, SameKey, Missed
<1>5. ASSUME q.row.kind = "StudentClasses", NEW p \in S, p.row.key = q.row.key, Missed(p.row)
      PROVE  ~There("Student", q.row.key)'
  <2>1. p.row.kind = "Student" /\ p \notin RowsOf(kind) /\ p \in queue
    BY <1>5 DEF Missed
  <2>2. kind # "Student"
    BY <2>1 DEF RowsOf
  <2> QED
    BY <1>1, <1>2, <1>5, <2>2, OthersStay
<1> QED
  BY <1>1, <1>2, <1>3, <1>4, <1>5

\* The rows of a sound batch can be merged when their merge comes.
LEMMA SoundMerges ==
  ASSUME TypeOK, run.step = "merge", Sound(Pending)
  PROVE  CanMerge(RowsOf(run.kind))
<1>1. run.kind \in Kinds
  BY DEF TypeOK, Run
<1>2. \A q \in RowsOf(run.kind) : q \in Pending /\ q.row.kind = run.kind
  BY DEF RowsOf, Pending, Waiting
<1>3. \A k \in Kinds : k \notin Waiting => \A x : Comes(Pending, k, x) => Has(k, x)
  BY DEF Comes, Pending
<1>4. /\ run.kind = "Student" => "School" \notin Waiting
      /\ run.kind = "Class" => "Teacher" \notin Waiting
      /\ run.kind = "StudentClasses" => "Class" \notin Waiting /\ "Student" \notin Waiting
  BY DEF Waiting, Following
<1>5. {"School", "Teacher", "Student", "Class"} \subseteq Kinds
  BY DEF Kinds
<1>6. ASSUME NEW q \in RowsOf(run.kind) PROVE Fits(q.row) /\ HasRoom(q.row)
  BY <1>2, <1>3, <1>4, <1>5 DEF Sound, Fits
<1>7. ASSUME NEW q \in RowsOf(run.kind), NEW p \in RowsOf(run.kind), Clash(q, p) PROVE FALSE
  BY <1>2, <1>7 DEF Clash, Sound
<1> QED
  BY <1>6, <1>7 DEF CanMerge

-----------------------------------------------------------------------------
\* While the tables stay as they are, so do the things that are said of them.
LEMMA SameTables ==
  ASSUME UNCHANGED <<stored, several>>
  PROVE  /\ \A rs : Sound(rs)' <=> Sound(rs)
         /\ stored \in SUBSET Source => stored' \in SUBSET Source
         /\ several \in SUBSET {Key(t.kind, t.key) : t \in stored} =>
              several' \in SUBSET {Key(t.kind, t.key) : t \in stored'}
         /\ (\A t \in stored : References(t)) => \A t \in stored' : References(t)'
         /\ (\A t \in stored, p \in stored : SameKey(t, p) => t = p \/ Key(t.kind, t.key) \in several) =>
              \A t \in stored', p \in stored' : SameKey(t, p) => t = p \/ Key(t.kind, t.key) \in several'
  BY DEF Sound, Comes, Has, There, Matched, References

LEMMA InitInv == Init => Inv
  BY DEF Init, Inv, TypeOK, Idle, Run, Kinds, SoundSoFar, MergedOrLate, NothingElse, Resumes, NoneLate

LEMMA EnqueueInv == ASSUME Inv, Enqueue PROVE Inv'
<1> USE DEF Inv
<1>1. PICK r \in Source :
        /\ queue' = queue \cup {Arriving(r)}
        /\ run' = IF run.batch = "sound" /\ r.kind \notin Waiting
                  THEN [run EXCEPT !.late = @ \cup {Arriving(r)}]
                  ELSE [run EXCEPT !.batch = "other", !.merged = {}, !.late = {}]
  BY DEF Enqueue
<1>2. Arriving(r) \in Queued /\ Arriving(r).row = r
  BY DEF Arriving, Queued
<1>3. UNCHANGED <<stored, several>>
  BY DEF Enqueue
<1>4. run \in Run /\ run' \in Run
  BY <1>1, <1>2 DEF TypeOK, Run
<1>5. TypeOK'
  BY <1>1, <1>2, <1>3, <1>4, SameTables DEF TypeOK
<1>6. CASE run.batch = "sound" /\ r.kind \notin Waiting
  <2>1. /\ run'.step = run.step /\ run'.kind = run.kind /\ run'.merged = run.merged
        /\ run'.late = run.late \cup {Arriving(r)} /\ run'.batch = run.batch
    BY <1>1, <1>4, <1>6 DEF Run
  <2>2. Pending' = Pending
    BY <1>1, <1>2, <1>6, <2>1 DEF Pending, Waiting
  <2>3. SoundSoFar'
    BY <1>3, <2>1, <2>2, SameTables DEF SoundSoFar
  <2>4. MergedOrLate'
    BY <1>1, <2>1 DEF MergedOrLate, RowsOf
  <2>5. run'.late # {}
    BY <2>1
  <2>6. run.step # "idle"
    BY <1>6, ProcedureOrder DEF NoneLate, Waiting, Source, Row, Kinds
  <2>7. NothingElse'
    BY <1>1, <2>1 DEF NothingElse, Waiting
  <2> QED
    BY <1>5, <2>1, <2>3, <2>4, <2>5, <2>6, <2>7 DEF Resumes, NoneLate
<1>7. CASE ~(run.batch = "sound" /\ r.kind \notin Waiting)
  <2>1. run'.batch = "other" /\ run'.late = {} /\ run'.step = run.step /\ run'.kind = run.kind
    BY <1>1, <1>4, <1>7 DEF Run
  <2> QED
    BY <1>5, <2>1 DEF SoundSoFar, MergedOrLate, NothingElse, Resumes, NoneLate
<1> QED
  BY <1>6, <1>7

LEMMA StartInv == ASSUME Inv, Start PROVE Inv'
<1> USE DEF Inv
<1>1. /\ run' = [step |-> "merge", kind |-> "School", merged |-> {}, late |-> {},
                 batch |-> IF Sound(queue) THEN "sound" ELSE "other"]
      /\ queue' = queue /\ UNCHANGED <<stored, several>>
  BY DEF Start
<1>2. run' \in Run
  BY <1>1 DEF Run, Kinds
<1>3. TypeOK'
  BY <1>1, <1>2, SameTables DEF TypeOK
<1>4. Waiting' = Kinds
  BY <1>1 DEF Waiting, Following, Kinds
<1>5. \A q \in queue : q.row.kind \in Kinds
  BY QueuedRows DEF TypeOK
<1>6. Pending' = queue
  BY <1>1, <1>4, <1>5 DEF Pending
<1>7. SoundSoFar'
  BY <1>1, <1>6, SameTables DEF SoundSoFar
<1> QED
  BY <1>1, <1>3, <1>4, <1>5, <1>7 DEF MergedOrLate, NothingElse, Resumes, NoneLate

LEMMA MergeInv == ASSUME Inv, Merge PROVE Inv'
<1> USE DEF Inv
<1> DEFINE rs == RowsOf(run.kind)
<1>1. run.step = "merge" /\ queue' = queue /\ run \in Run /\ run.kind \in Kinds
  BY DEF Merge, TypeOK, Run
<1>2. rs \in SUBSET Queued
  BY DEF RowsOf, TypeOK
<1>3. CASE /\ CanMerge(rs)
           /\ stored' = Merged(rs)
           /\ several' = several \cup Doubled(rs)
           /\ run' = [run EXCEPT !.step = "log", !.merged = IF run.batch = "sound" THEN rs ELSE {}]
  <2>1. run' \in Run
    BY <1>1, <1>2, <1>3 DEF Run
  <2>2. TypeOK'
    BY <1>1, <1>3, <2>1, MergeKeepsTables DEF TypeOK
  <2>3. /\ run'.step = "log" /\ run'.kind = run.kind /\ run'.late = run.late /\ run'.batch = run.batch
        /\ run.batch = "sound" => run'.merged = rs
    BY <1>1, <1>3 DEF Run
  <2>4. /\ Waiting = Waiting' \cup {run.kind} /\ run.kind \notin Waiting'
    BY <1>1, <2>3, ProcedureOrder DEF Waiting
  <2>5. Pending' = Pending \ rs /\ rs \subseteq Pending /\ Pending \subseteq queue
    BY <1>1, <2>4 DEF Pending, RowsOf
  <2>6. SoundSoFar'
    <3>1. CASE run.batch = "sound"
      <4>1. Sound(Pending)
        BY <1>1, <3>1 DEF SoundSoFar
      <4> PICK R, S : R = Pending /\ S = Pending \ rs
        OBVIOUS
      <4>2. /\ Sound(R) /\ rs \subseteq R /\ R \subseteq queue /\ R \ rs \subseteq S /\ S \subseteq R
            /\ S \cap rs = {} /\ S = Pending'
        BY <2>5, <4>1
      <4>3. Sound(S)'
        BY <1>3, <4>2, MergeKeepsSound
      <4> QED
        BY <4>2, <4>3 DEF SoundSoFar
    <3>2. CASE run.batch # "sound"
      BY <2>3, <3>2 DEF SoundSoFar
    <3> QED
      BY <3>1, <3>2
  <2>7. MergedOrLate'
    BY <1>1, <2>3 DEF MergedOrLate, RowsOf
  <2>8. NothingElse'
    BY <1>1, <2>3, <2>4 DEF NothingElse
  <2>9. Resumes'
    <3> SUFFICES ASSUME run.batch = "sound", run.late = {}, \A q \in queue : ~Missed(q.row)
                 PROVE  Sound(queue)'
      BY <1>1, <2>3 DEF Resumes, Missed
    <3>1. Pending = queue
      BY <1>1 DEF NothingElse, Pending
    <3>2. Sound(queue)
      BY <1>1, <3>1 DEF SoundSoFar
    <3> PICK Q : Q = queue
      OBVIOUS
    <3>3. /\ Sound(Q) /\ rs \subseteq Q /\ Q \subseteq queue /\ Q \ rs \subseteq Q /\ Q \subseteq Q
          /\ \A q \in Q : ~Missed(q.row)
      BY <3>2 DEF RowsOf
    <3>4. queue' = Q
      BY <1>1
    <3>5. Sound(Q)'
      BY <1>3, <3>3, MergeKeepsSound
    <3> QED
      BY <3>4, <3>5
  <2> QED
    BY <2>2, <2>3, <2>6, <2>7, <2>8, <2>9 DEF NoneLate
<1>4. CASE ~CanMerge(rs) /\ run' = [run EXCEPT !.step = "log"] /\ UNCHANGED <<stored, several>>
  <2>1. run' \in Run /\ run'.batch = run.batch /\ run'.step = "log"
    BY <1>1, <1>4 DEF Run
  <2>2. TypeOK'
    BY <1>1, <1>4, <2>1, SameTables DEF TypeOK
  <2>3. run.batch # "sound"
    BY <1>1, <1>4, SoundMerges DEF SoundSoFar
  <2> QED
    BY <2>1, <2>2, <2>3 DEF SoundSoFar, MergedOrLate, NothingElse, Resumes, NoneLate
<1> QED
  BY <1>3, <1>4 DEF Merge

LEMMA LogInv == ASSUME Inv, Log PROVE Inv'
<1> USE DEF Inv
<1>1. /\ run.step = "log" /\ run' = [run EXCEPT !.step = "delete"] /\ run \in Run
      /\ queue' = queue /\ UNCHANGED <<stored, several>>
  BY DEF Log, TypeOK
<1>2. /\ run' \in Run /\ run'.step = "delete" /\ run'.kind = run.kind /\ run'.merged = run.merged
      /\ run'.late = run.late /\ run'.batch = run.batch
  BY <1>1 DEF Run
<1>3. TypeOK'
  BY <1>1, <1>2, SameTables DEF TypeOK
<1>4. Waiting' = Waiting /\ Pending' = Pending
  BY <1>1, <1>2 DEF Waiting, Pending
<1>5. SoundSoFar'
  BY <1>1, <1>2, <1>4, SameTables DEF SoundSoFar
<1>6. MergedOrLate' /\ NothingElse'
  BY <1>1, <1>2, <1>4 DEF MergedOrLate, NothingElse, RowsOf
<1>7. Resumes'
  BY <1>1, <1>2, SameTables DEF Resumes
<1> QED
  BY <1>2, <1>3, <1>5, <1>6, <1>7 DEF NoneLate

LEMMA DeleteInv == ASSUME Inv, Delete PROVE Inv'
<1> USE DEF Inv
<1>1. /\ run.step = "delete" /\ run \in Run /\ run.kind \in Kinds
      /\ queue' = queue \ RowsOf(run.kind) /\ UNCHANGED <<stored, several>>
      /\ run' = IF run.kind = "StudentClasses" THEN Idle
                ELSE [run EXCEPT !.step = "merge", !.kind = NextProcedure[run.kind], !.merged = {},
                                 !.late = @ \cap queue']
  BY DEF Delete, Proceed, TypeOK, Run
<1>2. CASE run.kind = "StudentClasses"
  <2>1. run' = Idle
    BY <1>1, <1>2
  <2>2. run' \in Run
    BY <2>1 DEF Idle, Run, Kinds
  <2>3. TypeOK'
    BY <1>1, <2>2, SameTables DEF TypeOK
  <2> QED
    BY <2>1, <2>3 DEF Idle, SoundSoFar, MergedOrLate, NothingElse, Resumes, NoneLate
<1>3. CASE run.kind # "StudentClasses"
  <2>1. NextProcedure[run.kind] \in Kinds
    BY <1>1, <1>3, ProcedureOrder
  <2>2. /\ run' \in Run /\ run'.step = "merge" /\ run'.kind = NextProcedure[run.kind]
        /\ run'.late = run.late \cap queue' /\ run'.batch = run.batch
    BY <1>1, <1>3, <2>1 DEF Run
  <2>3. TypeOK'
    BY <1>1, <2>2, SameTables DEF TypeOK
  <2>4. Waiting' = Waiting /\ run.kind \notin Waiting
    BY <1>1, <1>3, <2>2, ProcedureOrder DEF Waiting
  <2>5. Pending' = Pending
    BY <1>1, <2>4 DEF Pending, RowsOf
  <2>6. SoundSoFar'
    BY <1>1, <2>2, <2>5, SameTables DEF SoundSoFar
  <2>7. NothingElse'
    BY <1>1, <2>2, <2>4 DEF NothingElse, RowsOf
  <2> QED
    BY <2>2, <2>3, <2>6, <2>7 DEF MergedOrLate, Resumes, NoneLate
<1> QED
  BY <1>2, <1>3

LEMMA StopInv == ASSUME Inv, Stop PROVE Inv'
<1> USE DEF Inv
<1>1. /\ run.step # "idle" /\ run \in Run /\ queue' = queue /\ UNCHANGED <<stored, several>>
      /\ run' = [Idle EXCEPT !.batch = IF run.late = {} THEN run.batch ELSE "other"]
  BY DEF Stop, TypeOK
<1>2. /\ run' \in Run /\ run'.step = "idle" /\ run'.kind = "School" /\ run'.late = {}
      /\ run'.batch = IF run.late = {} THEN run.batch ELSE "other"
  BY <1>1 DEF Idle, Run, Kinds
<1>3. TypeOK'
  BY <1>1, <1>2, SameTables DEF TypeOK
<1>4. Resumes'
  <2> SUFFICES ASSUME run.batch = "sound", run.late = {}, \A q \in queue : ~Missed(q.row)
               PROVE  Sound(queue)
    BY <1>1, <1>2, SameTables DEF Resumes
  <2>1. CASE run.step = "merge"
    <3>1. Pending = queue
      BY <2>1 DEF NothingElse, Pending
    <3> QED
      BY <2>1, <3>1 DEF SoundSoFar
  <2>2. CASE run.step # "merge"
    BY <2>2 DEF Resumes
  <2> QED
    BY <2>1, <2>2
<1> QED
  BY <1>2, <1>3, <1>4 DEF NoneLate, SoundSoFar, MergedOrLate, NothingElse

LEMMA NextInv == Inv /\ [Next]_vars => Inv'
<1> SUFFICES ASSUME Inv, [Next]_vars PROVE Inv'
  OBVIOUS
<1>1. CASE UNCHANGED vars
  <2>1. queue' = queue /\ run' = run /\ UNCHANGED <<stored, several>>
    BY <1>1 DEF vars
  <2>2. Pending' = Pending /\ Waiting' = Waiting
    BY <2>1 DEF Pending, Waiting
  <2> QED
    BY <2>1, <2>2, SameTables DEF Inv, TypeOK, SoundSoFar, MergedOrLate, NothingElse, Resumes, NoneLate, RowsOf
<1> QED
  BY <1>1, EnqueueInv, StartInv, MergeInv, LogInv, DeleteInv, StopInv DEF Next

LEMMA Invariant == Spec => []Inv
  BY InitInv, NextInv, PTL DEF Spec

-----------------------------------------------------------------------------
\* Queues, tables and the run have their types, and every row refers to rows
\* that are there.
THEOREM TypeCorrect == Spec => []TypeOK
<1>1. Inv => TypeOK
  BY DEF Inv
<1> QED
  BY <1>1, Invariant, PTL

\* However often a row is sent and wherever a run is stopped, a key gets a second
\* row only when its first rows come together, or when it is a student's whose
\* SIS id is another.
THEOREM KeysDoubleTogether == Spec => SecondRowsComeTogether
<1> DEFINE Together(k) ==
      \/ k.kind = "Student" /\ k.key \notin OneId
      \/ /\ ~There(k.kind, k.key)
         /\ \E q \in queue, p \in queue : q # p /\ Key(q.row.kind, q.row.key) = k
                                                /\ Key(p.row.kind, p.row.key) = k
<1>1. ASSUME [Next]_vars, NEW k \in several' \ several PROVE Together(k)
  <2>1. Merge
    BY <1>1 DEF Next, vars, Enqueue, Start, Log, Delete, Stop
  <2> DEFINE rs == RowsOf(run.kind)
  <2>2. CanMerge(rs) /\ several' = several \cup Doubled(rs) /\ rs \subseteq queue
    BY <1>1, <2>1 DEF Merge, RowsOf
  <2> HIDE DEF rs
  <2>3. PICK q \in Inserted(rs) :
           /\ k = Key(q.row.kind, q.row.key)
           /\ \/ \E t \in stored : SameKey(t, q.row) /\ Missed(q.row)
              \/ \E o \in rs : o # q /\ SameKey(o.row, q.row)
    BY <1>1, <2>2, DoubledRows
  <2>4. q \in rs /\ Matched(q.row) = {} /\ k.kind = q.row.kind /\ k.key = q.row.key
    BY <2>3 DEF Inserted, Key
  <2>5. CASE Missed(q.row)
    BY <2>4, <2>5 DEF Missed
  <2>6. ASSUME ~Missed(q.row), NEW o \in rs, o # q, SameKey(o.row, q.row) PROVE Together(k)
    <3>1. q.row.kind # "StudentClasses"
      <4>1. SameKey(q.row, o.row)
        BY <2>6, SameKeyIsEquality
      <4> QED
        BY <2>2, <2>4, <2>6, <4>1 DEF CanMerge, Clash
    <3>2. ~There(k.kind, k.key)
      BY <2>4, <2>6, <3>1 DEF There, Matched, SameKey
    <3>3. Key(o.row.kind, o.row.key) = k
      BY <2>3, <2>6, SameKeyIsEquality
    <3> QED
      BY <2>2, <2>3, <2>4, <2>6, <3>2, <3>3
  <2> QED
    BY <2>3, <2>5, <2>6
<1>2. [Next]_vars => [\A k \in several' \ several : Together(k)]_vars
  BY <1>1
<1> QED
  BY <1>2, PTL DEF Spec, SecondRowsComeTogether

\* Of a sound batch a run loses no row: ProcessQueues takes the queues in an order
\* in which every lookup finds its row, and what is lost came too late.
THEOREM LossesCameLate == Spec => LostRowsCameLate
<1>1. ASSUME Inv, [Next]_vars, run.batch = "sound" PROVE queue \ queue' \subseteq run.merged \cup run.late
  <2>1. CASE Delete
    BY <1>1, <2>1 DEF Delete, Inv, MergedOrLate, RowsOf
  <2>2. CASE ~Delete
    BY <1>1, <2>2 DEF Next, vars, Enqueue, Start, Merge, Log, Stop
  <2> QED
    BY <2>1, <2>2
<1>2. Inv /\ [Next]_vars => [run.batch = "sound" => queue \ queue' \subseteq run.merged \cup run.late]_vars
  BY <1>1
<1> QED
  BY <1>2, Invariant, PTL DEF Spec, LostRowsCameLate

\* A run of a sound batch that is stopped anywhere can be run again, unless a
\* student waits whom the merge will not find.
THEOREM StoppedRunsResume == Spec => []StoppedBatchResumes
<1>1. Inv => StoppedBatchResumes
  <2> SUFFICES ASSUME Inv, run.step = "idle", run.batch = "sound", \A q \in queue : ~Missed(q.row)
               PROVE  Sound(queue)
    BY DEF StoppedBatchResumes
  <2>1. run.late = {}
    BY DEF Inv, NoneLate
  <2> QED
    BY <2>1 DEF Inv, Resumes
<1> QED
  BY <1>1, Invariant, PTL

=============================================================================
