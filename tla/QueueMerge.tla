------------------------------ MODULE QueueMerge ------------------------------
(***************************************************************************)
(* ProcessQueues, the job that brings schools, teachers, students, classes *)
(* and enrollments from the queues of the district's systems into the      *)
(* site's tables.  For each entity in turn one statement merges its queue, *)
(* one logs the result and one empties the queue; there is no transaction  *)
(* around them, so the job can be stopped between two of them, rows may    *)
(* arrive in between, and when a merge fails the statements after it are   *)
(* executed all the same, unless the caller of the job gives up.           *)
(*                                                                         *)
(* No queue and no table has a unique key but its own identity, except     *)
(* SSD.StudentClasses, so a key may be queued, and stored, several times.  *)
(* A student has a StudentKey, by which its enrollments find it, and a     *)
(* StudentSISId, which the source gives it for good and shares with nobody *)
(* else's key.  The merge compares the SIS id of a row that is there with  *)
(* the key of a row that comes, so it finds a student again only if the    *)
(* two are the same.  Keys are not null.  Names are left out, but for      *)
(* being too long; the log is never read.                                  *)
(***************************************************************************)
EXTENDS FiniteSets, Naturals

CONSTANTS Schools, Teachers, Students, Classes, NoKey,
          OneId,           \* the students whose SIS id is their key
          TooLong,         \* the keys that @OutputTable has no room for (50 characters),
                           \*   or no room for the name of
          MaxQueued        \* bound on the rows queued at once

ASSUME IdAssumption == OneId \subseteq Students

VARIABLES queue,           \* the rows of the five queues
          stored,          \* the rows of the five tables that differ
          several,         \* the keys that have more than one row there
          run              \* where ProcessQueues is

vars == <<queue, stored, several, run>>

Row(kind, keys, parents) == [kind : {kind}, key : keys, parent : parents]

\* A row: a school's, a teacher's, a student's with its school, a class's with
\* its teacher, or an enrollment: of a student, in a class.
Source == Row("School", Schools, {NoKey}) \cup Row("Teacher", Teachers, {NoKey})
            \cup Row("Student", Students, Schools) \cup Row("Class", Classes, Teachers)
            \cup Row("StudentClasses", Students, Classes)

Kinds == {"School", "Teacher", "Student", "Class", "StudentClasses"}

SameKey(r, q) == /\ r.kind = q.kind /\ r.key = q.key
                 /\ r.kind = "StudentClasses" => r.parent = q.parent

\* Equal rows in a queue: the first of them and all the others.
Queued == [row : Source, copy : {"first", "again"}]

Key(kind, key) == [kind |-> kind, key |-> key]

Run == [step : {"idle", "merge", "log", "delete"},
        kind : Kinds,
        batch : {"sound", "other"},   \* what the run has before it (history)
        merged : SUBSET Queued,       \* of a sound batch: what the last merge took, and
        late : SUBSET Queued]         \*   what waits that came after the merge of its
                                      \*   queue (history)

Idle == [step |-> "idle", kind |-> "School", merged |-> {}, late |-> {}, batch |-> "other"]

RowsOf(kind) == {q \in queue : q.row.kind = kind}

There(kind, key) == \E t \in stored : t.kind = kind /\ t.key = key

\* A lookup by key finds one row: none is NULL, two are an error.
Has(kind, key) == There(kind, key) /\ Key(kind, key) \notin several

\* A student the merge does not find again.
Missed(r) == r.kind = "Student" /\ r.key \notin OneId

\* The rows that MERGE finds matched by r.
Matched(r) == {t \in stored : SameKey(t, r) /\ ~Missed(r)}

\* Every row that the row r refers to is there.
References(r) ==
  /\ r.kind = "Student" => There("School", r.parent)
  /\ r.kind = "Class" => There("Teacher", r.parent)
  /\ r.kind = "StudentClasses" => There("Class", r.parent) /\ There("Student", r.key)

\* Every variable has its type, every stored row has the rows it refers to, and
\* the keys whose rows differ are among those with several.
TypeOK ==
  /\ queue \in SUBSET Queued
  /\ stored \in SUBSET Source
  /\ several \in SUBSET {Key(t.kind, t.key) : t \in stored}
  /\ run \in Run
  /\ \A t \in stored : References(t)
  /\ \A t \in stored, p \in stored : SameKey(t, p) => t = p \/ Key(t.kind, t.key) \in several

Init ==
  /\ queue = {}
  /\ stored = {}
  /\ several = {}
  /\ run = Idle

-----------------------------------------------------------------------------
\* The row that a queue gets for r.
Arriving(r) ==
  [row |-> r, copy |-> IF [row |-> r, copy |-> "first"] \in queue THEN "again" ELSE "first"]

\* The order of ProcessQueues.
Following == [School |-> {"Teacher", "Student", "Class", "StudentClasses"},
              Teacher |-> {"Student", "Class", "StudentClasses"},
              Student |-> {"Class", "StudentClasses"},
              Class |-> {"StudentClasses"}, StudentClasses |-> {}]

\* The kinds whose queues the run has still to merge.
Waiting == Following[run.kind] \cup (IF run.step \in {"idle", "merge"} THEN {run.kind} ELSE {})

\* The district's systems put a row into a queue, whether a run is under way or not.
Enqueue ==
  /\ Cardinality(queue) < MaxQueued
  /\ \E r \in Source :
       /\ queue' = queue \cup {Arriving(r)}
       /\ run' = IF run.batch = "sound" /\ r.kind \notin Waiting
                 THEN [run EXCEPT !.late = @ \cup {Arriving(r)}]
                 ELSE [run EXCEPT !.batch = "other", !.merged = {}, !.late = {}]
  /\ UNCHANGED <<stored, several>>

\* MergeSchoolToSSD and MergeStudentClassesToSSD have room for what they log.
HasRoom(r) == r.kind \in {"Teacher", "Student", "Class"} => r.key \notin TooLong

\* One row for the key is there or comes with the rows rs.
Comes(rs, kind, key) ==
  \/ Has(kind, key)
  \/ ~There(kind, key) /\ \E q \in rs : q.row.kind = kind /\ q.row.key = key

\* The rows rs can be merged in order: no key comes twice, no row is too long for
\* the log, each has the rows it refers to, and a student who is enrolled is not
\* sent again unless the merge will find it.
Sound(rs) ==
  \A q \in rs :
    LET r == q.row
    IN  /\ \A p \in rs : SameKey(p.row, r) => p = q
        /\ HasRoom(r)
        /\ r.kind = "Student" => Matched(r) # {} \/ Comes(rs, "School", r.parent)
        /\ r.kind = "Class" => Comes(rs, "Teacher", r.parent)
        /\ r.kind = "StudentClasses" =>
             /\ Comes(rs, "Class", r.parent) /\ Comes(rs, "Student", r.key)
             /\ \A p \in rs : p.row.key = r.key /\ Missed(p.row) => ~There("Student", r.key)

Start ==
  /\ run.step = "idle"
  /\ run' = [step |-> "merge", kind |-> "School", merged |-> {}, late |-> {},
             batch |-> IF Sound(queue) THEN "sound" ELSE "other"]
  /\ UNCHANGED <<queue, stored, several>>

\* A slip for the mutation runs: a class is merged without its teacher.
FitsWithoutTeacher(r) ==
  /\ r.kind = "Student" => Matched(r) # {} \/ Has("School", r.parent)
  /\ r.kind = "StudentClasses" => Has("Class", r.parent) /\ Has("Student", r.key)

\* The row's lookups find what they look for; NULL is refused by the table.  A
\* student that is there keeps its school.
Fits(r) ==
  /\ r.kind = "Student" => Matched(r) # {} \/ Has("School", r.parent)
  /\ r.kind = "Class" => Has("Teacher", r.parent)
  /\ r.kind = "StudentClasses" => Has("Class", r.parent) /\ Has("Student", r.key)

\* Two rows of the queue that one MERGE does not take: they update the same row,
\* or, as enrollments are never updated, insert the same enrollment.
Clash(q, p) ==
  /\ q # p /\ SameKey(q.row, p.row)
  /\ q.row.kind = "StudentClasses" <=> Matched(q.row) = {}

CanMerge(rs) ==
  /\ \A q \in rs : Fits(q.row) /\ HasRoom(q.row)
  /\ \A q \in rs, p \in rs : ~Clash(q, p)

\* A matched row as MERGE updates it: the student's key is set to its SIS id,
\* which it is.
Update(t, r) == IF r.kind = "Class" THEN r ELSE t

\* A slip for the mutation runs: an INSERT instead of a MERGE.
InsertedAnyway(rs) == rs

Inserted(rs) == {q \in rs : Matched(q.row) = {}}
Kept(rs) == {t \in stored : \A q \in rs : t \notin Matched(q.row)}
Updated(rs) == UNION {{Update(t, q.row) : t \in Matched(q.row)} : q \in rs}

\* What the table becomes of the rows rs.
Merged(rs) == Kept(rs) \cup Updated(rs) \cup {q.row : q \in Inserted(rs)}

\* The keys that get one more row than they should have.
Doubled(rs) ==
  {Key(q.row.kind, q.row.key) :
     q \in {p \in Inserted(rs) : \/ \E t \in stored : SameKey(t, p.row)
                                 \/ \E o \in rs : o # p /\ SameKey(o.row, p.row)}}

\* MERGE merges all rows of the queue or fails as a whole.
Merge ==
  LET rs == RowsOf(run.kind)
  IN  /\ run.step = "merge"
      /\ \/ /\ CanMerge(rs)
            /\ stored' = Merged(rs)
            /\ several' = several \cup Doubled(rs)
            /\ run' = [run EXCEPT !.step = "log", !.merged = IF run.batch = "sound" THEN rs ELSE {}]
         \/ /\ ~CanMerge(rs)
            /\ run' = [run EXCEPT !.step = "log"]
            /\ UNCHANGED <<stored, several>>
      /\ UNCHANGED queue

Log ==
  /\ run.step = "log"
  /\ run' = [run EXCEPT !.step = "delete"]
  /\ UNCHANGED <<queue, stored, several>>

\* A slip for the mutation runs: classes before teachers.
ClassesFirst == [School |-> "Class", Class |-> "Teacher", Teacher |-> "Student",
                 Student |-> "StudentClasses"]

NextProcedure == [School |-> "Teacher", Teacher |-> "Student", Student |-> "Class",
                  Class |-> "StudentClasses"]

\* On to the next procedure; late rows that are deleted are late no more.
Proceed == run' = IF run.kind = "StudentClasses" THEN Idle
                  ELSE [run EXCEPT !.step = "merge", !.kind = NextProcedure[run.kind],
                                   !.merged = {}, !.late = @ \cap queue']

\* A slip for the mutation runs: MergeTeacherToSSD empties the queue of classes.
DeleteOther ==
  /\ run.step = "delete"
  /\ queue' = queue \ RowsOf(IF run.kind = "Teacher" THEN "Class" ELSE run.kind)
  /\ Proceed
  /\ UNCHANGED <<stored, several>>

\* The queue is emptied, whatever is in it by now.
Delete ==
  /\ run.step = "delete"
  /\ queue' = queue \ RowsOf(run.kind)
  /\ Proceed
  /\ UNCHANGED <<stored, several>>

\* The job is stopped, or its caller gives up after an error.
Stop ==
  /\ run.step # "idle"
  /\ run' = [Idle EXCEPT !.batch = IF run.late = {} THEN run.batch ELSE "other"]
  /\ UNCHANGED <<queue, stored, several>>

Next == Enqueue \/ Start \/ Merge \/ Log \/ Delete \/ Stop

Spec == Init /\ [][Next]_vars

-----------------------------------------------------------------------------
\* No index keeps a key from getting a second row; the merges do, wherever a run
\* is stopped and however often a row is sent again, with two exceptions: the
\* first rows of a key that come together are all inserted, and a student whose
\* SIS id is not its key gets one more row each time.
SecondRowsComeTogether ==
  [][\A k \in several' \ several :
       \/ k.kind = "Student" /\ k.key \notin OneId
       \/ /\ ~There(k.kind, k.key)
          /\ \E q \in queue, p \in queue : q # p /\ Key(q.row.kind, q.row.key) = k
                                                 /\ Key(p.row.kind, p.row.key) = k]_vars

\* Each queue is emptied, merged or not.  When the run had a sound batch before
\* it, and nothing came for a queue it had still to merge, the rows that this
\* loses are those that came between the merge of their queue and its emptying.
LostRowsCameLate ==
  [][run.batch = "sound" => queue \ queue' \subseteq run.merged \cup run.late]_vars

\* A run that is stopped anywhere can be run again: what is left of a sound
\* batch is sound, unless a student waits whom the merge will not find again.
StoppedBatchResumes ==
  run.step = "idle" /\ run.batch = "sound" /\ (\A q \in queue : ~Missed(q.row)) => Sound(queue)

=============================================================================
