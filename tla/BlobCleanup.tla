----------------------------- MODULE BlobCleanup -----------------------------
(***************************************************************************)
(* The blob containers that hold the files users upload and the files of   *)
(* rejected rows the site writes for them, and the thread of the web role  *)
(* that deletes what is older than two days.  The thread polls for as long *)
(* as the role runs; a pass opens the containers one after the other,      *)
(* lists each, and asks every blob listed for its age before it deletes it, *)
(* one call at a time, while requests go on writing files.  A              *)
(* BlobException ends the pass of its container; a failure to open or list  *)
(* one is not a BlobException and ends the process, which is started again. *)
(*                                                                         *)
(* Time is counted in days.  The clocks of the role and of the storage are *)
(* taken to agree.                                                         *)
(***************************************************************************)
EXTENDS Naturals

CONSTANTS Containers,
          Pages,           \* browser windows that show what a file was written for
          MaxFiles,        \* bound on the files written
          MaxDay,          \* bound on the days
          MaxFaults        \* bound on the errors of the storage and the restarts

ASSUME CleanupAssumption == {MaxFiles, MaxDay, MaxFaults} \subseteq Nat

VARIABLES written,         \* how many files have been written
          blobs,           \* blobs[c]: the files container c lists
          modified,        \* modified[a]: LastModified, the day a was written
          page,            \* page[w]: the file w has a link to, 0 for none
          cleaner,         \* what the thread is at
          faults,
          day

blobVars == <<written, blobs, modified>>
cleanupVars == <<blobVars, page, cleaner, faults, day>>

DaysKept == 2

Files == 1 .. MaxFiles
NoFile == 0
Days == 0 .. MaxDay

Cleaner == [state : {"sleeping", "polling", "checking", "deleting"},
            todo : SUBSET Containers,       \* not opened yet in this pass
            open : SUBSET Containers,       \* the one that is being cleaned
            left : SUBSET Files,            \* what it listed, not checked yet
            started : Days,                 \* when it was opened
            blob : Files \cup {NoFile}]     \* found to be old

Sleeping == [state |-> "sleeping", todo |-> {}, open |-> {}, left |-> {}, started |-> 0,
             blob |-> NoFile]

Stored == UNION {blobs[c] : c \in Containers}

\* The files that anything refers to.
Used == (Stored \cup cleaner.left \cup {page[w] : w \in Pages} \cup {cleaner.blob}) \ {NoFile}

\* Every variable has its type, only files that were written are listed or
\* linked to, and the thread has a file to delete just when it is deleting.
CleanupTypeOK ==
  /\ written \in 0 .. MaxFiles
  /\ blobs \in [Containers -> SUBSET Files]
  /\ modified \in [Files -> Days]
  /\ page \in [Pages -> Files \cup {NoFile}]
  /\ cleaner \in Cleaner
  /\ Used \subseteq 1 .. written
  /\ cleaner.blob # NoFile <=> cleaner.state = "deleting"
  /\ faults \in 0 .. MaxFaults
  /\ day \in Days

CleanupInit ==
  /\ written = 0
  /\ blobs = [c \in Containers |-> {}]
  /\ modified = [a \in Files |-> 0]
  /\ page = [w \in Pages |-> NoFile]
  /\ cleaner = Sleeping
  /\ faults = 0
  /\ day = 0

-----------------------------------------------------------------------------
\* A request writes a file, whose name holds the clock so that no two are the
\* same, and its page shows the link.
Write(w, c) ==
  /\ written < MaxFiles
  /\ written' = written + 1
  /\ blobs' = [blobs EXCEPT ![c] = @ \cup {written'}]
  /\ modified' = [modified EXCEPT ![written'] = day]
  /\ page' = [page EXCEPT ![w] = written']
  /\ UNCHANGED <<cleaner, faults, day>>

Leave(w) ==
  /\ page[w] # NoFile
  /\ page' = [page EXCEPT ![w] = NoFile]
  /\ UNCHANGED <<blobVars, cleaner, faults, day>>

-----------------------------------------------------------------------------
Works == UNCHANGED <<blobVars, page, faults, day>>

Poll ==
  /\ cleaner.state = "sleeping"
  /\ cleaner' = [Sleeping EXCEPT !.state = "polling", !.todo = Containers]
  /\ Works

\* CleanupContainer sets the age it deletes from, and DeleteAged lists.
Open(c) ==
  /\ cleaner.state = "polling"
  /\ c \in cleaner.todo
  /\ cleaner' = [state |-> "checking", todo |-> cleaner.todo \ {c}, open |-> {c},
                 left |-> blobs[c], started |-> day, blob |-> NoFile]
  /\ Works

\* A slip for the mutation runs: a file is old on its last day.
AgedEarly(a) == modified[a] + DaysKept <= cleaner.started

IsBlobAged(a) == modified[a] + DaysKept < cleaner.started

Check(a) ==
  /\ cleaner.state = "checking"
  /\ a \in cleaner.left
  /\ cleaner' = [cleaner EXCEPT !.left = @ \ {a},
                                !.state = IF IsBlobAged(a) THEN "deleting" ELSE "checking",
                                !.blob = IF IsBlobAged(a) THEN a ELSE NoFile]
  /\ Works

DeleteIfExists ==
  /\ cleaner.state = "deleting"
  /\ blobs' = [c \in Containers |-> IF c \in cleaner.open THEN blobs[c] \ {cleaner.blob}
                                    ELSE blobs[c]]
  /\ cleaner' = [cleaner EXCEPT !.state = "checking", !.blob = NoFile]
  /\ UNCHANGED <<written, modified, page, faults, day>>

\* A slip for the mutation runs: the file that was to go is not forgotten.
NextContainerRemembers == cleaner' = [cleaner EXCEPT !.state = "polling", !.left = {}]

\* On to the next container.
NextContainer == cleaner' = [Sleeping EXCEPT !.state = "polling", !.todo = cleaner.todo]

ContainerDone ==
  /\ cleaner.state = "checking"
  /\ cleaner.left = {}
  /\ NextContainer
  /\ Works

Sleep ==
  /\ cleaner.state = "polling"
  /\ cleaner.todo = {}
  /\ cleaner' = Sleeping
  /\ Works

Fault == faults < MaxFaults /\ faults' = faults + 1 /\ UNCHANGED <<blobVars, page, day>>

\* A slip for the mutation runs: the exception is caught outside the loop over
\* the days, so the thread ends and the role runs on.
ThreadEnds ==
  /\ cleaner.state \in {"checking", "deleting"}
  /\ Fault
  /\ cleaner' = [Sleeping EXCEPT !.state = "ended"]

\* FetchAttributes or DeleteIfExists throws.
ContainerFails ==
  /\ cleaner.state \in {"checking", "deleting"}
  /\ Fault
  /\ NextContainer

\* The process ends; WebRole.Run starts the thread again, which polls at once.
Restart ==
  /\ Fault
  /\ cleaner' = Sleeping

Clean ==
  \/ Poll
  \/ \E c \in Containers : Open(c)
  \/ \E a \in Files : Check(a)
  \/ DeleteIfExists
  \/ ContainerDone
  \/ Sleep

NewDay ==
  /\ day < MaxDay
  /\ day' = day + 1
  /\ UNCHANGED <<blobVars, page, cleaner, faults>>

CleanupNext ==
  \/ \E w \in Pages, c \in Containers : Write(w, c)
  \/ \E w \in Pages : Leave(w)
  \/ Clean
  \/ ContainerFails
  \/ Restart
  \/ NewDay

\* The role keeps its thread running; requests may come or not.
CleanupSpec == CleanupInit /\ [][CleanupNext]_cleanupVars /\ WF_cleanupVars(Clean)

-----------------------------------------------------------------------------
\* The cleanup deletes no file that a page still links to, unless the page has
\* been open for longer than files are kept, however long the pass takes.
OpenFilesAreKept ==
  \A w \in Pages : page[w] # NoFile /\ day <= modified[page[w]] + DaysKept
    => page[w] \in Stored

\* A file too old to keep is deleted in the end, whatever fails meanwhile, as
\* long as the storage does not fail for ever.
OldFilesGo ==
  \A a \in Files : a \in Stored /\ modified[a] + DaysKept < day ~> a \notin Stored

=============================================================================
