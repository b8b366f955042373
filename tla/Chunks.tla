------------------------------- MODULE Chunks -------------------------------
(***************************************************************************)
(* FsStore (fofoca-chunks/src/fs.rs): chunks and leaf rows as files that   *)
(* appear by a temporary file and a rename, coverage derived from what is  *)
(* on disk, and reclamation by marking and sweeping.                       *)
(*                                                                         *)
(* Puts run on several threads, a reclamation pass beside them, and the    *)
(* process may crash anywhere.  A file is whole or torn; whether its bytes *)
(* reached the disk decides what a crash leaves of them.  Names and        *)
(* renames are durable in order.  The bind table, and FsOrigin, are left   *)
(* out.                                                                    *)
(***************************************************************************)
EXTENDS FiniteSets

CONSTANTS Chunks,   \* chunk addresses
          Roots,    \* file roots, each with a leaf row
          Leaves,   \* root -> the chunks its row names
          Threads,  \* callers of put and put_map
          Stored,   \* the names on disk when the store is opened
          Puts,     \* bound: the names the threads write
          None

Names == Chunks \cup Roots

ASSUME ChunksAssumption ==
  /\ Leaves \in [Roots -> SUBSET Chunks]
  /\ Chunks \cap Roots = {}
  /\ Stored \subseteq Names /\ Puts \subseteq Names

Content == [whole : BOOLEAN, synced : BOOLEAN]

WriteTask == [name : Names, step : {"write", "sync", "rename"},
              at : {"temp", "file", "gone"}, alone : BOOLEAN]

Pass == [phase : {"mark", "sweep"}, kept : SUBSET Roots, todo : SUBSET Names]

ASSUME NoneAssumption ==
  /\ None \notin Content \cup WriteTask \cup Pass
  /\ \A live \in SUBSET Chunks : live # None

VARIABLES file,   \* name -> None, or the content under its final name
          temp,   \* name -> None, or the content of its temporary file
          task,   \* thread -> None, or the write_atomic it runs
          marks,  \* the live set of the pass, None outside one
          pass,   \* None, or the caller's pass: the roots it means to keep
          shared  \* names whose last writers overlapped

vars == <<file, temp, task, marks, pass, shared>>

Torn == [whole |-> FALSE, synced |-> FALSE]
Safe == [whole |-> TRUE, synced |-> TRUE]

\* A file a reader takes for the chunk it names.
Whole(content) == content # None /\ content.whole

Writers(name) == {t \in Threads : task[t] # None /\ task[t].name = name}

-----------------------------------------------------------------------------
(* write_atomic, one step per call *)

\* File::create: the temporary file of a name is one file, and a second
\* writer truncates what the first has written.
Create(t, name) ==
  /\ task[t] = None
  /\ temp' = [temp EXCEPT ![name] = Torn]
  /\ task' = [task EXCEPT ![t] =
       [name |-> name, step |-> "write", at |-> "temp", alone |-> Writers(name) = {}]]
  /\ shared' = IF Writers(name) = {} THEN shared ELSE shared \cup {name}
  /\ UNCHANGED <<file, marks, pass>>

\* The handle follows the file, wherever a rename has put it.
Change(t, content) ==
  LET name == task[t].name
  IN  /\ temp' = IF task[t].at = "temp" THEN [temp EXCEPT ![name] = content] ELSE temp
      /\ file' = IF task[t].at = "file" THEN [file EXCEPT ![name] = content] ELSE file

Enter(t, step) == task' = [task EXCEPT ![t].step = step]

\* write_all
Write(t) ==
  /\ task[t] # None /\ task[t].step = "write"
  /\ Change(t, [whole |-> TRUE, synced |-> FALSE])
  /\ Enter(t, "sync")
  /\ UNCHANGED <<marks, pass, shared>>

\* Its file is the one t wrote: another writer may have truncated it since.
Current(t) == IF task[t].at = "temp" THEN temp[task[t].name] ELSE file[task[t].name]

\* Fault: the rename does not wait for the bytes.
SyncLater(t) ==
  /\ task[t] # None /\ task[t].step = "sync"
  /\ Enter(t, "rename")
  /\ UNCHANGED <<file, temp, marks, pass, shared>>

\* sync_all
Sync(t) ==
  /\ task[t] # None /\ task[t].step = "sync"
  /\ IF task[t].at = "gone" THEN UNCHANGED <<temp, file>>
     ELSE Change(t, [Current(t) EXCEPT !.synced = TRUE])
  /\ Enter(t, "rename")
  /\ UNCHANGED <<marks, pass, shared>>

\* The temporary file takes the final name, and the file of that name goes.
Moved(u, name) ==
  IF task[u] = None \/ task[u].name # name THEN task[u]
  ELSE [task[u] EXCEPT !.at = IF @ = "temp" THEN "file" ELSE "gone"]

\* rename: whatever the temporary file holds by now, or an error without one.
Rename(t) ==
  LET name == task[t].name
  IN  /\ task[t] # None /\ task[t].step = "rename"
      /\ IF temp[name] = None
           THEN /\ task' = [task EXCEPT ![t] = None]
                /\ UNCHANGED <<file, temp, shared>>
           ELSE /\ file' = [file EXCEPT ![name] = temp[name]]
                /\ temp' = [temp EXCEPT ![name] = None]
                /\ task' = [u \in Threads |-> IF u = t THEN None ELSE Moved(u, name)]
                /\ shared' = IF task[t].alone /\ Writers(name) = {t}
                               THEN shared \ {name} ELSE shared
      /\ UNCHANGED <<marks, pass>>

-----------------------------------------------------------------------------
(* Reclamation *)

\* remove_file: an open handle keeps the file it wrote, without a name.
Remove(name) ==
  /\ file' = [file EXCEPT ![name] = None]
  /\ task' = [u \in Threads |->
       IF task[u] # None /\ task[u].name = name /\ task[u].at = "file"
         THEN [task[u] EXCEPT !.at = "gone"] ELSE task[u]]

\* start_marking, by a caller that keeps the roots persisted by now.
StartMarking ==
  /\ pass = None
  /\ marks' = {}
  /\ pass' = LET kept == {r \in Roots : file[r] # None}
             IN  [phase |-> "mark", kept |-> kept, todo |-> kept]
  /\ UNCHANGED <<file, temp, task, shared>>

\* Fault: the last root marked is the live set.
Replaced(live, r) == Leaves[r]

Extended(live, r) == (IF live = None THEN {} ELSE live) \cup Leaves[r]

\* mark: a row that does not decode fails it, and the caller gives up.
Mark(r) ==
  /\ pass # None /\ pass.phase = "mark" /\ r \in pass.todo
  /\ IF Whole(file[r])
       THEN /\ marks' = Extended(marks, r)
            /\ pass' = [pass EXCEPT !.todo = @ \ {r}]
       ELSE /\ pass' = None
            /\ UNCHANGED marks
  /\ UNCHANGED <<file, temp, task, shared>>

\* stored_chunks: temporary files are skipped.
Listed == {c \in Chunks : file[c] # None}

\* sweep: the marks are taken and the chunks on disk listed ...
Sweep ==
  /\ pass # None /\ pass.phase = "mark" /\ pass.todo = {}
  /\ marks' = None
  /\ pass' = [pass EXCEPT !.phase = "sweep",
                          !.todo = Listed \ marks]
  /\ UNCHANGED <<file, temp, task, shared>>

\* ... and the unmarked ones removed one by one.
SweepOne(c) ==
  /\ pass # None /\ pass.phase = "sweep" /\ c \in pass.todo
  /\ Remove(c)
  /\ pass' = [pass EXCEPT !.todo = @ \ {c}]
  /\ UNCHANGED <<temp, marks, shared>>

SweepEnds ==
  /\ pass # None /\ pass.phase = "sweep" /\ pass.todo = {}
  /\ pass' = None
  /\ UNCHANGED <<file, temp, task, marks, shared>>

\* clear: eviction, which may race a sweep or a put.
Clear(c) ==
  /\ file[c] # None
  /\ Remove(c)
  /\ UNCHANGED <<temp, marks, pass, shared>>

-----------------------------------------------------------------------------
Unsynced(files) == {n \in Names : files[n] # None /\ ~files[n].synced}

\* What a crash leaves on disk when it loses the bytes of `lost`.
Left(files, lost) ==
  [n \in Names |-> IF files[n] = None THEN None
                   ELSE [whole |-> files[n].whole /\ n \notin lost, synced |-> TRUE]]

\* The process dies and the store is opened again: the files are all it has.
Crash ==
  /\ \E lost \in SUBSET Unsynced(file) : file' = Left(file, lost)
  /\ \E lost \in SUBSET Unsynced(temp) : temp' = Left(temp, lost)
  /\ task' = [t \in Threads |-> None]
  /\ marks' = None /\ pass' = None
  /\ UNCHANGED shared

Init ==
  /\ file = [n \in Names |-> IF n \in Stored THEN Safe ELSE None]
  /\ temp = [n \in Names |-> None]
  /\ task = [t \in Threads |-> None]
  /\ marks = None /\ pass = None /\ shared = {}

Next ==
  \/ \E t \in Threads : \/ \E name \in Puts : Create(t, name)
                        \/ Write(t) \/ Sync(t) \/ Rename(t)
  \/ StartMarking \/ Sweep \/ SweepEnds
  \/ \E r \in Roots : Mark(r)
  \/ \E c \in Chunks : SweepOne(c) \/ Clear(c)
  \/ Crash

Spec == Init /\ [][Next]_vars

-----------------------------------------------------------------------------
(* Properties *)

\* A file under its final name is whole, whatever crash came between, unless
\* two puts of that one name overlapped since a put last had it alone: they
\* share the temporary file, and one renames what the other has truncated
\* (write_atomic).  get and coverage do not look at the bytes again.
TornOnlyIfShared ==
  \A n \in Names : file[n] # None /\ ~file[n].whole => n \in shared

\* A pass never takes a chunk of a root whose row was stored when it began,
\* in whatever order its roots are marked, and although puts, evictions and
\* crashes run beside it (mark, sweep).
Reclaims(c) == file[c] # None /\ file'[c] = None /\ pass' # pass
LiveSurvives ==
  [][\A c \in Chunks : Reclaims(c) => \A r \in pass.kept : c \notin Leaves[r]]_vars
=============================================================================
