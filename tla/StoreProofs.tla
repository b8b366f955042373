---------------------------- MODULE StoreProofs ----------------------------
(***************************************************************************)
(* Proofs about what a member stores: the files of its chunks (Chunks) and *)
(* its shared documents (MeshDoc).  The two specifications share no state  *)
(* and are proved apart.                                                   *)
(*                                                                         *)
(* Whether a chunk file is torn depends on who wrote to the temporary file *)
(* it was renamed from, so the invariant says whose that file is.  A       *)
(* writer that leaves renames the temporary file or finds none, and either *)
(* way no other writer's handle is on one afterwards: a lone writer whose  *)
(* handle is on it has therefore been alone since it created it, and what  *)
(* it holds is decided by the step the writer is at.                       *)
(*                                                                         *)
(* What a document holds, buffers and has seen hangs together because a    *)
(* drain leaves nothing ready and a change keeps its dependencies once it  *)
(* is made: its id is new, counted from what its author holds.             *)
(***************************************************************************)
EXTENDS Chunks, MeshDoc, FiniteSetTheorems, SequenceTheorems, NaturalsInduction,
        WellFoundedInduction, TLAPS

Types ==
  /\ file \in [Names -> Content \cup {None}]
  /\ temp \in [Names -> Content \cup {None}]
  /\ task \in [Threads -> WriteTask \cup {None}]
  /\ shared \in SUBSET Names

\* t runs a write of n.
Writes(t, n) == task[t] # None /\ task[t].name = n

\* What a writer nobody disturbed has in its temporary file.
Made(step) == IF step = "write" THEN Torn
              ELSE IF step = "sync" THEN [whole |-> TRUE, synced |-> FALSE]
              ELSE Safe

Alone(t, n) == Writes(t, n) /\ \A u \in Threads : Writes(u, n) => u = t

\* A handle on a file means that there is one.
HandleHasFile ==
  \A t \in Threads : \A n \in Names :
    Writes(t, n) => /\ task[t].at = "temp" => temp[n] # None
                    /\ task[t].at = "file" => file[n] # None

\* While a name is written, its temporary file is some writer's.
FileHasHandle ==
  \A n \in Names : \A t \in Threads :
    temp[n] # None /\ Writes(t, n) => \E u \in Threads : Writes(u, n) /\ task[u].at = "temp"

\* A lone writer's temporary file is as it made it.
LoneFileIsIntact ==
  \A n \in Names : \A t \in Threads :
    Alone(t, n) /\ task[t].at = "temp" => temp[n] = Made(task[t].step)

\* A name nobody shared has at most one writer, and its handle is on the
\* temporary file, not on the file readers see.
UnsharedIsAlone ==
  \A n \in Names \ shared : \A t \in Threads : Writes(t, n) => Alone(t, n) /\ task[t].at = "temp"

\* A name nobody shared is whole and on disk.
UnsharedIsSafe == \A n \in Names \ shared : file[n] \in {None, Safe}

\* The inductive invariant.
WriteInv ==
  /\ Types /\ HandleHasFile /\ FileHasHandle /\ LoneFileIsIntact
  /\ UnsharedIsAlone /\ UnsharedIsSafe

-----------------------------------------------------------------------------
(* Records *)

\* What a file can hold.
LEMMA ContentFacts ==
  /\ Torn \in Content /\ Safe \in Content /\ [whole |-> TRUE, synced |-> FALSE] \in Content
  /\ Torn # None /\ Safe # None
  /\ \A s : Made(s) \in Content /\ Made(s) # None
  /\ \A x \in Content : x # None
  /\ \A x \in WriteTask : x # None
<1>1. Torn \in Content /\ Safe \in Content /\ [whole |-> TRUE, synced |-> FALSE] \in Content
  BY DEF Content, Torn, Safe
<1>2. \A s : Made(s) \in Content BY <1>1 DEF Made
<1>3. None \notin Content /\ None \notin WriteTask BY NoneAssumption
<1> QED BY <1>1, <1>2, <1>3

\* A writer that goes to its next step stays where it is.
LEMMA EnterFacts ==
  ASSUME Types, NEW t \in Threads, task[t] # None,
         NEW s \in {"write", "sync", "rename"}, Enter(t, s)
  PROVE  /\ task' \in [Threads -> WriteTask \cup {None}]
         /\ task'[t].step = s /\ task'[t].at = task[t].at
         /\ \A u \in Threads \ {t} : task'[u] = task[u]
         /\ \A u \in Threads : \A n \in Names :
              /\ Writes(u, n)' <=> Writes(u, n)
              /\ Alone(u, n)' <=> Alone(u, n)
<1>1. task[t] \in WriteTask BY DEF Types
<1> DEFINE r == [task[t] EXCEPT !.step = s]
<1>2. /\ r \in WriteTask /\ r.step = s /\ r.at = task[t].at /\ r.name = task[t].name
  BY <1>1 DEF WriteTask
<1>3. r # None BY <1>2, ContentFacts
<1>4. task' = [task EXCEPT ![t] = r] BY DEF Enter
<1> HIDE DEF r
<1>5. task'[t] = r /\ \A u \in Threads \ {t} : task'[u] = task[u] BY <1>4 DEF Types
<1>6. task' \in [Threads -> WriteTask \cup {None}] BY <1>2, <1>4 DEF Types
<1>7. \A u \in Threads : \A n \in Names : Writes(u, n)' <=> Writes(u, n)
  BY <1>2, <1>3, <1>5 DEF Writes
<1> QED BY <1>2, <1>5, <1>6, <1>7 DEF Alone

\* What a write or a sync does to a lone writer's files: nothing under a
\* final name, and its own temporary file becomes what the next step expects.
LEMMA ChangeKeeps ==
  ASSUME WriteInv, NEW t \in Threads, task[t] # None, NEW content \in Content,
         Change(t, content), UNCHANGED shared,
         NEW s \in {"write", "sync", "rename"}, Enter(t, s),
         Alone(t, task[t].name) /\ task[t].at = "temp" => content = Made(s)
  PROVE  WriteInv'
<1> DEFINE name == task[t].name
<1>1. task[t] \in WriteTask /\ name \in Names BY DEF WriteInv, Types, WriteTask
<1>2. /\ file \in [Names -> Content \cup {None}]
      /\ temp \in [Names -> Content \cup {None}] /\ shared \in SUBSET Names
  BY DEF WriteInv, Types
<1>3. /\ task' \in [Threads -> WriteTask \cup {None}]
      /\ task'[t].step = s /\ task'[t].at = task[t].at
      /\ \A u \in Threads \ {t} : task'[u] = task[u]
      /\ \A u \in Threads : \A n \in Names :
           /\ Writes(u, n)' <=> Writes(u, n)
           /\ Alone(u, n)' <=> Alone(u, n)
  BY EnterFacts DEF WriteInv
<1>4. /\ temp' = IF task[t].at = "temp" THEN [temp EXCEPT ![name] = content] ELSE temp
      /\ file' = IF task[t].at = "file" THEN [file EXCEPT ![name] = content] ELSE file
  BY DEF Change
<1>5. Writes(t, name) BY DEF Writes
<1> HIDE DEF name
<1>6. content # None BY ContentFacts
<1>7. \A u \in Threads : task'[u].at = task[u].at BY <1>3
<1>8. Types' BY <1>1, <1>2, <1>3, <1>4 DEF Types
<1>9. \A n \in Names : /\ temp[n] # None => temp'[n] # None
                       /\ file[n] # None => file'[n] # None
                       /\ n # name => temp'[n] = temp[n] /\ file'[n] = file[n]
  BY <1>1, <1>2, <1>4, <1>6
<1>10. HandleHasFile' BY <1>3, <1>7, <1>9 DEF WriteInv, HandleHasFile
<1>11. FileHasHandle'
  <2> SUFFICES ASSUME NEW n \in Names, NEW u \in Threads, temp'[n] # None, Writes(u, n)'
               PROVE  \E v \in Threads : Writes(v, n)' /\ task'[v].at = "temp"
    BY DEF FileHasHandle
  <2>1. CASE temp[n] # None
    <3>1. PICK v \in Threads : Writes(v, n) /\ task[v].at = "temp"
      BY <2>1, <1>3 DEF WriteInv, FileHasHandle
    <3> QED BY <3>1, <1>3, <1>7
  <2>2. CASE temp[n] = None
    <3>1. n = name /\ task[t].at = "temp" BY <2>2, <1>2, <1>4, <1>9
    <3> QED BY <3>1, <1>1, <1>3, <1>5, <1>7
  <2> QED BY <2>1, <2>2
<1>12. LoneFileIsIntact'
  <2> SUFFICES ASSUME NEW n \in Names, NEW u \in Threads, Alone(u, n)', task'[u].at = "temp"
               PROVE  temp'[n] = Made(task'[u].step)
    BY DEF LoneFileIsIntact, Made
  <2>1. Alone(u, n) /\ task[u].at = "temp" BY <1>3, <1>7
  <2>2. CASE u = t
    <3>1. n = name BY <2>1, <2>2 DEF Alone, Writes, name
    <3> QED BY <2>1, <2>2, <3>1, <1>1, <1>2, <1>3, <1>4 DEF name
  <2>3. CASE u # t
    <3>1. n # name BY <2>1, <2>3, <1>5 DEF Alone
    <3>2. temp[n] = Made(task[u].step) BY <2>1 DEF WriteInv, LoneFileIsIntact
    <3> QED BY <2>3, <3>1, <3>2, <1>3, <1>9
  <2> QED BY <2>2, <2>3
<1>13. UnsharedIsAlone' BY <1>3, <1>7 DEF WriteInv, UnsharedIsAlone
<1>14. UnsharedIsSafe'
  <2> SUFFICES ASSUME NEW n \in Names, n \notin shared PROVE file'[n] \in {None, Safe}
    BY DEF UnsharedIsSafe
  <2>1. file[n] \in {None, Safe} BY DEF WriteInv, UnsharedIsSafe
  <2>2. CASE n # name BY <2>1, <2>2, <1>9
  <2>3. CASE n = name
    <3>1. task[t].at = "temp" BY <2>3, <1>5 DEF WriteInv, UnsharedIsAlone
    <3> QED BY <2>1, <3>1, <1>4
  <2> QED BY <2>2, <2>3
<1> QED BY <1>8, <1>10, <1>11, <1>12, <1>13, <1>14 DEF WriteInv

-----------------------------------------------------------------------------
(* The actions *)

\* Opening the temporary file keeps the write invariant.
LEMMA CreateKeeps ==
  ASSUME WriteInv, NEW t \in Threads, NEW name \in Names, Create(t, name)
  PROVE  WriteInv'
<1> DEFINE r == [name |-> name, step |-> "write", at |-> "temp", alone |-> Writers(name) = {}]
<1>1. /\ task[t] = None /\ temp' = [temp EXCEPT ![name] = Torn]
      /\ task' = [task EXCEPT ![t] = r] /\ file' = file
      /\ shared' = IF Writers(name) = {} THEN shared ELSE shared \cup {name}
  BY DEF Create
<1>2. r \in WriteTask /\ r # None /\ r.name = name /\ r.step = "write" /\ r.at = "temp"
  <2>1. r \in WriteTask BY DEF WriteTask
  <2> QED BY <2>1, ContentFacts
<1> HIDE DEF r
<1>3. /\ temp \in [Names -> Content \cup {None}] /\ task \in [Threads -> WriteTask \cup {None}]
      /\ shared \in SUBSET Names
  BY DEF WriteInv, Types
<1>4. task'[t] = r /\ \A u \in Threads \ {t} : task'[u] = task[u] BY <1>1, <1>3
<1>5. temp'[name] = Torn /\ \A n \in Names \ {name} : temp'[n] = temp[n] BY <1>1, <1>3
<1>6. Types' BY <1>1, <1>2, <1>3, ContentFacts DEF WriteInv, Types
<1>7. \A n \in Names : ~Writes(t, n) BY <1>1 DEF Writes
<1>8. \A n \in Names : Writes(t, n)' <=> n = name BY <1>2, <1>4 DEF Writes
<1>9. \A u \in Threads \ {t} : \A n \in Names : Writes(u, n)' <=> Writes(u, n)
  BY <1>4 DEF Writes
<1>10. \A n \in Names : \A u \in Threads : n # name => (Alone(u, n)' <=> Alone(u, n))
  BY <1>7, <1>8, <1>9 DEF Alone
<1>11. Writers(name) = {} <=> \A u \in Threads : ~Writes(u, name) BY DEF Writers, Writes
<1>12. HandleHasFile'
  BY <1>1, <1>2, <1>4, <1>5, <1>7, <1>8, <1>9, ContentFacts DEF WriteInv, HandleHasFile
<1>13. FileHasHandle'
  <2> SUFFICES ASSUME NEW n \in Names, NEW u \in Threads, temp'[n] # None, Writes(u, n)'
               PROVE  \E v \in Threads : Writes(v, n)' /\ task'[v].at = "temp"
    BY DEF FileHasHandle
  <2>1. CASE n = name BY <2>1, <1>2, <1>4, <1>8
  <2>2. CASE n # name
    <3>1. u # t /\ Writes(u, n) /\ temp[n] # None BY <2>2, <1>5, <1>8, <1>9
    <3>2. PICK v \in Threads : Writes(v, n) /\ task[v].at = "temp"
      BY <3>1 DEF WriteInv, FileHasHandle
    <3> QED BY <3>2, <1>4, <1>7, <1>9
  <2> QED BY <2>1, <2>2
<1>14. LoneFileIsIntact'
  <2> SUFFICES ASSUME NEW n \in Names, NEW u \in Threads, Alone(u, n)', task'[u].at = "temp"
               PROVE  temp'[n] = Made(task'[u].step)
    BY DEF LoneFileIsIntact, Made
  <2>1. CASE n = name
    <3>1. u = t BY <2>1, <1>8 DEF Alone
    <3> QED BY <2>1, <3>1, <1>2, <1>4, <1>5 DEF Made
  <2>2. CASE n # name
    <3>1. Alone(u, n) /\ u # t BY <2>2, <1>7, <1>10 DEF Alone
    <3>2. temp[n] = Made(task[u].step) BY <3>1, <1>4 DEF WriteInv, LoneFileIsIntact
    <3> QED BY <2>2, <3>1, <3>2, <1>4, <1>5
  <2> QED BY <2>1, <2>2
<1>15. UnsharedIsAlone'
  <2> SUFFICES ASSUME NEW n \in Names, n \notin shared', NEW u \in Threads, Writes(u, n)'
               PROVE  Alone(u, n)' /\ task'[u].at = "temp"
    BY DEF UnsharedIsAlone
  <2>1. n \notin shared BY <1>1
  <2>2. CASE n = name
    <3>1. \A v \in Threads : ~Writes(v, name) BY <2>2, <1>1, <1>11
    <3>2. \A v \in Threads : Writes(v, name)' => v = t BY <3>1, <1>9
    <3> QED BY <2>2, <3>2, <1>2, <1>4 DEF Alone
  <2>3. CASE n # name
    <3>1. u # t /\ Writes(u, n) BY <2>3, <1>8, <1>9
    <3>2. Alone(u, n) /\ task[u].at = "temp" BY <2>1, <3>1 DEF WriteInv, UnsharedIsAlone
    <3> QED BY <2>3, <3>1, <3>2, <1>4, <1>10
  <2> QED BY <2>2, <2>3
<1>16. UnsharedIsSafe' BY <1>1 DEF WriteInv, UnsharedIsSafe
<1> QED BY <1>6, <1>12, <1>13, <1>14, <1>15, <1>16 DEF WriteInv

\* Writing the content keeps it.
LEMMA WriteKeeps ==
  ASSUME WriteInv, NEW t \in Threads, Write(t)
  PROVE  WriteInv'
<1>1. Made("sync") = [whole |-> TRUE, synced |-> FALSE] BY DEF Made
<1>2. /\ task[t] # None /\ Change(t, [whole |-> TRUE, synced |-> FALSE])
      /\ Enter(t, "sync") /\ shared' = shared
  BY DEF Write
<1> QED BY <1>1, <1>2, ContentFacts, ChangeKeeps

\* Syncing keeps it.
LEMMA SyncKeeps ==
  ASSUME WriteInv, NEW t \in Threads, Sync(t)
  PROVE  WriteInv'
<1>1. /\ task[t] # None /\ task[t].step = "sync" /\ Enter(t, "rename") /\ shared' = shared
      /\ task[t].at # "gone" => Change(t, [Current(t) EXCEPT !.synced = TRUE])
      /\ task[t].at = "gone" => temp' = temp /\ file' = file
  BY DEF Sync
<1>2. task[t] \in WriteTask /\ Writes(t, task[t].name) /\ task[t].name \in Names
  BY <1>1 DEF WriteInv, Types, WriteTask, Writes
<1>3. CASE task[t].at = "gone"
  <2>1. Change(t, Safe) BY <1>1, <1>3 DEF Change
  <2> QED BY <1>1, <1>3, <2>1, ContentFacts, ChangeKeeps
<1>4. CASE task[t].at # "gone"
  <2>1. task[t].at \in {"temp", "file"} BY <1>2, <1>4 DEF WriteTask
  <2>2. Current(t) \in Content
    BY <1>2, <2>1 DEF WriteInv, Types, HandleHasFile, Current
  <2>3. [Current(t) EXCEPT !.synced = TRUE] \in Content BY <2>2 DEF Content
  <2>4. ASSUME Alone(t, task[t].name), task[t].at = "temp"
        PROVE  [Current(t) EXCEPT !.synced = TRUE] = Made("rename")
    <3>1. Current(t) = Made("sync")
      BY <2>4, <1>1, <1>2 DEF WriteInv, LoneFileIsIntact, Current
    <3>2. Made("sync") = [whole |-> TRUE, synced |-> FALSE] /\ Made("rename") = Safe BY DEF Made
    <3> DEFINE x == [Current(t) EXCEPT !.synced = TRUE]
    <3>3. Current(t).whole = TRUE BY <3>1, <3>2
    <3>4. x.whole = TRUE /\ x.synced = TRUE BY <2>2, <3>3 DEF Content
    <3>5. x \in Content BY <2>3
    <3> HIDE DEF x
    <3>6. x = Safe BY <3>4, <3>5 DEF Content, Safe
    <3> QED BY <3>2, <3>6 DEF x
  <2> QED BY <1>1, <1>4, <2>3, <2>4, ChangeKeeps
<1> QED BY <1>3, <1>4

\* A rename that finds no temporary file only ends its writer.
LEMMA RenameFailsKeeps ==
  ASSUME WriteInv, NEW t \in Threads, task[t] # None, temp[task[t].name] = None,
         task' = [task EXCEPT ![t] = None], UNCHANGED <<file, temp, shared>>
  PROVE  WriteInv'
<1> DEFINE name == task[t].name
<1>1. name \in Names /\ Writes(t, name) BY DEF WriteInv, Types, WriteTask, Writes
<1>2. task'[t] = None /\ \A u \in Threads \ {t} : task'[u] = task[u] BY DEF WriteInv, Types
<1>3. Types' BY DEF WriteInv, Types
<1>4. \A u \in Threads : \A n \in Names :
        /\ Writes(u, n)' <=> Writes(u, n) /\ u # t
        /\ n # name => (Writes(u, n)' <=> Writes(u, n))
  BY <1>2 DEF Writes
<1>5. \A u \in Threads : \A n \in Names : n # name => (Alone(u, n)' <=> Alone(u, n))
  BY <1>4 DEF Alone
<1>6. \A u \in Threads : ~(Writes(u, name) /\ task[u].at = "temp")
  BY <1>1 DEF WriteInv, HandleHasFile
<1>7. HandleHasFile' BY <1>2, <1>4 DEF WriteInv, HandleHasFile
<1>8. FileHasHandle'
  <2> SUFFICES ASSUME NEW n \in Names, NEW u \in Threads, temp'[n] # None, Writes(u, n)'
               PROVE  \E v \in Threads : Writes(v, n)' /\ task'[v].at = "temp"
    BY DEF FileHasHandle
  <2>1. n # name /\ temp[n] # None /\ Writes(u, n) BY <1>4
  <2>2. PICK v \in Threads : Writes(v, n) /\ task[v].at = "temp"
    BY <2>1 DEF WriteInv, FileHasHandle
  <2>3. v # t BY <2>1, <2>2 DEF Writes
  <2> QED BY <2>2, <2>3, <1>2, <1>4
<1>9. LoneFileIsIntact'
  <2> SUFFICES ASSUME NEW n \in Names, NEW u \in Threads, Alone(u, n)', task'[u].at = "temp"
               PROVE  temp'[n] = Made(task'[u].step)
    BY DEF LoneFileIsIntact, Made
  <2>1. u # t /\ Writes(u, n) BY <1>4 DEF Alone
  <2>2. n # name BY <2>1, <1>2, <1>6
  <2> QED BY <2>1, <2>2, <1>2, <1>5 DEF WriteInv, LoneFileIsIntact
<1>10. UnsharedIsAlone'
  <2> SUFFICES ASSUME NEW n \in Names, n \notin shared, NEW u \in Threads, Writes(u, n)'
               PROVE  Alone(u, n)' /\ task'[u].at = "temp"
    BY DEF UnsharedIsAlone
  <2>1. u # t /\ Writes(u, n) BY <1>4
  <2>2. Alone(u, n) /\ task[u].at = "temp" BY <2>1 DEF WriteInv, UnsharedIsAlone
  <2> QED BY <2>1, <2>2, <1>2, <1>4 DEF Alone
<1>11. UnsharedIsSafe' BY DEF WriteInv, UnsharedIsSafe
<1> QED BY <1>3, <1>7, <1>8, <1>9, <1>10, <1>11 DEF WriteInv

\* The handles after a rename: no other writer's is on a temporary file.
LEMMA MovedFacts ==
  ASSUME Types, NEW t \in Threads, NEW name \in Names,
         task' = [u \in Threads |-> IF u = t THEN None ELSE Moved(u, name)]
  PROVE  /\ task' \in [Threads -> WriteTask \cup {None}] /\ task'[t] = None
         /\ \A u \in Threads \ {t} :
              /\ ~Writes(u, name) => task'[u] = task[u]
              /\ Writes(u, name) =>
                   /\ Writes(u, name)' /\ task'[u].at # "temp"
                   /\ task'[u].at = "file" => task[u].at = "temp"
         /\ \A u \in Threads \ {t} : \A n \in Names : Writes(u, n)' <=> Writes(u, n)
<1>1. ASSUME NEW u \in Threads \ {t}
      PROVE  /\ task'[u] \in WriteTask \cup {None}
             /\ ~Writes(u, name) => task'[u] = task[u]
             /\ Writes(u, name) =>
                  /\ task'[u] # None /\ task'[u].name = name /\ task'[u].at # "temp"
                  /\ task'[u].at = "file" => task[u].at = "temp"
  <2>1. task'[u] = Moved(u, name) BY <1>1
  <2>2. CASE ~Writes(u, name) BY <2>1, <2>2 DEF Types, Writes, Moved
  <2>3. CASE Writes(u, name)
    <3> DEFINE r == [task[u] EXCEPT !.at = IF @ = "temp" THEN "file" ELSE "gone"]
    <3>1. task[u] \in WriteTask /\ task[u].name = name BY <2>3 DEF Types, Writes
    <3>2. r \in WriteTask /\ r.name = name /\ r.at = IF task[u].at = "temp" THEN "file" ELSE "gone"
      BY <3>1 DEF WriteTask
    <3>3. task'[u] = r BY <2>1, <2>3 DEF Moved, Writes
    <3> HIDE DEF r
    <3> QED BY <2>3, <3>2, <3>3, ContentFacts
  <2> QED BY <2>2, <2>3
<1>2. task'[t] = None OBVIOUS
<1>3. \A u \in Threads \ {t} : \A n \in Names : Writes(u, n)' <=> Writes(u, n)
  BY <1>1 DEF Writes
<1>4. task' \in [Threads -> WriteTask \cup {None}] BY <1>1, <1>2
<1> QED BY <1>1, <1>2, <1>3, <1>4 DEF Writes

\* A rename gives the name what the temporary file holds: of a lone writer,
\* the whole and synced bytes it wrote.
LEMMA RenameMovesKeeps ==
  ASSUME WriteInv, NEW t \in Threads, task[t] # None, task[t].step = "rename",
         NEW name \in Names, name = task[t].name, temp[name] # None,
         file' = [file EXCEPT ![name] = temp[name]],
         temp' = [temp EXCEPT ![name] = None],
         task' = [u \in Threads |-> IF u = t THEN None ELSE Moved(u, name)],
         shared' = IF task[t].alone /\ Writers(name) = {t} THEN shared \ {name} ELSE shared
  PROVE  WriteInv'
<1>1. Types /\ Writes(t, name) BY DEF WriteInv, Writes
<1>2. /\ task' \in [Threads -> WriteTask \cup {None}] /\ task'[t] = None
      /\ \A u \in Threads \ {t} :
           /\ ~Writes(u, name) => task'[u] = task[u]
           /\ Writes(u, name) =>
                /\ Writes(u, name)' /\ task'[u].at # "temp"
                /\ task'[u].at = "file" => task[u].at = "temp"
      /\ \A u \in Threads \ {t} : \A n \in Names : Writes(u, n)' <=> Writes(u, n)
  BY <1>1, MovedFacts
<1>3. \A n \in Names : ~Writes(t, n)' BY <1>2 DEF Writes
<1>4. /\ temp'[name] = None /\ file'[name] = temp[name]
      /\ \A n \in Names \ {name} : temp'[n] = temp[n] /\ file'[n] = file[n]
  BY <1>1 DEF Types
<1>5. Types' BY <1>1, <1>2 DEF Types
<1>6. \A n \in Names : \A u \in Threads :
        n # name /\ Writes(u, n)' => u # t /\ Writes(u, n) /\ task'[u] = task[u]
  BY <1>2, <1>3 DEF Writes
<1>7. \A n \in Names : n # name => ~Writes(t, n) BY <1>1 DEF Writes
<1>8. \A n \in Names : \A u \in Threads : n # name => (Alone(u, n)' <=> Alone(u, n))
  BY <1>2, <1>3, <1>7 DEF Alone
<1>9. HandleHasFile'
  <2> SUFFICES ASSUME NEW u \in Threads, NEW n \in Names, Writes(u, n)'
               PROVE  /\ task'[u].at = "temp" => temp'[n] # None
                      /\ task'[u].at = "file" => file'[n] # None
    BY DEF HandleHasFile
  <2>1. CASE n = name BY <2>1, <1>2, <1>3, <1>4
  <2>2. CASE n # name BY <2>2, <1>4, <1>6 DEF WriteInv, HandleHasFile
  <2> QED BY <2>1, <2>2
<1>10. FileHasHandle'
  <2> SUFFICES ASSUME NEW n \in Names, NEW u \in Threads, temp'[n] # None, Writes(u, n)'
               PROVE  \E v \in Threads : Writes(v, n)' /\ task'[v].at = "temp"
    BY DEF FileHasHandle
  <2>1. n # name /\ temp[n] # None /\ Writes(u, n) BY <1>4, <1>6
  <2>2. PICK v \in Threads : Writes(v, n) /\ task[v].at = "temp"
    BY <2>1 DEF WriteInv, FileHasHandle
  <2>3. v # t BY <2>1, <2>2, <1>7
  <2> QED BY <2>1, <2>2, <2>3, <1>2, <1>6
<1>11. LoneFileIsIntact'
  <2> SUFFICES ASSUME NEW n \in Names, NEW u \in Threads, Alone(u, n)', task'[u].at = "temp"
               PROVE  temp'[n] = Made(task'[u].step)
    BY DEF LoneFileIsIntact, Made
  <2>1. Writes(u, n)' BY DEF Alone
  <2>2. n # name BY <2>1, <1>2, <1>3
  <2>3. Alone(u, n) /\ task'[u] = task[u] BY <2>1, <2>2, <1>6, <1>8
  <2> QED BY <2>2, <2>3, <1>4 DEF WriteInv, LoneFileIsIntact
<1>12. name \notin shared' => Alone(t, name) /\ task[t].at = "temp"
  <2>1. CASE name \notin shared BY <2>1, <1>1 DEF WriteInv, UnsharedIsAlone
  <2>2. CASE Writers(name) = {t}
    <3>1. Alone(t, name) BY <2>2, <1>1 DEF Alone, Writes, Writers
    <3>2. PICK u \in Threads : Writes(u, name) /\ task[u].at = "temp"
      BY <1>1 DEF WriteInv, FileHasHandle
    <3> QED BY <3>1, <3>2 DEF Alone
  <2> QED BY <2>1, <2>2
<1>13. \A n \in Names : n # name /\ n \notin shared' => n \notin shared OBVIOUS
<1>14. UnsharedIsAlone'
  <2> SUFFICES ASSUME NEW n \in Names, n \notin shared', NEW u \in Threads, Writes(u, n)'
               PROVE  Alone(u, n)' /\ task'[u].at = "temp"
    BY DEF UnsharedIsAlone
  <2>1. CASE n = name BY <2>1, <1>2, <1>3, <1>12 DEF Alone
  <2>2. CASE n # name BY <2>2, <1>6, <1>8, <1>13 DEF WriteInv, UnsharedIsAlone
  <2> QED BY <2>1, <2>2
<1>15. UnsharedIsSafe'
  <2> SUFFICES ASSUME NEW n \in Names, n \notin shared' PROVE file'[n] \in {None, Safe}
    BY DEF UnsharedIsSafe
  <2>1. CASE n = name
    <3>1. temp[name] = Made("rename") BY <2>1, <1>12 DEF WriteInv, LoneFileIsIntact
    <3> QED BY <2>1, <3>1, <1>4 DEF Made
  <2>2. CASE n # name BY <2>2, <1>4, <1>13 DEF WriteInv, UnsharedIsSafe
  <2> QED BY <2>1, <2>2
<1> QED BY <1>5, <1>9, <1>10, <1>11, <1>14, <1>15 DEF WriteInv

\* Renaming keeps it.
LEMMA RenameKeeps ==
  ASSUME WriteInv, NEW t \in Threads, Rename(t)
  PROVE  WriteInv'
<1>1. task[t].name \in Names BY DEF WriteInv, Types, WriteTask, Rename
<1>2. CASE temp[task[t].name] = None BY <1>2, RenameFailsKeeps DEF Rename
<1>3. CASE temp[task[t].name] # None BY <1>1, <1>3, RenameMovesKeeps DEF Rename
<1> QED BY <1>2, <1>3

\* A removed file takes no temporary file with it.
LEMMA RemoveKeeps ==
  ASSUME WriteInv, NEW c \in Names, Remove(c), UNCHANGED <<temp, shared>>
  PROVE  WriteInv'
<1>1. Types BY DEF WriteInv
<1>2. ASSUME NEW u \in Threads
      PROVE  /\ task'[u] \in WriteTask \cup {None}
             /\ task'[u] = None <=> task[u] = None
             /\ task[u] # None => /\ task'[u].name = task[u].name /\ task'[u].step = task[u].step
                                  /\ task'[u].at = "temp" <=> task[u].at = "temp"
                                  /\ task'[u].at = "file" => task[u].at = "file" /\ task[u].name # c
  <2> DEFINE r == [task[u] EXCEPT !.at = "gone"]
  <2>1. CASE task[u] # None /\ task[u].name = c /\ task[u].at = "file"
    <3>1. task'[u] = r BY <2>1 DEF Remove
    <3>2. task[u] \in WriteTask BY <1>1, <2>1 DEF Types
    <3>3. /\ r \in WriteTask /\ r.name = task[u].name /\ r.step = task[u].step /\ r.at = "gone"
      BY <3>2 DEF WriteTask
    <3> HIDE DEF r
    <3> QED BY <2>1, <3>1, <3>3, ContentFacts
  <2>2. CASE ~(task[u] # None /\ task[u].name = c /\ task[u].at = "file")
    <3>1. task'[u] = task[u] BY <2>2 DEF Remove
    <3> QED BY <2>2, <3>1, <1>1 DEF Types
  <2> QED BY <2>1, <2>2
<1>3. \A u \in Threads : \A n \in Names :
        /\ Writes(u, n)' <=> Writes(u, n)
        /\ Alone(u, n)' <=> Alone(u, n)
  BY <1>2 DEF Writes, Alone
<1>4. \A u \in Threads : \A n \in Names :
        Writes(u, n) => /\ task'[u].step = task[u].step
                        /\ task'[u].at = "temp" <=> task[u].at = "temp"
                        /\ task'[u].at = "file" => task[u].at = "file" /\ n # c
  BY <1>2 DEF Writes
<1>5. file'[c] = None /\ \A n \in Names \ {c} : file'[n] = file[n] BY <1>1 DEF Types, Remove
<1>6. Types'
  <2>1. task' \in [Threads -> WriteTask \cup {None}]
    <3>1. task' = [u \in Threads |-> task'[u]] BY DEF Remove
    <3> QED BY <3>1, <1>2
  <2> QED BY <2>1, <1>1 DEF Types, Remove
<1>7. HandleHasFile' BY <1>3, <1>4, <1>5 DEF WriteInv, HandleHasFile
<1>8. FileHasHandle' BY <1>3, <1>4 DEF WriteInv, FileHasHandle
<1>9. LoneFileIsIntact' BY <1>3, <1>4 DEF WriteInv, LoneFileIsIntact, Alone
<1>10. UnsharedIsAlone' BY <1>3, <1>4 DEF WriteInv, UnsharedIsAlone
<1>11. UnsharedIsSafe' BY <1>5 DEF WriteInv, UnsharedIsSafe
<1> QED BY <1>6, <1>7, <1>8, <1>9, <1>10, <1>11 DEF WriteInv

\* A crash loses bytes, but never those of a file that was synced.
LEMMA CrashKeeps ==
  ASSUME WriteInv, Crash
  PROVE  WriteInv'
<1>1. PICK lost \in SUBSET Unsynced(file) : file' = Left(file, lost) BY DEF Crash
<1>2. PICK gone \in SUBSET Unsynced(temp) : temp' = Left(temp, gone) BY DEF Crash
<1>3. \A u \in Threads : task'[u] = None BY DEF Crash
<1>4. \A u \in Threads : \A n \in Names : ~Writes(u, n)' BY <1>3 DEF Writes
<1>5. \A files \in [Names -> Content \cup {None}] : \A some :
        Left(files, some) \in [Names -> Content \cup {None}]
  <2> SUFFICES ASSUME NEW files \in [Names -> Content \cup {None}], NEW some, NEW n \in Names
               PROVE  (IF files[n] = None THEN None
                       ELSE [whole |-> files[n].whole /\ n \notin some, synced |-> TRUE])
                        \in Content \cup {None}
    BY DEF Left
  <2>1. CASE files[n] = None BY <2>1
  <2>2. CASE files[n] # None
    <3>1. files[n].whole \in BOOLEAN BY <2>2 DEF Content
    <3>2. (files[n].whole /\ n \notin some) \in BOOLEAN OBVIOUS
    <3> QED BY <2>2, <3>2 DEF Content
  <2> QED BY <2>1, <2>2
<1>6. Types' BY <1>1, <1>2, <1>5 DEF WriteInv, Types, Crash
<1>7. HandleHasFile' /\ FileHasHandle' BY <1>4 DEF HandleHasFile, FileHasHandle
<1>8. LoneFileIsIntact' /\ UnsharedIsAlone' BY <1>4 DEF LoneFileIsIntact, UnsharedIsAlone, Alone
<1>9. UnsharedIsSafe'
  <2> SUFFICES ASSUME NEW n \in Names, n \notin shared PROVE file'[n] \in {None, Safe}
    BY DEF UnsharedIsSafe, Crash
  <2>1. file[n] \in {None, Safe} BY DEF WriteInv, UnsharedIsSafe
  <2>2. CASE file[n] = None BY <2>2, <1>1 DEF Left
  <2>3. CASE file[n] = Safe /\ file[n] # None
    <3>1. file[n].synced /\ file[n].whole BY <2>3 DEF Safe
    <3>2. n \notin lost BY <3>1 DEF Unsynced
    <3>3. file'[n] = [whole |-> file[n].whole /\ n \notin lost, synced |-> TRUE]
      BY <2>3, <1>1 DEF Left
    <3>4. (file[n].whole /\ n \notin lost) = TRUE BY <3>1, <3>2, <2>3 DEF Safe
    <3> QED BY <3>3, <3>4 DEF Safe
  <2> QED BY <2>1, <2>2, <2>3
<1> QED BY <1>6, <1>7, <1>8, <1>9 DEF WriteInv

-----------------------------------------------------------------------------
(* A pass *)

\* The inductive invariant: the roots marked so far have their chunks in the
\* live set, and what is left to sweep is of no root the pass keeps.
PassInv ==
  /\ marks \in (SUBSET Chunks) \cup {None}
  /\ pass \in Pass \cup {None}
  /\ pass # None /\ pass.phase = "mark" =>
       /\ marks # None /\ pass.todo \subseteq pass.kept
       /\ \A r \in pass.kept \ pass.todo : Leaves[r] \subseteq marks
  /\ pass # None /\ pass.phase = "sweep" =>
       /\ pass.todo \subseteq Chunks
       /\ \A r \in pass.kept : pass.todo \cap Leaves[r] = {}

\* The start of a pass keeps the pass invariant.
LEMMA StartMarkingKeeps == PassInv /\ StartMarking => PassInv'
<1> SUFFICES ASSUME PassInv, StartMarking PROVE PassInv' OBVIOUS
<1> DEFINE kept == {r \in Roots : file[r] # None}
           p == [phase |-> "mark", kept |-> kept, todo |-> kept]
<1>1. marks' = {} /\ pass' = p BY DEF StartMarking
<1>2. p \in Pass /\ p.phase = "mark" /\ p.kept = kept /\ p.todo = kept BY DEF Pass, Names
<1> HIDE DEF p, kept
<1>3. {} \in SUBSET Chunks OBVIOUS
<1> QED BY <1>1, <1>2, <1>3, NoneAssumption DEF PassInv

\* A root marked is a root whose chunks are live.
LEMMA MarkKeeps ==
  ASSUME PassInv, NEW r \in Roots, Mark(r)
  PROVE  PassInv'
<1>1. /\ pass \in Pass /\ pass.phase = "mark" /\ r \in pass.todo /\ pass # None
      /\ marks \in SUBSET Chunks /\ marks # None /\ pass.todo \subseteq pass.kept
      /\ \A q \in pass.kept \ pass.todo : Leaves[q] \subseteq marks
  BY DEF PassInv, Mark
<1>2. CASE pass' = None /\ marks' = marks BY <1>1, <1>2 DEF PassInv
<1>3. CASE marks' = Extended(marks, r) /\ pass' = [pass EXCEPT !.todo = @ \ {r}]
  <2> DEFINE p == [pass EXCEPT !.todo = @ \ {r}]
  <2>1. /\ p \in Pass /\ p.phase = "mark" /\ p.kept = pass.kept /\ p.todo = pass.todo \ {r}
    BY <1>1 DEF Pass
  <2>2. pass' = p BY <1>3
  <2> HIDE DEF p
  <2>3. marks' = marks \cup Leaves[r] BY <1>1, <1>3 DEF Extended
  <2>4. Leaves[r] \in SUBSET Chunks BY ChunksAssumption
  <2>5. marks' \in SUBSET Chunks BY <1>1, <2>3, <2>4
  <2>6. marks' # None BY <2>5, NoneAssumption
  <2>7. \A q \in p.kept \ p.todo : Leaves[q] \subseteq marks' BY <1>1, <2>1, <2>3
  <2> QED BY <1>1, <2>1, <2>2, <2>5, <2>6, <2>7 DEF PassInv
<1> QED BY <1>2, <1>3 DEF Mark

\* The chunks listed for the sweep are outside the live set.
LEMMA SweepKeeps == PassInv /\ Sweep => PassInv'
<1> SUFFICES ASSUME PassInv, Sweep PROVE PassInv' OBVIOUS
<1>1. /\ pass \in Pass /\ pass.phase = "mark" /\ pass.todo = {} /\ pass # None
      /\ marks \in SUBSET Chunks
      /\ \A q \in pass.kept : Leaves[q] \subseteq marks
  BY DEF PassInv, Sweep
<1> DEFINE p == [pass EXCEPT !.phase = "sweep", !.todo = Listed \ marks]
<1>2. Listed \in SUBSET Chunks /\ Listed \in SUBSET Names BY DEF Listed, Names
<1>3. p \in Pass /\ p.phase = "sweep" /\ p.kept = pass.kept /\ p.todo = Listed \ marks
  BY <1>1, <1>2 DEF Pass
<1>4. pass' = p /\ marks' = None BY DEF Sweep
<1> HIDE DEF p
<1> QED BY <1>1, <1>2, <1>3, <1>4 DEF PassInv

\* The sweep of one chunk keeps it.
LEMMA SweepOneKeeps ==
  ASSUME PassInv, NEW c \in Chunks, SweepOne(c)
  PROVE  PassInv'
<1>1. /\ pass \in Pass /\ pass.phase = "sweep" /\ pass # None /\ pass.todo \subseteq Chunks
      /\ \A q \in pass.kept : pass.todo \cap Leaves[q] = {}
  BY DEF PassInv, SweepOne
<1> DEFINE p == [pass EXCEPT !.todo = @ \ {c}]
<1>2. p \in Pass /\ p.phase = "sweep" /\ p.kept = pass.kept /\ p.todo = pass.todo \ {c}
  BY <1>1 DEF Pass
<1>3. pass' = p /\ marks' = marks BY DEF SweepOne
<1> HIDE DEF p
<1> QED BY <1>1, <1>2, <1>3 DEF PassInv

-----------------------------------------------------------------------------
(* Every step *)

\* Every step keeps the write invariant.
LEMMA StepKeepsWrites == WriteInv /\ [Next]_vars => WriteInv'
<1> SUFFICES ASSUME WriteInv, [Next]_vars PROVE WriteInv' OBVIOUS
<1>1. ASSUME UNCHANGED <<file, temp, task, shared>> PROVE WriteInv'
  BY <1>1 DEF WriteInv, Types, HandleHasFile, FileHasHandle, LoneFileIsIntact, UnsharedIsAlone,
              UnsharedIsSafe, Alone, Writes, Made
<1>2. ASSUME NEW t \in Threads, NEW name \in Puts, Create(t, name) PROVE WriteInv'
  BY <1>2, CreateKeeps, ChunksAssumption
<1>3. ASSUME NEW t \in Threads, Write(t) PROVE WriteInv' BY <1>3, WriteKeeps
<1>4. ASSUME NEW t \in Threads, Sync(t) PROVE WriteInv' BY <1>4, SyncKeeps
<1>5. ASSUME NEW t \in Threads, Rename(t) PROVE WriteInv' BY <1>5, RenameKeeps
<1>6. CASE StartMarking \/ Sweep \/ SweepEnds \/ \E r \in Roots : Mark(r)
  BY <1>1, <1>6 DEF StartMarking, Sweep, SweepEnds, Mark
<1>7. ASSUME NEW c \in Chunks, SweepOne(c) \/ Clear(c) PROVE WriteInv'
  <2>1. Remove(c) /\ UNCHANGED <<temp, shared>> BY <1>7 DEF SweepOne, Clear
  <2> QED BY <2>1, RemoveKeeps DEF Names
<1>8. CASE Crash BY <1>8, CrashKeeps
<1>9. CASE UNCHANGED vars BY <1>1, <1>9 DEF vars
<1> QED BY <1>2, <1>3, <1>4, <1>5, <1>6, <1>7, <1>8, <1>9 DEF Next

\* Every step keeps the pass invariant.
LEMMA StepKeepsPass == PassInv /\ [Next]_vars => PassInv'
<1> SUFFICES ASSUME PassInv, [Next]_vars PROVE PassInv' OBVIOUS
<1>1. ASSUME UNCHANGED <<marks, pass>> PROVE PassInv' BY <1>1 DEF PassInv
<1>2. ASSUME NEW t \in Threads,
             (\E name \in Puts : Create(t, name)) \/ Write(t) \/ Sync(t) \/ Rename(t)
      PROVE  PassInv'
  BY <1>1, <1>2 DEF Create, Write, Sync, Rename
<1>3. CASE StartMarking \/ Sweep BY <1>3, StartMarkingKeeps, SweepKeeps
<1>4. CASE SweepEnds BY <1>4 DEF SweepEnds, PassInv
<1>5. ASSUME NEW r \in Roots, Mark(r) PROVE PassInv' BY <1>5, MarkKeeps
<1>6. ASSUME NEW c \in Chunks, SweepOne(c) PROVE PassInv' BY <1>6, SweepOneKeeps
<1>7. ASSUME NEW c \in Chunks, Clear(c) PROVE PassInv' BY <1>1, <1>7 DEF Clear
<1>8. CASE Crash BY <1>8 DEF Crash, PassInv
<1>9. CASE UNCHANGED vars BY <1>1, <1>9 DEF vars
<1> QED BY <1>2, <1>3, <1>4, <1>5, <1>6, <1>7, <1>8, <1>9 DEF Next

\* Both hold at first.
LEMMA InitHolds == Init => WriteInv /\ PassInv
<1> SUFFICES ASSUME Init PROVE WriteInv /\ PassInv OBVIOUS
<1>1. Types
  <2>1. file \in [Names -> Content \cup {None}] BY ContentFacts DEF Init
  <2> QED BY <2>1 DEF Init, Types
<1>2. \A t \in Threads : \A n \in Names : ~Writes(t, n) BY DEF Init, Writes
<1>3. UnsharedIsSafe BY DEF Init, UnsharedIsSafe
<1>4. HandleHasFile /\ FileHasHandle /\ LoneFileIsIntact /\ UnsharedIsAlone
  BY <1>2 DEF HandleHasFile, FileHasHandle, LoneFileIsIntact, UnsharedIsAlone, Alone
<1> QED BY <1>1, <1>3, <1>4 DEF WriteInv, PassInv, Init

\* For every number of threads and names: a file under its final name is torn
\* only if two puts of that name overlapped since one last had it alone,
\* wherever the process crashed (write_atomic).
THEOREM TornByOverlapOnly == Spec => []TornOnlyIfShared
<1>1. WriteInv => TornOnlyIfShared
  BY DEF WriteInv, UnsharedIsSafe, TornOnlyIfShared, Safe
<1> QED BY <1>1, InitHolds, StepKeepsWrites, PTL DEF Spec

\* For every set of roots, shared chunks or not: a pass takes no chunk of a
\* root it began with, in whatever order it marks and whatever puts, evictions
\* and crashes run beside it (mark, sweep).
THEOREM PassSparesLive == Spec => LiveSurvives
<1>1. WriteInv /\ PassInv /\ [Next]_vars =>
        [\A c \in Chunks : Reclaims(c) => \A r \in pass.kept : c \notin Leaves[r]]_vars
  <2> SUFFICES ASSUME WriteInv, PassInv, Next, NEW c \in Chunks, Reclaims(c),
                      NEW r \in pass.kept
               PROVE  c \notin Leaves[r]
    OBVIOUS
  <2>1. pass' # pass /\ file[c] # None /\ file'[c] = None BY DEF Reclaims
  <2>2. c \in Names BY DEF Names
  <2>3. ASSUME NEW d \in Chunks, SweepOne(d) PROVE c \notin Leaves[r]
    <3>1. c = d BY <2>1, <2>2, <2>3 DEF SweepOne, Remove, WriteInv, Types
    <3> QED BY <3>1, <2>3 DEF SweepOne, PassInv
  <2>4. CASE Crash
    <3>1. PICK lost \in SUBSET Unsynced(file) : file' = Left(file, lost) BY <2>4 DEF Crash
    <3>2. file'[c] = [whole |-> file[c].whole /\ c \notin lost, synced |-> TRUE]
      BY <2>1, <2>2, <3>1 DEF Left
    <3>3. (file[c].whole /\ c \notin lost) \in BOOLEAN OBVIOUS
    <3>4. file'[c] \in Content BY <3>2, <3>3 DEF Content
    <3> QED BY <2>1, <3>4, ContentFacts
  <2>5. CASE StartMarking \/ Sweep \/ SweepEnds \/ \E q \in Roots : Mark(q)
    BY <2>1, <2>5 DEF StartMarking, Sweep, SweepEnds, Mark
  <2>6. ASSUME NEW t \in Threads,
               (\E name \in Puts : Create(t, name)) \/ Write(t) \/ Sync(t) \/ Rename(t)
        PROVE  FALSE
    BY <2>1, <2>6 DEF Create, Write, Sync, Rename
  <2>7. ASSUME NEW d \in Chunks, Clear(d) PROVE FALSE BY <2>1, <2>7 DEF Clear
  <2> QED BY <2>3, <2>4, <2>5, <2>6, <2>7 DEF Next
<1> QED BY <1>1, InitHolds, StepKeepsWrites, StepKeepsPass, PTL DEF Spec, LiveSurvives

-----------------------------------------------------------------------------
(* Counting *)

\* Numbers are well-founded.
LEMMA LeastNat ==
  ASSUME NEW S \in SUBSET Nat, S # {}
  PROVE  \E x \in S : \A y \in S : x <= y
<1> DEFINE R == OpToRel(<, Nat)
<1>1. IsWellFoundedOn(R, Nat) BY NatLessThanWellFounded, Zenon
<1>2. \A x, y \in Nat : x < y => <<x, y>> \in R BY Zenon DEF OpToRel
<1> HIDE DEF R
<1>3. PICK x \in S : \A y \in S : ~ (<<y, x>> \in R) BY <1>1, WFMin, Zenon
<1>4. \A y \in S : ~ (y < x) BY <1>2, <1>3
<1> QED BY <1>4

\* Induction over a set of numbers.
LEMMA Climb ==
  ASSUME NEW S \in SUBSET Nat, 0 \in S, \A n \in S : n + 1 \in S
  PROVE  \A n \in Nat : n \in S
<1> SUFFICES ASSUME NEW m \in Nat, m \notin S PROVE FALSE OBVIOUS
<1> DEFINE T == {n \in Nat : n \notin S}
<1>1. T \in SUBSET Nat /\ T # {} OBVIOUS
<1>2. PICK x \in T : \A y \in T : x <= y BY <1>1, LeastNat
<1>3. x # 0 OBVIOUS
<1>4. x - 1 \in Nat /\ x - 1 \notin T BY <1>2, <1>3
<1>5. x - 1 \in S BY <1>4
<1>6. (x - 1) + 1 \in S BY <1>5
<1> QED BY <1>6

-----------------------------------------------------------------------------
(* Documents: what a log holds *)

\* Every change of a document comes after its dependencies.
PastFirst(chs, l) ==
  \A i \in 1..Len(l) : chs[l[i]].deps \subseteq Elements(SubSeq(l, 1, i - 1))

\* What the first entries of a log are.
LEMMA FirstOnes ==
  ASSUME NEW S, NEW l \in Seq(S), NEW k \in 0..Len(l)
  PROVE  Elements(SubSeq(l, 1, k)) = {l[i] : i \in 1..k}
<1>1. Len(l) \in Nat /\ k \in Int /\ \A i \in 1..k : l[i] \in S
  BY LenProperties, ElementOfSeq
<1> DEFINE s == SubSeq(l, 1, k)
<1>2. /\ Len(s) = IF 1 <= k THEN k - 1 + 1 ELSE 0
      /\ \A i \in 1..(k - 1 + 1) : s[i] = l[1 + i - 1]
  BY <1>1, SubSeqProperties
<1> HIDE DEF s
<1>3. Len(s) = k /\ \A i \in 1..k : s[i] = l[i]
  BY <1>1, <1>2
<1>4. Elements(s) = {l[i] : i \in 1..k}
  BY <1>3 DEF Elements
<1> QED BY <1>4 DEF s

\* What appending a change does.
LEMMA LogGrows ==
  ASSUME NEW S, NEW l \in Seq(S), NEW c \in S
  PROVE  /\ Append(l, c) \in Seq(S)
         /\ Elements(Append(l, c)) = Elements(l) \cup {c}
<1> DEFINE k == Len(l)
           r == Append(l, c)
<1>1. /\ r \in Seq(S) /\ k \in Nat /\ Len(r) = k + 1
      /\ \A i \in 1..k : r[i] = l[i]
      /\ r[k + 1] = c
  BY AppendProperties, LenProperties
<1>2. 1..Len(r) = (1..k) \cup {k + 1}
  BY <1>1
<1> HIDE DEF r
<1>3. Elements(r) = Elements(l) \cup {c}
  BY <1>1, <1>2 DEF Elements
<1> QED BY <1>1, <1>3 DEF r

LEMMA ElementsTyped ==
  ASSUME NEW S, NEW l \in Seq(S)
  PROVE  Elements(l) \subseteq S
BY ElementOfSeq DEF Elements

LEMMA ElementsFinite ==
  ASSUME NEW S, NEW l \in Seq(S)
  PROVE  IsFiniteSet(Elements(l))
<1>1. Len(l) \in Nat /\ l \in [1..Len(l) -> S]
  BY LenProperties
<1>2. l \in Surjection(1..Len(l), Elements(l))
  BY <1>1 DEF Surjection, Elements
<1>3. IsFiniteSet(1..Len(l))
  BY <1>1, FS_Interval
<1> QED BY <1>2, <1>3, FS_Surjection

\* A change whose dependencies are held goes at the end.
LEMMA PastStaysFirst ==
  ASSUME NEW chs, NEW S, NEW l \in Seq(S), NEW c \in S, PastFirst(chs, l),
         chs[c].deps \subseteq Elements(l)
  PROVE  PastFirst(chs, Append(l, c))
<1> DEFINE k == Len(l)
           r == Append(l, c)
<1>1. /\ r \in Seq(S) /\ k \in Nat /\ Len(r) = k + 1
      /\ \A i \in 1..k : r[i] = l[i]
      /\ r[k + 1] = c
  BY AppendProperties, LenProperties
<1> HIDE DEF r
<1>2. ASSUME NEW i \in 1..(k + 1)
      PROVE  Elements(SubSeq(r, 1, i - 1)) = {l[j] : j \in 1..(i - 1)}
  <2>1. i - 1 \in 0..Len(r)
    BY <1>1
  <2>2. Elements(SubSeq(r, 1, i - 1)) = {r[j] : j \in 1..(i - 1)}
    BY <1>1, <2>1, FirstOnes
  <2>3. \A j \in 1..(i - 1) : r[j] = l[j]
    BY <1>1
  <2> QED BY <2>2, <2>3
<1>3. ASSUME NEW i \in 1..k
      PROVE  chs[r[i]].deps \subseteq Elements(SubSeq(r, 1, i - 1))
  <2>1. i - 1 \in 0..Len(l) /\ i \in 1..(k + 1)
    BY <1>1
  <2>2. Elements(SubSeq(l, 1, i - 1)) = {l[j] : j \in 1..(i - 1)}
    BY <2>1, FirstOnes
  <2>3. chs[l[i]].deps \subseteq Elements(SubSeq(l, 1, i - 1))
    BY DEF PastFirst
  <2> QED BY <1>1, <1>2, <2>1, <2>2, <2>3
<1>4. chs[r[k + 1]].deps \subseteq Elements(SubSeq(r, 1, (k + 1) - 1))
  <2>1. k + 1 \in 1..(k + 1) /\ (k + 1) - 1 = k
    BY <1>1
  <2>2. Elements(l) = {l[j] : j \in 1..k}
    BY DEF Elements
  <2>3. Elements(SubSeq(r, 1, (k + 1) - 1)) = {l[j] : j \in 1..((k + 1) - 1)}
    BY <1>2, <2>1
  <2> QED BY <1>1, <2>1, <2>2, <2>3
<1>5. \A i \in 1..Len(r) : chs[r[i]].deps \subseteq Elements(SubSeq(r, 1, i - 1))
  <2>1. \A i \in 1..Len(r) : i \in 1..k \/ i = k + 1
    BY <1>1
  <2> QED BY <1>3, <1>4, <2>1
<1> QED BY <1>5 DEF PastFirst, r

-----------------------------------------------------------------------------
(* Documents: draining what was buffered *)

\* After k steps of a drain of P into log: what left the buffer has its past in
\* the log, the batch at hand is ready, and either nothing is ready any more or
\* there are at most as many steps to go as the buffer calls for.
Draining(k, d, log, P) ==
  /\ d \in [log : Seq(DOMAIN changes), orphans : SUBSET P, batch : SUBSET P]
  /\ PastFirst(changes, d.log)
  /\ Elements(log) \subseteq Elements(d.log)
  /\ d.orphans \cap Elements(d.log) = {}
  /\ d.batch \subseteq Ready(Elements(d.log), d.orphans)
  /\ P \ d.orphans \subseteq Ready(Elements(d.log), P)
  /\ \/ d.batch = {} /\ Ready(Elements(d.log), d.orphans) = {}
     \/ 2 * Cardinality(d.orphans) + k <= 2 * Cardinality(P) + (IF d.batch = {} THEN 0 ELSE 1)

LEMMA DrainStarts ==
  ASSUME NEW log \in Seq(DOMAIN changes), NEW P, IsFiniteSet(P),
         PastFirst(changes, log), P \cap Elements(log) = {}
  PROVE  Draining(0, [log |-> log, orphans |-> P, batch |-> {}], log, P)
<1>1. Cardinality(P) \in Nat
  BY FS_CardinalityType
<1> QED BY <1>1 DEF Draining, Ready

\* A pass begins.
LEMMA PassBegins ==
  ASSUME NEW k \in Nat, NEW log, NEW P, NEW d, Draining(k, d, log, P), d.batch = {},
         IsFiniteSet(P)
  PROVE  Draining(k + 1, [d EXCEPT !.batch = Ready(Elements(d.log), d.orphans)], log, P)
<1> DEFINE e == [d EXCEPT !.batch = Ready(Elements(d.log), d.orphans)]
           R == Ready(Elements(d.log), d.orphans)
<1>1. /\ e.log = d.log /\ e.orphans = d.orphans /\ e.batch = R
      /\ R \subseteq d.orphans /\ d.orphans \subseteq P
      /\ e \in [log : Seq(DOMAIN changes), orphans : SUBSET P, batch : SUBSET P]
  BY DEF Draining, Ready
<1>2. Cardinality(d.orphans) \in Nat /\ Cardinality(P) \in Nat
  BY <1>1, FS_Subset, FS_CardinalityType
<1> HIDE DEF e, R
<1>3. \/ e.batch = {} /\ Ready(Elements(e.log), e.orphans) = {}
      \/ 2 * Cardinality(e.orphans) + (k + 1) <= 2 * Cardinality(P) + (IF e.batch = {} THEN 0 ELSE 1)
  <2>1. CASE R = {}
    BY <1>1, <2>1 DEF R
  <2>2. CASE R # {}
    <3>1. 2 * Cardinality(d.orphans) + k <= 2 * Cardinality(P)
      BY <1>2, <2>2 DEF Draining, R
    <3> QED BY <1>1, <1>2, <2>2, <3>1
  <2> QED BY <2>1, <2>2
<1>4. Draining(k + 1, e, log, P)
  BY <1>1, <1>3 DEF Draining, R
<1> QED BY <1>4 DEF e

\* A change of the batch leaves the buffer, into the log or refused.
LEMMA OrphanLeaves ==
  ASSUME NEW k \in Nat, NEW log, NEW P, NEW d, Draining(k, d, log, P), IsFiniteSet(P),
         P \subseteq DOMAIN changes, NEW c \in d.batch, NEW l,
         l = d.log \/ l = Append(d.log, c)
  PROVE  Draining(k + 1, [log |-> l, orphans |-> d.orphans \ {c}, batch |-> d.batch \ {c}], log, P)
<1> DEFINE O == d.orphans \ {c}
           B == d.batch \ {c}
           e == [log |-> l, orphans |-> O, batch |-> B]
<1>1. /\ d.log \in Seq(DOMAIN changes) /\ d.orphans \subseteq P
      /\ c \in d.orphans /\ c \in DOMAIN changes /\ c \in P
      /\ changes[c].deps \subseteq Elements(d.log)
      /\ PastFirst(changes, d.log)
  BY DEF Draining, Ready
<1>2. Append(d.log, c) \in Seq(DOMAIN changes) /\ Elements(Append(d.log, c)) = Elements(d.log) \cup {c}
  BY <1>1, LogGrows
<1>3. PastFirst(changes, Append(d.log, c))
  BY <1>1, PastStaysFirst
<1>4. /\ l \in Seq(DOMAIN changes) /\ PastFirst(changes, l)
      /\ Elements(d.log) \subseteq Elements(l) /\ Elements(l) \subseteq Elements(d.log) \cup {c}
  BY <1>1, <1>2, <1>3
<1>5. /\ Cardinality(d.orphans) \in Nat /\ Cardinality(P) \in Nat
      /\ Cardinality(O) = Cardinality(d.orphans) - 1
  <2>1. IsFiniteSet(d.orphans)
    BY <1>1, FS_Subset
  <2> QED BY <1>1, <2>1, FS_RemoveElement, FS_CardinalityType
<1>6. 2 * Cardinality(d.orphans) + k <= 2 * Cardinality(P) + 1
  BY <1>5 DEF Draining
<1>7. 2 * Cardinality(O) + (k + 1) <= 2 * Cardinality(P) + (IF B = {} THEN 0 ELSE 1)
  BY <1>5, <1>6
<1>8. B \subseteq Ready(Elements(l), O)
  BY <1>4 DEF Draining, Ready
<1>9. P \ O \subseteq Ready(Elements(l), P)
  BY <1>1, <1>4 DEF Draining, Ready
<1>10. O \cap Elements(l) = {} /\ Elements(log) \subseteq Elements(l)
  BY <1>4 DEF Draining
<1>11. e \in [log : Seq(DOMAIN changes), orphans : SUBSET P, batch : SUBSET P]
  BY <1>1, <1>4 DEF Draining
<1>12. e.log = l /\ e.orphans = O /\ e.batch = B
  OBVIOUS
<1> HIDE DEF e, O, B
<1>13. Draining(k + 1, e, log, P)
  BY <1>4, <1>7, <1>8, <1>9, <1>10, <1>11, <1>12, Zenon DEF Draining
<1> QED BY <1>13 DEF e, O, B

LEMMA DrainStepKeeps ==
  ASSUME NEW k \in Nat, NEW log, NEW P, NEW d, Draining(k, d, log, P), IsFiniteSet(P),
         P \subseteq DOMAIN changes, NEW e \in DrainStep(d)
  PROVE  Draining(k + 1, e, log, P)
<1>1. CASE d.batch = {}
  <2>1. e = [d EXCEPT !.batch = Ready(Elements(d.log), d.orphans)]
    BY <1>1 DEF DrainStep
  <2> QED BY <1>1, <2>1, PassBegins
<1>2. CASE d.batch # {}
  <2>1. PICK c \in d.batch :
          e = [log |-> IF Forges(changes, Elements(d.log), c) THEN d.log ELSE Append(d.log, c),
               orphans |-> d.orphans \ {c}, batch |-> d.batch \ {c}]
    BY <1>2, Zenon DEF DrainStep
  <2> DEFINE l == IF Forges(changes, Elements(d.log), c) THEN d.log ELSE Append(d.log, c)
  <2>2. l = d.log \/ l = Append(d.log, c)
    OBVIOUS
  <2>3. e = [log |-> l, orphans |-> d.orphans \ {c}, batch |-> d.batch \ {c}]
    BY <2>1
  <2> HIDE DEF l
  <2> QED BY <2>2, <2>3, OrphanLeaves
<1> QED BY <1>1, <1>2

\* G gives the states a drain can be in, step by step.
Drains(G, log, P) ==
  /\ G[0] = {[log |-> log, orphans |-> P, batch |-> {}]}
  /\ \A k \in 1..(2 * Cardinality(P)) : G[k] = UNION {DrainStep(d) : d \in G[k - 1]}
  /\ Drained(log, P) = {[log |-> d.log, orphans |-> d.orphans] : d \in G[2 * Cardinality(P)]}

\* A drain has steps.
LEMMA DrainSteps ==
  ASSUME NEW log, NEW P, Cardinality(P) \in Nat
  PROVE  \E G : Drains(G, log, P)
<1> DEFINE First == {[log |-> log, orphans |-> P, batch |-> {}]}
           Fits(G, n) ==
             G = [k \in 0..n |-> IF k = 0 THEN {[log |-> log, orphans |-> P, batch |-> {}]}
                                 ELSE UNION {DrainStep(d) : d \in G[k - 1]}]
           S == {n \in Nat : \E G : Fits(G, n)}
           last == 2 * Cardinality(P)
<1>1. 0 \in S
  <2> DEFINE G == [k \in 0..0 |-> First]
  <2>1. Fits(G, 0) OBVIOUS
  <2> QED BY <2>1
<1>2. ASSUME NEW n \in S PROVE n + 1 \in S
  <2>1. PICK G : Fits(G, n) OBVIOUS
  <2> DEFINE H == [k \in 0..(n + 1) |-> IF k = n + 1 THEN UNION {DrainStep(d) : d \in G[n]} ELSE G[k]]
  <2>2. \A k \in 0..n : H[k] = G[k] OBVIOUS
  <2>3. ASSUME NEW k \in 0..(n + 1)
        PROVE  H[k] = IF k = 0 THEN First ELSE UNION {DrainStep(d) : d \in H[k - 1]}
    <3>1. CASE k = n + 1
      <4>1. H[k] = UNION {DrainStep(d) : d \in G[n]} BY <3>1
      <4>2. H[k - 1] = G[n] BY <3>1, <2>2
      <4> QED BY <4>1, <4>2, <3>1
    <3>2. CASE k # n + 1
      <4>1. k \in 0..n BY <3>2
      <4>2. G[k] = IF k = 0 THEN First ELSE UNION {DrainStep(d) : d \in G[k - 1]} BY <2>1, <4>1
      <4>3. k # 0 => k - 1 \in 0..n BY <4>1
      <4> QED BY <4>1, <4>2, <4>3, <2>2
    <3> QED BY <3>1, <3>2
  <2>4. Fits(H, n + 1) BY <2>3
  <2>5. n + 1 \in Nat OBVIOUS
  <2> HIDE DEF H
  <2>6. \E F : Fits(F, n + 1) BY <2>4, Zenon
  <2> QED BY <2>5, <2>6, Zenon
<1>3. S \in SUBSET Nat OBVIOUS
<1> HIDE DEF S
<1>4. last \in S BY <1>1, <1>2, <1>3, Climb
<1> DEFINE Go == CHOOSE G : Fits(G, last)
<1>5. Fits(Go, last) BY <1>4 DEF S
<1>6. Drained(log, P) = {[log |-> d.log, orphans |-> d.orphans] : d \in Go[last]} BY DEF Drained
<1> HIDE DEF Go
<1>7. Go[0] = First BY <1>5
<1>8. \A k \in 1..last : Go[k] = UNION {DrainStep(d) : d \in Go[k - 1]}
  <2> TAKE k \in 1..last
  <2>1. k \in 0..last /\ k # 0 OBVIOUS
  <2> HIDE DEF last
  <2>2. Go[k] = IF k = 0 THEN First ELSE UNION {DrainStep(d) : d \in Go[k - 1]} BY <1>5, <2>1
  <2> QED BY <2>1, <2>2
<1>9. Drains(Go, log, P) BY <1>6, <1>7, <1>8 DEF Drains
<1> QED BY <1>9

\* What a drain leaves: nothing ready in the buffer, and what left it has its
\* past in the log.
LEMMA DrainedFacts ==
  ASSUME NEW log \in Seq(DOMAIN changes), NEW P \in SUBSET DOMAIN changes, IsFiniteSet(P),
         PastFirst(changes, log), P \cap Elements(log) = {}, NEW e \in Drained(log, P)
  PROVE  /\ e.log \in Seq(DOMAIN changes) /\ PastFirst(changes, e.log)
         /\ Elements(log) \subseteq Elements(e.log)
         /\ e.orphans \subseteq P /\ e.orphans \cap Elements(e.log) = {}
         /\ P \ e.orphans \subseteq Ready(Elements(e.log), P)
         /\ Ready(Elements(e.log), e.orphans) = {}
<1> DEFINE last == 2 * Cardinality(P)
<1>1. Cardinality(P) \in Nat /\ last \in Nat
  BY FS_CardinalityType
<1>2. PICK G : Drains(G, log, P)
  BY <1>1, DrainSteps
<1> DEFINE S == {k \in Nat : k <= last => \A d \in G[k] : Draining(k, d, log, P)}
<1>3. 0 \in S
  BY <1>2, DrainStarts DEF Drains
<1>4. ASSUME NEW k \in S PROVE k + 1 \in S
  <2> SUFFICES ASSUME k + 1 <= last, NEW d \in G[k + 1] PROVE Draining(k + 1, d, log, P)
    OBVIOUS
  <2>1. k + 1 \in 1..last /\ k <= last /\ (k + 1) - 1 = k
    BY <1>1
  <2>2. PICK f \in G[k] : d \in DrainStep(f)
    BY <1>2, <2>1 DEF Drains
  <2>3. Draining(k, f, log, P)
    BY <2>1
  <2> QED BY <2>2, <2>3, DrainStepKeeps
<1>5. \A k \in Nat : k \in S
  <2>1. S \in SUBSET Nat
    OBVIOUS
  <2> HIDE DEF S
  <2> QED BY <1>3, <1>4, <2>1, Climb
<1>6. PICK d \in G[last] : e = [log |-> d.log, orphans |-> d.orphans]
  BY <1>2 DEF Drains
<1>7. Draining(last, d, log, P)
  BY <1>1, <1>5, <1>6
<1>8. Ready(Elements(d.log), d.orphans) = {}
  <2>1. CASE d.batch = {} /\ Ready(Elements(d.log), d.orphans) = {}
    BY <2>1
  <2>2. CASE 2 * Cardinality(d.orphans) + last <= last + (IF d.batch = {} THEN 0 ELSE 1)
    <3>1. IsFiniteSet(d.orphans) /\ Cardinality(d.orphans) \in Nat
      BY <1>7, FS_Subset, FS_CardinalityType DEF Draining
    <3>2. Cardinality(d.orphans) = 0
      BY <1>1, <2>2, <3>1
    <3>3. d.orphans = {}
      BY <3>1, <3>2, FS_EmptySet
    <3> QED BY <3>3 DEF Ready
  <2> QED BY <1>7, <2>1, <2>2 DEF Draining
<1> QED BY <1>6, <1>7, <1>8 DEF Draining

-----------------------------------------------------------------------------
(* Documents: the inductive invariant *)

\* What one member holds, buffers and has seen.
Accounted(chs, l, P, s) ==
  /\ l \in Seq(DOMAIN chs) /\ PastFirst(chs, l)
  /\ P \subseteq DOMAIN chs /\ P \cap Elements(l) = {} /\ IsFiniteSet(P)
  /\ Cardinality(P) <= PendingTotalMax
  /\ \A c \in P : ~(chs[c].deps \subseteq Elements(l))
  /\ s \subseteq DOMAIN chs
  /\ \A c \in s : c \in Elements(l) \cup P \/ chs[c].deps \subseteq Elements(l)

MadeBy(S, a) == {c \in S : Author(c) = a}

\* The changes of m's own in its document, which number the next one.
Own(m) == MadeBy(Elements(applied[m]), m)

\* Changes depend on changes made before, and are numbered by what their author
\* holds.
ChangesMade ==
  \A c \in DOMAIN changes :
    /\ Author(c) \in Members /\ SeqNo(c) \in Nat
    /\ SeqNo(c) <= Cardinality(Own(Author(c)))
    /\ changes[c].deps \subseteq DOMAIN changes

DocInv ==
  /\ ChangesMade
  /\ DOMAIN applied = Members /\ DOMAIN pending = Members /\ DOMAIN seen = Members
  /\ DOMAIN frames = Members /\ DOMAIN served = Members
  /\ \A m \in Members : /\ Accounted(changes, applied[m], pending[m], seen[m])
                         /\ frames[m] \subseteq DOMAIN changes
                         /\ served[m] \in [Others(m) -> 0..ServesPerWindow]

LEMMA DocInvSuffices == DocInv => SeenIsAccountedFor
<1> SUFFICES ASSUME DocInv PROVE SeenIsAccountedFor
  OBVIOUS
<1>1. \A c \in DOMAIN changes : Author(c) \in Members /\ SeqNo(c) \in Nat
  BY DEF DocInv, ChangesMade
<1>2. ASSUME NEW m \in Members
      PROVE  /\ Elements(applied[m]) \subseteq DOMAIN changes
             /\ pending[m] \subseteq DOMAIN changes \ Elements(applied[m])
             /\ Cardinality(pending[m]) <= PendingTotalMax
             /\ Ready(Elements(applied[m]), pending[m]) = {}
             /\ \A c \in seen[m] : \/ c \in Elements(applied[m]) \cup pending[m]
                                    \/ changes[c].deps \subseteq Elements(applied[m])
             /\ \A i \in 1..Len(applied[m]) :
                  changes[applied[m][i]].deps \subseteq Elements(SubSeq(applied[m], 1, i - 1))
             /\ \A a \in Others(m) : served[m][a] \in 0..ServesPerWindow
  <2>1. Accounted(changes, applied[m], pending[m], seen[m])
    BY DEF DocInv
  <2>2. served[m] \in [Others(m) -> 0..ServesPerWindow]
    BY DEF DocInv
  <2>3. Elements(applied[m]) \subseteq DOMAIN changes
    BY <2>1, ElementsTyped DEF Accounted
  <2> QED BY <2>1, <2>2, <2>3 DEF Accounted, Ready, PastFirst
<1> QED BY <1>1, <1>2, Zenon DEF SeenIsAccountedFor

LEMMA DocInitHolds == DocInit => DocInv
<1> SUFFICES ASSUME DocInit PROVE DocInv
  OBVIOUS
<1>1. DOMAIN changes = {}
  BY DEF DocInit
<1>2. ASSUME NEW m \in Members
      PROVE  /\ Accounted(changes, applied[m], pending[m], seen[m])
             /\ frames[m] \subseteq DOMAIN changes
             /\ served[m] \in [Others(m) -> 0..ServesPerWindow]
  <2>1. applied[m] = <<>> /\ pending[m] = {} /\ seen[m] = {} /\ frames[m] = {}
    BY DEF DocInit
  <2>2. IsFiniteSet({}) /\ Cardinality({}) = 0 /\ 0 <= PendingTotalMax
    BY FS_EmptySet, MeshDocAssumption
  <2>3. <<>> \in Seq(DOMAIN changes) /\ PastFirst(changes, <<>>)
    BY DEF PastFirst
  <2>4. served[m] \in [Others(m) -> 0..ServesPerWindow]
    BY MeshDocAssumption DEF DocInit
  <2> QED BY <2>1, <2>2, <2>3, <2>4 DEF Accounted
<1>3. ChangesMade
  BY <1>1 DEF ChangesMade
<1>4. /\ DOMAIN applied = Members /\ DOMAIN pending = Members /\ DOMAIN seen = Members
      /\ DOMAIN frames = Members /\ DOMAIN served = Members
  BY DEF DocInit
<1> QED BY <1>2, <1>3, <1>4 DEF DocInv

-----------------------------------------------------------------------------
(* Documents: a change arrives *)

\* Buffering keeps what was buffered or drops it and forgets its frame.
LEMMA BufferedFacts ==
  ASSUME NEW P, NEW c, IsFiniteSet(P), Cardinality(P) <= PendingTotalMax
  PROVE  /\ Buffered(P, c).orphans \subseteq P \cup {c}
         /\ (P \cup {c}) \ Buffered(P, c).dropped \subseteq Buffered(P, c).orphans
         /\ IsFiniteSet(Buffered(P, c).orphans)
         /\ Cardinality(Buffered(P, c).orphans) <= PendingTotalMax
<1> DEFINE mine == {d \in P : Author(d) = Author(c)}
           full == Cardinality(mine) >= PendingAuthorMax
           Q == IF full THEN P \ {Victim(mine)} ELSE P
           R == Buffered(P, c)
<1>1. Q \subseteq P /\ PendingTotalMax \in Nat
  BY MeshDocAssumption
<1>2. \/ c \in P /\ R = [orphans |-> P, dropped |-> {}]
      \/ R = [orphans |-> P, dropped |-> {c}]
      \/ R = [orphans |-> Q, dropped |-> (P \ Q) \cup {c}]
      \/ ~(Cardinality(Q) >= PendingTotalMax) /\ R = [orphans |-> Q \cup {c}, dropped |-> P \ Q]
  BY DEF Buffered
<1> HIDE DEF Q, R
<1>3. IsFiniteSet(Q) /\ Cardinality(Q) <= Cardinality(P) /\ Cardinality(Q) \in Nat /\ Cardinality(P) \in Nat
  BY <1>1, FS_Subset, FS_CardinalityType
<1>4. IsFiniteSet(Q \cup {c}) /\ Cardinality(Q \cup {c}) <= Cardinality(Q) + 1 /\ Cardinality(Q \cup {c}) \in Nat
  <2>1. /\ IsFiniteSet(Q \cup {c})
        /\ Cardinality(Q \cup {c}) = IF c \in Q THEN Cardinality(Q) ELSE Cardinality(Q) + 1
    BY <1>3, FS_AddElement, Zenon
  <2> QED BY <1>3, <2>1
<1>5. /\ R.orphans \subseteq P \cup {c} /\ (P \cup {c}) \ R.dropped \subseteq R.orphans
      /\ IsFiniteSet(R.orphans) /\ Cardinality(R.orphans) <= PendingTotalMax
  <2>1. CASE c \in P /\ R = [orphans |-> P, dropped |-> {}]
    BY <2>1
  <2>2. CASE R = [orphans |-> P, dropped |-> {c}]
    BY <2>2
  <2>3. CASE R = [orphans |-> Q, dropped |-> (P \ Q) \cup {c}]
    BY <1>1, <1>3, <2>3
  <2>4. CASE ~(Cardinality(Q) >= PendingTotalMax) /\ R = [orphans |-> Q \cup {c}, dropped |-> P \ Q]
    <3>1. Cardinality(Q \cup {c}) <= PendingTotalMax
      BY <1>1, <1>3, <1>4, <2>4
    <3> QED BY <1>1, <1>4, <2>4, <3>1
  <2> QED BY <1>2, <2>1, <2>2, <2>3, <2>4
<1> QED BY <1>5 DEF R

\* A change reaches the document of m: what m holds, buffers and has seen
\* still hangs together, and m loses no change it held.
LEMMA IngestKeeps ==
  ASSUME DocInv, NEW m \in Members, NEW c \in DOMAIN changes, Ingest(m, c)
  PROVE  /\ Accounted(changes, applied'[m], pending'[m], seen'[m])
         /\ Elements(applied[m]) \subseteq Elements(applied'[m])
         /\ DOMAIN applied' = Members /\ DOMAIN pending' = Members /\ DOMAIN seen' = Members
         /\ \A n \in Members \ {m} :
              applied'[n] = applied[n] /\ pending'[n] = pending[n] /\ seen'[n] = seen[n]
<1> DEFINE l == applied[m]
           P == pending[m]
           s == seen[m]
           S == Elements(l)
<1>1. /\ Accounted(changes, l, P, s)
      /\ DOMAIN applied = Members /\ DOMAIN pending = Members /\ DOMAIN seen = Members
  BY DEF DocInv
<1>2. CASE /\ c \in S \/ (changes[c].deps \subseteq S /\ Forges(changes, S, c))
           /\ seen' = [seen EXCEPT ![m] = @ \cup {c}]
           /\ UNCHANGED <<applied, pending>>
  <2>1. applied' = applied /\ pending' = pending /\ seen'[m] = s \cup {c}
    BY <1>1, <1>2
  <2>2. Accounted(changes, l, P, s \cup {c})
    BY <1>1, <1>2 DEF Accounted
  <2> QED BY <1>1, <1>2, <2>1, <2>2
<1>3. CASE /\ c \notin S /\ ~(changes[c].deps \subseteq S)
           /\ pending' = [pending EXCEPT ![m] = Buffered(P, c).orphans]
           /\ seen' = [seen EXCEPT ![m] = SeenAfter(m, c, Buffered(P, c).dropped)]
           /\ UNCHANGED applied
  <2> DEFINE O == Buffered(P, c).orphans
             D == Buffered(P, c).dropped
  <2>1. /\ O \subseteq P \cup {c} /\ (P \cup {c}) \ D \subseteq O
        /\ IsFiniteSet(O) /\ Cardinality(O) <= PendingTotalMax
    BY <1>1, BufferedFacts DEF Accounted
  <2>2. applied' = applied /\ pending'[m] = O /\ seen'[m] = (s \cup {c}) \ D
    BY <1>1, <1>3 DEF SeenAfter
  <2> HIDE DEF O, D
  <2>3. Accounted(changes, l, O, (s \cup {c}) \ D)
    BY <1>1, <1>3, <2>1 DEF Accounted
  <2> QED BY <1>1, <1>3, <2>2, <2>3
<1>4. ASSUME c \notin S, changes[c].deps \subseteq S,
             NEW d \in Drained(Append(l, c), P),
             applied' = [applied EXCEPT ![m] = d.log],
             pending' = [pending EXCEPT ![m] = d.orphans],
             seen' = [seen EXCEPT ![m] = SeenAfter(m, c, {})]
      PROVE  /\ Accounted(changes, applied'[m], pending'[m], seen'[m])
             /\ Elements(applied[m]) \subseteq Elements(applied'[m])
             /\ DOMAIN applied' = Members /\ DOMAIN pending' = Members /\ DOMAIN seen' = Members
             /\ \A n \in Members \ {m} :
                  applied'[n] = applied[n] /\ pending'[n] = pending[n] /\ seen'[n] = seen[n]
  <2>1. /\ Append(l, c) \in Seq(DOMAIN changes)
        /\ Elements(Append(l, c)) = S \cup {c}
        /\ PastFirst(changes, Append(l, c))
    BY <1>1, <1>4, LogGrows, PastStaysFirst DEF Accounted
  <2>2. /\ P \in SUBSET DOMAIN changes /\ IsFiniteSet(P)
        /\ P \cap Elements(Append(l, c)) = {}
    BY <1>1, <1>4, <2>1 DEF Accounted
  <2>3. /\ d.log \in Seq(DOMAIN changes) /\ PastFirst(changes, d.log)
        /\ S \cup {c} \subseteq Elements(d.log)
        /\ d.orphans \subseteq P /\ d.orphans \cap Elements(d.log) = {}
        /\ P \ d.orphans \subseteq Ready(Elements(d.log), P)
        /\ Ready(Elements(d.log), d.orphans) = {}
    BY <1>4, <2>1, <2>2, DrainedFacts
  <2>4. IsFiniteSet(d.orphans) /\ Cardinality(d.orphans) <= PendingTotalMax
    <3>1. IsFiniteSet(d.orphans) /\ Cardinality(d.orphans) <= Cardinality(P)
      BY <2>2, <2>3, FS_Subset
    <3>2. Cardinality(d.orphans) \in Nat /\ Cardinality(P) \in Nat
      BY <2>2, <3>1, FS_CardinalityType
    <3> QED BY <1>1, <3>1, <3>2, MeshDocAssumption DEF Accounted
  <2>5. applied'[m] = d.log /\ pending'[m] = d.orphans /\ seen'[m] = s \cup {c}
    BY <1>1, <1>4 DEF SeenAfter
  <2>6. Accounted(changes, d.log, d.orphans, s \cup {c})
    <3>1. ASSUME NEW x \in s \cup {c}
          PROVE  x \in Elements(d.log) \cup d.orphans \/ changes[x].deps \subseteq Elements(d.log)
      BY <1>1, <2>3, <3>1 DEF Accounted, Ready
    <3>2. \A x \in d.orphans : ~(changes[x].deps \subseteq Elements(d.log))
      BY <2>3 DEF Ready
    <3> QED BY <1>1, <2>2, <2>3, <2>4, <3>1, <3>2 DEF Accounted
  <2> QED BY <1>1, <1>4, <2>3, <2>5, <2>6
<1> QED BY <1>2, <1>3, <1>4 DEF Ingest

-----------------------------------------------------------------------------
(* Documents: what every step keeps *)

\* A document that has grown holds no fewer changes of an author.
LEMMA OwnGrows ==
  ASSUME NEW S, NEW k \in Seq(S), NEW l \in Seq(S), Elements(k) \subseteq Elements(l), NEW a
  PROVE  /\ Cardinality(MadeBy(Elements(k), a)) \in Nat
         /\ Cardinality(MadeBy(Elements(l), a)) \in Nat
         /\ Cardinality(MadeBy(Elements(k), a)) <= Cardinality(MadeBy(Elements(l), a))
<1> DEFINE before == MadeBy(Elements(k), a)
           after == MadeBy(Elements(l), a)
<1>1. before \in SUBSET after /\ after \in SUBSET Elements(l)
  BY DEF MadeBy
<1>2. IsFiniteSet(Elements(l))
  BY ElementsFinite
<1> HIDE DEF before, after
<1>3. IsFiniteSet(after)
  BY <1>1, <1>2, FS_Subset
<1>4. IsFiniteSet(before) /\ Cardinality(before) <= Cardinality(after)
  BY <1>1, <1>3, FS_Subset
<1>5. Cardinality(before) \in Nat /\ Cardinality(after) \in Nat
  BY <1>3, <1>4, FS_CardinalityType
<1> QED BY <1>4, <1>5 DEF before, after

\* While no change is made and documents only grow, changes stay numbered.
LEMMA NumbersStay ==
  ASSUME DocInv, UNCHANGED changes,
         \A m \in Members : /\ applied'[m] \in Seq(DOMAIN changes)
                            /\ Elements(applied[m]) \subseteq Elements(applied'[m])
  PROVE  ChangesMade'
<1> SUFFICES ASSUME NEW c \in DOMAIN changes
             PROVE  /\ Author(c) \in Members /\ SeqNo(c) \in Nat
                    /\ SeqNo(c) <= Cardinality(Own(Author(c))')
                    /\ changes[c].deps \subseteq DOMAIN changes
  BY DEF ChangesMade
<1> DEFINE a == Author(c)
<1>1. /\ a \in Members /\ SeqNo(c) \in Nat /\ SeqNo(c) <= Cardinality(Own(a))
      /\ changes[c].deps \subseteq DOMAIN changes
  BY DEF DocInv, ChangesMade
<1> HIDE DEF a
<1>2. applied[a] \in Seq(DOMAIN changes)
  BY <1>1 DEF DocInv, Accounted
<1>3. /\ applied'[a] \in Seq(DOMAIN changes)
      /\ Elements(applied[a]) \subseteq Elements(applied'[a])
  BY <1>1
<1>4. /\ Cardinality(MadeBy(Elements(applied[a]), a)) \in Nat
      /\ Cardinality(MadeBy(Elements(applied'[a]), a)) \in Nat
      /\ Cardinality(MadeBy(Elements(applied[a]), a)) <= Cardinality(MadeBy(Elements(applied'[a]), a))
  BY <1>2, <1>3, OwnGrows
<1>5. Own(a) = MadeBy(Elements(applied[a]), a) /\ Own(a)' = MadeBy(Elements(applied'[a]), a)
  BY DEF Own
<1>6. SeqNo(c) <= Cardinality(Own(a)')
  BY <1>1, <1>4, <1>5
<1> QED BY <1>1, <1>6 DEF a

LEMMA ReceiveKeeps ==
  ASSUME DocInv, NEW m \in Members, NEW c \in frames[m], Receive(m, c)
  PROVE  DocInv'
<1>1. /\ UNCHANGED <<changes, served>> /\ frames' = [frames EXCEPT ![m] = @ \ {c}]
      /\ c \in DOMAIN changes
  BY DEF Receive, DocInv
<1>2. \A n \in Members : frames'[n] \subseteq DOMAIN changes
  BY <1>1 DEF DocInv
<1>3. /\ DOMAIN applied' = Members /\ DOMAIN pending' = Members /\ DOMAIN seen' = Members
      /\ \A n \in Members : /\ Accounted(changes, applied'[n], pending'[n], seen'[n])
                             /\ Elements(applied[n]) \subseteq Elements(applied'[n])
  <2>1. CASE UNCHANGED <<applied, pending, seen>>
    BY <2>1 DEF DocInv
  <2>2. CASE Ingest(m, c)
    <3>1. /\ Accounted(changes, applied'[m], pending'[m], seen'[m])
          /\ Elements(applied[m]) \subseteq Elements(applied'[m])
          /\ DOMAIN applied' = Members /\ DOMAIN pending' = Members /\ DOMAIN seen' = Members
          /\ \A n \in Members \ {m} :
               applied'[n] = applied[n] /\ pending'[n] = pending[n] /\ seen'[n] = seen[n]
      BY <1>1, <2>2, IngestKeeps
    <3>2. \A n \in Members : Accounted(changes, applied[n], pending[n], seen[n])
      BY DEF DocInv
    <3> QED BY <3>1, <3>2
  <2> QED BY <2>1, <2>2 DEF Receive
<1>4. \A n \in Members : applied'[n] \in Seq(DOMAIN changes)
  BY <1>3 DEF Accounted
<1>5. ChangesMade'
  BY <1>1, <1>3, <1>4, NumbersStay
<1>6. DOMAIN frames' = Members /\ DOMAIN served' = Members
  BY <1>1 DEF DocInv
<1>7. \A n \in Members : served'[n] \in [Others(n) -> 0..ServesPerWindow]
  BY <1>1 DEF DocInv
<1>8. \A n \in Members : Accounted(changes, applied[n], pending[n], seen[n])'
  BY <1>1, <1>3
<1> QED BY <1>1, <1>2, <1>3, <1>5, <1>6, <1>7, <1>8 DEF DocInv

\* What a member has stays accounted for when more changes are made.
LEMMA AccountedLater ==
  ASSUME NEW l, NEW P, NEW s, Accounted(changes, l, P, s), NEW chs,
         \A x \in DOMAIN changes : x \in DOMAIN chs /\ chs[x] = changes[x]
  PROVE  Accounted(chs, l, P, s)
<1>1. l \in Seq(DOMAIN changes) /\ Elements(l) \subseteq DOMAIN changes
  BY ElementsTyped DEF Accounted
<1>2. \A i \in 1..Len(l) : l[i] \in DOMAIN changes
  BY <1>1, ElementOfSeq
<1>3. l \in Seq(DOMAIN chs)
  BY <1>1, DOMAIN changes \subseteq DOMAIN chs
<1>4. PastFirst(chs, l)
  BY <1>2 DEF Accounted, PastFirst
<1> QED BY <1>3, <1>4 DEF Accounted

\* A member applies a change of its own, which nothing it buffers waits for.
LEMMA AccountedOwn ==
  ASSUME NEW chs, NEW l, NEW P, NEW s, Accounted(chs, l, P, s), NEW id \in DOMAIN chs,
         chs[id].deps \subseteq Elements(l), id \notin P, \A c \in P : id \notin chs[c].deps
  PROVE  Accounted(chs, Append(l, id), P, s) /\ Elements(Append(l, id)) = Elements(l) \cup {id}
<1>1. l \in Seq(DOMAIN chs) /\ PastFirst(chs, l)
  BY DEF Accounted
<1>2. /\ Append(l, id) \in Seq(DOMAIN chs) /\ PastFirst(chs, Append(l, id))
      /\ Elements(Append(l, id)) = Elements(l) \cup {id}
  BY <1>1, LogGrows, PastStaysFirst
<1> QED BY <1>2 DEF Accounted

\* The id of a new change is new: its author holds as many of its own as the
\* greatest it gave.
LEMMA NewIdIsNew ==
  ASSUME DocInv, NEW m \in Members, NEW t
  PROVE  LET c == NewChange(m, t)
         IN  /\ Author(c.id) = m /\ SeqNo(c.id) = Cardinality(Own(m)) + 1
             /\ Cardinality(Own(m)) \in Nat
             /\ c.id \notin DOMAIN changes
             /\ c.deps \subseteq Elements(applied[m])
<1> DEFINE c == NewChange(m, t)
<1>1. c.id = <<m, Cardinality(Own(m)) + 1>> /\ c.deps = Heads(Elements(applied[m]))
  BY DEF NewChange, Own, MadeBy
<1>2. applied[m] \in Seq(DOMAIN changes)
  BY DEF DocInv, Accounted
<1>3. Cardinality(Own(m)) \in Nat
  BY <1>2, OwnGrows DEF Own
<1> HIDE DEF c
<1>4. Author(c.id) = m /\ SeqNo(c.id) = Cardinality(Own(m)) + 1
  BY <1>1 DEF Author, SeqNo
<1>5. c.id \notin DOMAIN changes
  <2> SUFFICES ASSUME c.id \in DOMAIN changes PROVE FALSE
    OBVIOUS
  <2>1. SeqNo(c.id) <= Cardinality(Own(Author(c.id)))
    BY DEF DocInv, ChangesMade
  <2> QED BY <1>3, <1>4, <2>1
<1>6. c.deps \subseteq Elements(applied[m])
  BY <1>1 DEF Heads
<1> QED BY <1>3, <1>4, <1>5, <1>6 DEF c

LEMMA WriteEntryKeeps ==
  ASSUME DocInv, NEW m \in Members, NEW t, WriteEntry(m, t)
  PROVE  DocInv'
<1> DEFINE c == NewChange(m, t)
           id == c.id
           l == applied[m]
<1>1. /\ Author(id) = m /\ SeqNo(id) = Cardinality(Own(m)) + 1 /\ Cardinality(Own(m)) \in Nat
      /\ id \notin DOMAIN changes /\ c.deps \subseteq Elements(l)
  BY NewIdIsNew
<1>2. /\ changes' = [x \in DOMAIN changes \cup {id} |->
                      IF x = id THEN [target |-> t, deps |-> c.deps, op |-> c.op, object |-> c.object]
                      ELSE changes[x]]
      /\ applied' = [applied EXCEPT ![m] = Append(@, id)]
      /\ frames' = [n \in Members |-> IF n = m THEN frames[n] ELSE frames[n] \cup {id}]
      /\ UNCHANGED <<pending, seen, digests, served>>
  BY DEF WriteEntry
<1> HIDE DEF c, id
<1>3. /\ DOMAIN changes' = DOMAIN changes \cup {id} /\ changes'[id].deps = c.deps
      /\ \A x \in DOMAIN changes : x \in DOMAIN changes' /\ changes'[x] = changes[x]
  BY <1>1, <1>2
<1>4. /\ DOMAIN applied = Members /\ DOMAIN pending = Members /\ DOMAIN seen = Members
      /\ DOMAIN frames = Members /\ DOMAIN served = Members
      /\ \A n \in Members : frames[n] \subseteq DOMAIN changes
      /\ \A n \in Members : served[n] \in [Others(n) -> 0..ServesPerWindow]
  BY DEF DocInv
<1>5. /\ \A n \in Members : Accounted(changes, applied[n], pending[n], seen[n])
      /\ \A x \in DOMAIN changes : changes[x].deps \subseteq DOMAIN changes
  BY DEF DocInv, ChangesMade
<1>6. \A n \in Members : Accounted(changes', applied[n], pending[n], seen[n])
  BY <1>3, <1>5, AccountedLater
<1>7. Accounted(changes', Append(l, id), pending[m], seen[m]) /\ Elements(Append(l, id)) = Elements(l) \cup {id}
  <2>1. /\ Accounted(changes', l, pending[m], seen[m])
        /\ id \in DOMAIN changes' /\ changes'[id].deps \subseteq Elements(l)
    BY <1>1, <1>3, <1>6
  <2>2. pending[m] \subseteq DOMAIN changes
    BY <1>5 DEF Accounted
  <2>3. id \notin pending[m] /\ \A x \in pending[m] : id \notin changes'[x].deps
    BY <1>1, <1>3, <1>5, <2>2
  <2> QED BY <2>1, <2>3, AccountedOwn
<1>8. /\ applied'[m] = Append(l, id)
      /\ \A n \in Members \ {m} : applied'[n] = applied[n]
      /\ pending' = pending /\ seen' = seen /\ served' = served
      /\ DOMAIN applied' = Members /\ DOMAIN frames' = Members
  BY <1>2, <1>4
<1>9. \A n \in Members : Accounted(changes', applied'[n], pending'[n], seen'[n])
  BY <1>6, <1>7, <1>8
<1>10. \A n \in Members : frames'[n] \subseteq DOMAIN changes'
  BY <1>2, <1>3, <1>4
<1>11. ChangesMade'
  <2>1. Own(m)' = Own(m) \cup {id} /\ \A n \in Members \ {m} : Own(n)' = Own(n)
    BY <1>1, <1>7, <1>8 DEF Own, MadeBy
  <2>2. id \notin Own(m) /\ IsFiniteSet(Own(m))
    <3>1. l \in Seq(DOMAIN changes)
      BY <1>5 DEF Accounted
    <3>2. IsFiniteSet(Elements(l)) /\ Elements(l) \subseteq DOMAIN changes
      BY <3>1, ElementsFinite, ElementsTyped
    <3>3. Own(m) \subseteq Elements(l)
      BY DEF Own, MadeBy
    <3> QED BY <1>1, <3>2, <3>3, FS_Subset
  <2>3. Cardinality(Own(m)') = Cardinality(Own(m)) + 1
    BY <2>1, <2>2, FS_AddElement
  <2>4. Elements(l) \subseteq DOMAIN changes
    BY <1>5, ElementsTyped DEF Accounted
  <2>5. ASSUME NEW x \in DOMAIN changes'
        PROVE  /\ Author(x) \in Members /\ SeqNo(x) \in Nat
               /\ SeqNo(x) <= Cardinality(Own(Author(x))')
               /\ changes'[x].deps \subseteq DOMAIN changes'
    <3>1. CASE x = id
      BY <1>1, <1>3, <2>3, <2>4, <3>1
    <3>2. CASE x # id
      <4>1. /\ Author(x) \in Members /\ SeqNo(x) \in Nat
            /\ SeqNo(x) <= Cardinality(Own(Author(x)))
            /\ changes'[x].deps \subseteq DOMAIN changes'
        BY <1>3, <3>2 DEF DocInv, ChangesMade
      <4>2. CASE Author(x) = m
        BY <1>1, <2>3, <4>1, <4>2
      <4>3. CASE Author(x) # m
        BY <2>1, <4>1, <4>3
      <4> QED BY <4>1, <4>2, <4>3
    <3> QED BY <3>1, <3>2
  <2> QED BY <2>5 DEF ChangesMade
<1> QED BY <1>4, <1>8, <1>9, <1>10, <1>11 DEF DocInv

\* Steps that move frames and count answers and leave the documents alone.
LEMMA TrafficKeeps ==
  ASSUME DocInv, UNCHANGED <<changes, applied, pending, seen>>,
         DOMAIN frames' = Members, \A n \in Members : frames'[n] \subseteq DOMAIN changes,
         DOMAIN served' = Members,
         \A n \in Members : served'[n] \in [Others(n) -> 0..ServesPerWindow]
  PROVE  DocInv'
<1>1. ChangesMade'
  BY DEF DocInv, ChangesMade, Own
<1>2. /\ DOMAIN applied = Members /\ DOMAIN pending = Members /\ DOMAIN seen = Members
      /\ \A n \in Members : Accounted(changes, applied[n], pending[n], seen[n])
  BY DEF DocInv
<1>3. /\ DOMAIN applied' = Members /\ DOMAIN pending' = Members /\ DOMAIN seen' = Members
      /\ \A n \in Members : Accounted(changes', applied'[n], pending'[n], seen'[n])
  BY <1>2
<1> QED BY <1>1, <1>3 DEF DocInv

LEMMA HandleDigestKeeps ==
  ASSUME DocInv, NEW m \in Members, NEW d \in digests, HandleDigest(m, d)
  PROVE  DocInv'
<1> DEFINE todo == Missing(m, d)
           answers == ~d.closing /\ todo # {} /\ served[m][d.from] < ServesPerWindow
           unicast == <<m, d.from>> \in Linked
<1>1. /\ frames' = [n \in Members |->
                      IF answers /\ (n = d.from \/ (~unicast /\ n # m)) THEN frames[n] \cup todo ELSE frames[n]]
      /\ served' = IF answers THEN [served EXCEPT ![m][d.from] = @ + 1] ELSE served
      /\ UNCHANGED <<changes, applied, pending, seen>>
  BY DEF HandleDigest
<1>2. todo \subseteq DOMAIN changes
  <2>1. applied[m] \in Seq(DOMAIN changes)
    BY DEF DocInv, Accounted
  <2>2. \A i \in 1..Len(applied[m]) : applied[m][i] \in DOMAIN changes
    BY <2>1, ElementOfSeq
  <2>3. Wanted(m, d) \subseteq 1..Len(applied[m])
    BY DEF Wanted
  <2> QED BY <2>2, <2>3 DEF Missing
<1>3. /\ DOMAIN served = Members /\ \A n \in Members : frames[n] \subseteq DOMAIN changes
      /\ \A n \in Members : served[n] \in [Others(n) -> 0..ServesPerWindow]
  BY DEF DocInv
<1> HIDE DEF todo
<1>4. DOMAIN frames' = Members /\ \A n \in Members : frames'[n] \subseteq DOMAIN changes
  BY <1>1, <1>2, <1>3
<1>5. DOMAIN served' = Members /\ \A n \in Members : served'[n] \in [Others(n) -> 0..ServesPerWindow]
  <2>1. CASE ~answers
    BY <1>1, <1>3, <2>1
  <2>2. CASE answers
    <3>1. served' = [served EXCEPT ![m] = [served[m] EXCEPT ![d.from] = served[m][d.from] + 1]]
      BY <1>1, <2>2
    <3>2. DOMAIN served' = Members /\ \A n \in Members \ {m} : served'[n] = served[n]
      BY <1>3, <3>1
    <3>3. served'[m] = [served[m] EXCEPT ![d.from] = served[m][d.from] + 1]
      BY <1>3, <3>1
    <3>4. ServesPerWindow \in Nat /\ served[m] \in [Others(m) -> 0..ServesPerWindow]
      BY <1>3, MeshDocAssumption
    <3>5. d.from \in Others(m) => served[m][d.from] + 1 \in 0..ServesPerWindow
      BY <2>2, <3>4
    <3>6. served'[m] \in [Others(m) -> 0..ServesPerWindow]
      BY <3>3, <3>4, <3>5
    <3> QED BY <1>3, <3>2, <3>6
  <2> QED BY <2>1, <2>2
<1> QED BY <1>1, <1>4, <1>5, TrafficKeeps

LEMMA DocNextKeeps == DocInv /\ [DocNext]_docvars => DocInv'
<1> SUFFICES ASSUME DocInv, [DocNext]_docvars PROVE DocInv'
  OBVIOUS
<1>0. /\ DOMAIN frames = Members /\ DOMAIN served = Members
      /\ \A n \in Members : frames[n] \subseteq DOMAIN changes
      /\ \A n \in Members : served[n] \in [Others(n) -> 0..ServesPerWindow]
  BY DEF DocInv
<1>1. ASSUME NEW m \in Members, NEW t \in WritesTo(m), WriteEntry(m, t) PROVE DocInv'
  BY <1>1, WriteEntryKeeps
<1>2. ASSUME NEW m \in Members, NEW c \in frames[m], Receive(m, c) PROVE DocInv'
  BY <1>2, ReceiveKeeps
<1>3. ASSUME NEW m \in Members, NEW c \in frames[m], LoseFrame(m, c) PROVE DocInv'
  <2>1. /\ UNCHANGED <<changes, applied, pending, seen, served>>
        /\ frames' = [frames EXCEPT ![m] = @ \ {c}]
    BY <1>3 DEF LoseFrame
  <2>2. DOMAIN frames' = Members /\ \A n \in Members : frames'[n] \subseteq DOMAIN changes
    BY <1>0, <2>1
  <2> QED BY <1>0, <2>1, <2>2, TrafficKeeps
<1>4. ASSUME NEW m \in Members, BroadcastDigest(m) PROVE DocInv'
  BY <1>0, <1>4, TrafficKeeps DEF BroadcastDigest
<1>5. ASSUME NEW m \in Members, NEW d \in digests, HandleDigest(m, d) PROVE DocInv'
  BY <1>5, HandleDigestKeeps
<1>6. ASSUME NEW m \in Members, NEW a \in Others(m), WindowEnds(m, a) PROVE DocInv'
  <2>1. /\ UNCHANGED <<changes, applied, pending, seen, frames>>
        /\ served' = [served EXCEPT ![m] = [served[m] EXCEPT ![a] = 0]]
    BY <1>6 DEF WindowEnds
  <2>2. 0 \in 0..ServesPerWindow
    BY MeshDocAssumption
  <2>3. [served[m] EXCEPT ![a] = 0] \in [Others(m) -> 0..ServesPerWindow]
    BY <1>0, <2>2
  <2>4. DOMAIN served' = Members /\ \A n \in Members : served'[n] \in [Others(n) -> 0..ServesPerWindow]
    BY <1>0, <2>1, <2>3
  <2> QED BY <1>0, <2>1, <2>4, TrafficKeeps
<1>7. ASSUME NEW d \in digests, LoseDigest(d) PROVE DocInv'
  BY <1>0, <1>7, TrafficKeeps DEF LoseDigest
<1>8. CASE UNCHANGED docvars
  BY <1>0, <1>8, TrafficKeeps DEF docvars
<1> QED BY <1>1, <1>2, <1>3, <1>4, <1>5, <1>6, <1>7, <1>8, Zenon DEF DocNext

\* Every change a member has seen is in its document, buffered within the caps
\* or refused with its past held, its document holds the past of every change
\* in it and its buffer nothing ready (MeshDoc::ingest, buffer_orphan,
\* drain_pending), for every set of members, plan of writes and loss.
THEOREM SeenStaysAccountedFor == DocSpec => []SeenIsAccountedFor
<1>1. DocInit => DocInv
  BY DocInitHolds
<1>2. DocInv /\ [DocNext]_docvars => DocInv'
  BY DocNextKeeps
<1>3. DocInv => SeenIsAccountedFor
  BY DocInvSuffices
<1> QED BY <1>1, <1>2, <1>3, PTL DEF DocSpec

\* A change is never altered or lost, and a document never shrinks.
Grown ==
  /\ \A c \in DOMAIN changes : c \in DOMAIN changes' /\ changes'[c] = changes[c]
  /\ \A m \in Members : Elements(applied[m]) \subseteq Elements(applied'[m])

LEMMA StepGrows == DocInv /\ [DocNext]_docvars => Grown
<1> SUFFICES ASSUME DocInv, [DocNext]_docvars PROVE Grown
  OBVIOUS
<1>1. ASSUME NEW m \in Members, NEW t \in WritesTo(m), WriteEntry(m, t) PROVE Grown
  <2> DEFINE c == NewChange(m, t)
             id == c.id
             l == applied[m]
  <2>1. id \notin DOMAIN changes
    BY NewIdIsNew
  <2>2. /\ changes' = [x \in DOMAIN changes \cup {id} |->
                        IF x = id THEN [target |-> t, deps |-> c.deps, op |-> c.op, object |-> c.object]
                        ELSE changes[x]]
        /\ applied' = [applied EXCEPT ![m] = Append(@, id)]
    BY <1>1 DEF WriteEntry
  <2> HIDE DEF c, id
  <2>3. l \in Seq(DOMAIN changes') /\ id \in DOMAIN changes'
    <3>1. l \in Seq(DOMAIN changes) /\ DOMAIN changes \subseteq DOMAIN changes'
      BY <2>2 DEF DocInv, Accounted
    <3> QED BY <2>2, <3>1
  <2>4. Elements(Append(l, id)) = Elements(l) \cup {id}
    BY <2>3, LogGrows
  <2>5. applied'[m] = Append(l, id) /\ \A n \in Members \ {m} : applied'[n] = applied[n]
    BY <2>2 DEF DocInv
  <2>6. \A n \in Members : Elements(applied[n]) \subseteq Elements(applied'[n])
    BY <2>4, <2>5
  <2>7. \A x \in DOMAIN changes : x \in DOMAIN changes' /\ changes'[x] = changes[x]
    BY <2>1, <2>2
  <2> QED BY <2>6, <2>7 DEF Grown
<1>2. ASSUME NEW m \in Members, NEW c \in frames[m], Receive(m, c) PROVE Grown
  <2>1. c \in DOMAIN changes /\ changes' = changes
    BY <1>2 DEF DocInv, Receive
  <2>2. CASE UNCHANGED <<applied, pending, seen>>
    BY <2>1, <2>2 DEF Grown
  <2>3. CASE Ingest(m, c)
    <3>1. /\ Elements(applied[m]) \subseteq Elements(applied'[m])
          /\ \A n \in Members \ {m} : applied'[n] = applied[n]
      BY <2>1, <2>3, IngestKeeps
    <3>2. \A n \in Members : Elements(applied[n]) \subseteq Elements(applied'[n])
      BY <3>1
    <3> QED BY <2>1, <3>2 DEF Grown
  <2> QED BY <1>2, <2>2, <2>3 DEF Receive
<1>3. CASE UNCHANGED <<changes, applied>>
  BY <1>3 DEF Grown
<1>4. ASSUME NEW m \in Members,
             \/ \E c \in frames[m] : LoseFrame(m, c)
             \/ BroadcastDigest(m)
             \/ \E d \in digests : HandleDigest(m, d)
             \/ \E a \in Others(m) : WindowEnds(m, a)
      PROVE  UNCHANGED <<changes, applied>>
  BY <1>4, Zenon DEF LoseFrame, BroadcastDigest, HandleDigest, WindowEnds
<1>5. (\E d \in digests : LoseDigest(d)) => UNCHANGED <<changes, applied>>
  BY Zenon DEF LoseDigest
<1>6. UNCHANGED docvars => UNCHANGED <<changes, applied>>
  BY DEF docvars
<1> QED BY <1>1, <1>2, <1>3, <1>4, <1>5, <1>6, Zenon DEF DocNext

\* What was written is never altered, and no arrival, drain or refusal takes a
\* change out of a document (automerge applies, and nothing of fofoca-doc
\* removes): no step undoes what Converges waits for.
THEOREM DocumentsOnlyGrow == DocSpec => [][Grown]_docvars
<1>1. DocInit => DocInv
  BY DocInitHolds
<1>2. DocInv /\ [DocNext]_docvars => DocInv'
  BY DocNextKeeps
<1>3. DocInv /\ [DocNext]_docvars => Grown
  BY StepGrows
<1> QED BY <1>1, <1>2, <1>3, PTL DEF DocSpec
=============================================================================
