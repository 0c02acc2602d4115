------------------------------ MODULE ResultStore ------------------------------
(***************************************************************************)
(* The two result stores (src/src/evals/resultStore.ts), a directory and a *)
(* bucket: several processes save one artifact each, under its id and as   *)
(* the latest of its kind, while another loads or lists.  A file is        *)
(* truncated and then written in place, so two saves that have it open at  *)
(* once may leave a mixture of both; an object appears as a whole.  Nothing *)
(* is ever deleted.  EvalBatch and Reporter use the directory.             *)
(***************************************************************************)
EXTENDS Integers, FiniteSets

CONSTANTS
  Savers,   \* the processes that save, strings; each names the artifact it saves
  Kinds,    \* KIND_DIRS
  Ids,      \* ids of artifacts; one that is nested has a separator in it
  Nested,
  Limits    \* options.limit of a list

Names == Kinds \X (Ids \cup {"latest"})

VARIABLES
  provider,  \* "file", "gcs", or "no package": the bucket's client is not installed
  stored,    \* <<kind, name>> |-> "missing", "torn" or the saver whose artifact it holds
  saves,     \* saver |-> [at, kind, id, createdAt]
  overlaps,  \* <<saver, name>>: another had that file open while the saver wrote it
  reader     \* [at, op, kind, id, limit, before, names, found]

vars == <<provider, stored, saves, overlaps, reader>>

Ops == [op : {"load"}, kind : Kinds, id : Ids, limit : {0}]
       \cup [op : {"latest"}, kind : Kinds, id : {"latest"}, limit : {0}]
       \cup [op : {"list"}, kind : Kinds, id : {"latest"}, limit : Limits]

Idle == [at |-> "idle", before |-> {}, names |-> {}, found |-> {}]

\* Two artifacts may be created in one millisecond.
Init ==
  /\ provider \in {"file", "gcs", "no package"}
  /\ stored = [n \in Names |-> "missing"]
  /\ saves \in [Savers -> [at : {"new"}, kind : Kinds, id : Ids, createdAt : 1..2]]
  /\ overlaps = {}
  /\ reader = Idle

-------------------------------------------------------------------------------
(* saveArtifact *)

\* Where the artifact goes next: first under its id, then as the latest.
Target(s) ==
  <<saves[s].kind, IF saves[s].at \in {"id", "id open"} THEN saves[s].id ELSE "latest">>

Goes(s, at) == saves' = [saves EXCEPT ![s].at = at]

\* The savers that have the file of s open.
Writing(s) ==
  {x \in Savers \ {s} : saves[x].at \in {"id open", "latest open"} /\ Target(x) = Target(s)}

\* mkdir, or the import of the client.
Begin(s) ==
  /\ saves[s].at = "new"
  /\ Goes(s, IF provider = "no package" THEN "failed" ELSE "id")
  /\ UNCHANGED <<provider, stored, overlaps, reader>>

\* writeFile truncates the file; a nested id has no directory.
Open(s) ==
  /\ provider = "file" /\ saves[s].at \in {"id", "latest"}
  /\ IF saves[s].at = "id" /\ saves[s].id \in Nested
       THEN Goes(s, "failed") /\ UNCHANGED <<stored, overlaps>>
       ELSE /\ stored' = [stored EXCEPT ![Target(s)] = "torn"]
            /\ overlaps' =
                 IF Writing(s) = {} THEN overlaps
                 ELSE overlaps \cup {<<x, Target(s)>> : x \in Writing(s) \cup {s}}
            /\ Goes(s, IF saves[s].at = "id" THEN "id open" ELSE "latest open")
  /\ UNCHANGED <<provider, reader>>

\* The bytes go over what another has written since: the end of a longer text stays.
Write(s) ==
  /\ saves[s].at \in {"id open", "latest open"}
  /\ \E text \in {s} \cup (IF <<s, Target(s)>> \in overlaps THEN {"torn"} ELSE {}) :
       stored' = [stored EXCEPT ![Target(s)] = text]
  /\ Goes(s, IF saves[s].at = "id open" THEN "latest" ELSE "saved")
  /\ UNCHANGED <<provider, overlaps, reader>>

\* An object is replaced at once; encodeURIComponent makes one name of any id.
Put(s) ==
  /\ provider = "gcs" /\ saves[s].at \in {"id", "latest"}
  /\ stored' = [stored EXCEPT ![Target(s)] = s]
  /\ Goes(s, IF saves[s].at = "id" THEN "latest" ELSE "saved")
  /\ UNCHANGED <<provider, overlaps, reader>>

\* The write fails, or the process dies, wherever it is, some bytes of an open file written.
SaveFails(s) ==
  /\ saves[s].at \notin {"new", "saved", "failed"}
  /\ \/ UNCHANGED stored
     \/ /\ saves[s].at \in {"id open", "latest open"}
        /\ stored' = [stored EXCEPT ![Target(s)] = "torn"]
  /\ Goes(s, "failed")
  /\ UNCHANGED <<provider, overlaps, reader>>

-------------------------------------------------------------------------------
(* loadArtifact, loadLatestArtifact and listArtifacts *)

\* The artifacts of a kind; latest.json is a copy of one of them.
Listing(kind) == {n \in Names : n[1] = kind /\ n[2] # "latest" /\ stored[n] # "missing"}

Wanted(op) == IF op.op = "list" THEN Listing(op.kind) ELSE {<<op.kind, op.id>>}

Call(op) ==
  /\ reader.at = "idle"
  /\ reader' = [at |-> IF provider = "no package" THEN "rejected" ELSE "reading",
                op |-> op, names |-> Wanted(op), found |-> {},
                before |-> {s \in Savers : saves[s].at = "saved"}]
  /\ UNCHANGED <<provider, stored, saves, overlaps>>

\* JSON.parse rejects a torn file; an artifact that is missing rejects a load, but the latest
\* is then null.
Unreadable(n) == stored[n] = "torn" \/ (stored[n] = "missing" /\ reader.op.op = "load")

\* One that cannot be read rejects the whole list.
Read(n) ==
  /\ reader.at = "reading" /\ n \in reader.names
  /\ reader' =
       IF Unreadable(n)
         THEN [reader EXCEPT !.at = "rejected"]
         ELSE [reader EXCEPT !.names = @ \ {n}, !.found = @ \cup ({stored[n]} \ {"missing"})]
  /\ UNCHANGED <<provider, stored, saves, overlaps>>

\* Mutant: the oldest come first.
FirstOldest(found, limit) ==
  {kept \in SUBSET found :
     /\ Cardinality(kept) = IF Cardinality(found) < limit THEN Cardinality(found) ELSE limit
     /\ \A s \in kept, t \in found \ kept : saves[s].createdAt <= saves[t].createdAt}

\* The newest first, cut at the limit; those of one millisecond come in any order.
First(found, limit) ==
  {kept \in SUBSET found :
     /\ Cardinality(kept) = IF Cardinality(found) < limit THEN Cardinality(found) ELSE limit
     /\ \A s \in kept, t \in found \ kept : saves[s].createdAt >= saves[t].createdAt}

Return ==
  /\ reader.at = "reading" /\ reader.names = {}
  /\ \E kept \in IF reader.op.op = "list" THEN First(reader.found, reader.op.limit) ELSE {reader.found} :
       reader' = [reader EXCEPT !.at = "returned", !.found = kept]
  /\ UNCHANGED <<provider, stored, saves, overlaps>>

Next ==
  \/ \E s \in Savers : Begin(s) \/ Open(s) \/ Write(s) \/ Put(s) \/ SaveFails(s)
  \/ \E op \in Ops : Call(op)
  \/ \E n \in Names : Read(n)
  \/ Return

-------------------------------------------------------------------------------
(* Properties. *)

Twins(s) == {t \in Savers : saves[t].kind = saves[s].kind /\ saves[t].id = saves[s].id}

\* The files a save writes.
Files(s) == {<<saves[s].kind, saves[s].id>>, <<saves[s].kind, "latest">>}

\* A save that returned is found by every call that begins later and returns: by its id, as a
\* latest, and in a list unless the limit is taken by newer ones; another save of the same id
\* may have replaced it.  And a call is refused only for a file of its own: one that no save
\* before it has written, or, in a directory, one that a save not returned before it had begun
\* to write, or that two saves had open at once.  So what a single save wrote under its id can
\* be loaded ever after, while the latest of a kind may stay unreadable when two saves overlap.
StoredIsFound ==
  /\ reader.at = "returned" =>
       \A s \in {t \in reader.before : saves[t].kind = reader.op.kind} :
         CASE reader.op.op = "load" -> 
                saves[s].id = reader.op.id => reader.found # {} /\ reader.found \subseteq Twins(s)
           [] reader.op.op = "latest" -> reader.found # {}
           [] reader.op.op = "list" ->
                \E t \in Twins(s) :
                  \/ t \in reader.found
                  \/ /\ Cardinality(reader.found) = reader.op.limit
                     /\ \A u \in reader.found : saves[u].createdAt >= saves[t].createdAt
  /\ reader.at = "rejected" /\ provider # "no package" =>
       \E n \in reader.names :
         \/ reader.op.op = "load" /\ \A s \in reader.before : n \notin Files(s)
         \/ /\ provider = "file"
            /\ \E s \in Savers :
                 /\ n \in Files(s)
                 /\ (s \notin reader.before /\ saves[s].at # "new") \/ <<s, n>> \in overlaps
===============================================================================
