--------------------------- MODULE EvalBatch_proofs ---------------------------
(***************************************************************************)
(* Proofs about EvalBatch, for every number of batches, manifests, arms    *)
(* and workers.  An execution owns its artifacts: StoreInv says that it    *)
(* writes them in order, each once, and that nobody else does.             *)
(***************************************************************************)
EXTENDS EvalBatch, TLAPS

Running == {"arm", "summarise"}
SavingPcs == {"open", "write", "latest"}
Holding == Running \cup SavingPcs \cup {"results"}

\* The parts that are saved before this one.
Earlier(part) == IF part = Summary THEN Arms ELSE 1..(part - 1)

RunsOwned == \A b \in Batches, m \in Manifests :
  item[b][m].pc \in Holding => item[b][m].run \in 1..runs

RunsDistinct == \A b, c \in Batches, m, n \in Manifests :
  /\ item[b][m].pc \in Holding /\ item[c][n].pc \in Holding
  /\ item[b][m].run = item[c][n].run
  => b = c /\ m = n

\* Nothing is stored for a run that has no id yet, or still runs its arms.
NotStored == \A r \in Runs : r > runs => \A p \in Parts : file[r][p] = "none"

NotStoredYet == \A b \in Batches, m \in Manifests :
  item[b][m].pc \in Running => \A p \in Parts : file[item[b][m].run][p] = "none"

\* The parts of a run that is being saved: those before the item's part are whole, those
\* after it are not begun.
InOrder(i) ==
  /\ \A p \in Earlier(i.part) : file[i.run][p] = "whole"
  /\ i.pc # "latest" => file[i.run][i.part] # "whole"
  /\ i.pc = "latest" => file[i.run][i.part] = "whole"
  /\ \A p \in Parts \ (Earlier(i.part) \cup {i.part}) : file[i.run][p] = "none"

SavedInOrder == \A b \in Batches, m \in Manifests :
  item[b][m].pc \in SavingPcs => InOrder(item[b][m])

\* A summary of all the arms is whole only when the artifacts of all of them are.
SummaryLast == \A r \in Runs :
  file[r][Summary] = "whole" /\ about[r].arms = Arms => Complete(r)

StoreInv == RunsOwned /\ RunsDistinct /\ NotStored /\ NotStoredYet /\ SavedInOrder /\ SummaryLast

-------------------------------------------------------------------------------
LEMMA Sizes == /\ NumArms \in Nat \ {0} /\ MaxRuns \in Nat \ {0}
               /\ NumManifests \in Nat \ {0} /\ MaxVersions \in Nat \ {0}
BY SizesAssumption

LEMMA PartsFact == /\ Summary \in Parts /\ Arms \subseteq Parts /\ Summary \notin Arms
                   /\ 1 \in Arms /\ NumArms \in Arms
BY Sizes DEF Parts, Summary, Arms

\* The parts are saved one after the other, and the summary follows all the arms.
LEMMA NextPartFact ==
  ASSUME NEW p \in Arms
  PROVE  /\ NextPart(p) \in Parts /\ NextPart(p) \notin Earlier(p) \cup {p}
         /\ Earlier(NextPart(p)) = Earlier(p) \cup {p}
BY Sizes DEF NextPart, Parts, Arms, Summary, Earlier

\* An item that is replaced by an item leaves a table of items.
LEMMA ItemStays ==
  ASSUME TypeOK, NEW b \in Batches, NEW m \in Manifests, NEW x \in ItemRecords,
         item' = [item EXCEPT ![b][m] = x]
  PROVE  item' \in [Batches -> [Manifests -> ItemRecords]]
BY DEF TypeOK

LEMMA ItemTyped ==
  ASSUME TypeOK, NEW b \in Batches, NEW m \in Manifests
  PROVE  item[b][m] \in ItemRecords
BY DEF TypeOK

LEMMA WaitingTyped == Waiting \in ItemRecords
<1>1. 0 \in 0..MaxVersions /\ 0 \in 0..MaxRuns /\ 0 \in 0..NumArms /\ 0 \in Parts
  BY Sizes DEF Parts, Summary
<1> QED BY <1>1 DEF Waiting, ItemRecords

LEMMA InitTyped == Init => TypeOK
<1> SUFFICES ASSUME Init PROVE TypeOK
  OBVIOUS
<1>1. Waiting \in ItemRecords
  BY WaitingTyped
<1>2. NoSummary \in [manifest : 0..NumManifests, version : 0..MaxVersions, arms : SUBSET Arms]
  BY Sizes DEF NoSummary
<1>3. NoArtifact \in [run : 0..MaxRuns, part : Parts]
  BY Sizes, PartsFact DEF NoArtifact
<1>4. version \in Versions /\ runs \in 0..MaxRuns
  BY Sizes DEF Init, Versions
<1> QED BY <1>1, <1>2, <1>3, <1>4 DEF Init, TypeOK

\* Match skips the manifest, with the complete summary it found, or has it run.
LEMMA MatchMoves ==
  ASSUME TypeOK, NEW b \in Batches, NEW m \in Manifests, Match(b, m)
  PROVE  \/ /\ item' = [item EXCEPT ![b][m] = [item[b][m] EXCEPT !.pc = "skipped", !.listed = {}]]
            /\ \E r \in item[b][m].listed :
                 file[r][Summary] = "whole" /\ Matches(r, m, item[b][m].version)
         \/ item' = [item EXCEPT ![b][m] = [Waiting EXCEPT !.pc = "prepare"]]
<1>1. \/ /\ item' = [item EXCEPT ![b][m].pc = "skipped", ![b][m].listed = {}]
         /\ \E r \in item[b][m].listed :
              file[r][Summary] = "whole" /\ Matches(r, m, item[b][m].version)
      \/ item' = [item EXCEPT ![b][m] = [Waiting EXCEPT !.pc = "prepare"]]
  BY Zenon DEF Match, Resets
<1>2. [item EXCEPT ![b][m].pc = "skipped", ![b][m].listed = {}]
        = [item EXCEPT ![b][m] = [item[b][m] EXCEPT !.pc = "skipped", !.listed = {}]]
  BY DEF TypeOK
<1> QED BY <1>1, <1>2

LEMMA StepTyped == TypeOK /\ RunsOwned /\ [Next]_vars => TypeOK'
<1> SUFFICES ASSUME TypeOK, RunsOwned, [Next]_vars PROVE TypeOK'
  OBVIOUS
<1> USE Sizes, PartsFact
<1>1. ASSUME NEW b \in Batches, NEW m \in Manifests, Start(b, m) PROVE TypeOK'
  <2> DEFINE x == [item[b][m] EXCEPT !.pc = IF SkipExisting THEN "list" ELSE "prepare"]
  <2>2. x \in ItemRecords
    BY ItemTyped DEF ItemRecords
  <2>3. item' = [item EXCEPT ![b][m] = x]
    BY <1>1 DEF Start, Goes, TypeOK
  <2>4. item' \in [Batches -> [Manifests -> ItemRecords]]
    BY <2>2, <2>3, ItemStays
  <2> QED BY <1>1, <2>4 DEF Start, TypeOK, storeVars
<1>2. ASSUME NEW b \in Batches, NEW m \in Manifests, List(b, m) PROVE TypeOK'
  <2> DEFINE x == [item[b][m] EXCEPT !.pc = "match", !.version = version, !.listed = Listed]
  <2>1. version \in 0..MaxVersions /\ Listed \in SUBSET Runs
    BY DEF TypeOK, Versions, Listed
  <2>2. x \in ItemRecords
    BY ItemTyped, <2>1 DEF ItemRecords
  <2>3. item' = [item EXCEPT ![b][m] = x]
    BY <1>2 DEF List, TypeOK
  <2>4. item' \in [Batches -> [Manifests -> ItemRecords]]
    BY <2>2, <2>3, ItemStays
  <2> QED BY <1>2, <2>4 DEF List, TypeOK, storeVars
<1>3. ASSUME NEW b \in Batches, NEW m \in Manifests, Match(b, m) PROVE TypeOK'
  <2> DEFINE x == [item[b][m] EXCEPT !.pc = "skipped", !.listed = {}]
             y == [Waiting EXCEPT !.pc = "prepare"]
  <2>1. x \in ItemRecords /\ y \in ItemRecords
    BY ItemTyped, WaitingTyped DEF ItemRecords
  <2>2. item' = [item EXCEPT ![b][m] = x] \/ item' = [item EXCEPT ![b][m] = y]
    BY <1>3, MatchMoves
  <2>3. item' \in [Batches -> [Manifests -> ItemRecords]]
    BY <2>1, <2>2, ItemStays
  <2> QED BY <1>3, <2>3 DEF Match, TypeOK, storeVars
<1>4. ASSUME NEW b \in Batches, NEW m \in Manifests, Prepare(b, m) PROVE TypeOK'
  <2> DEFINE x == [item[b][m] EXCEPT !.pc = "arm", !.version = version, !.run = runs + 1, !.arm = 1]
  <2>1. version \in 0..MaxVersions /\ runs + 1 \in 0..MaxRuns /\ 1 \in 0..NumArms
    BY <1>4 DEF Prepare, TypeOK, Versions
  <2>2. x \in ItemRecords
    BY ItemTyped, <2>1 DEF ItemRecords
  <2>3. item' = [item EXCEPT ![b][m] = x]
    BY ZenonT(60), <1>4 DEF Prepare, TypeOK
  <2>4. item' \in [Batches -> [Manifests -> ItemRecords]]
    BY <2>2, <2>3, ItemStays
  <2> QED BY <1>4, <2>4 DEF Prepare, TypeOK, storeVars
<1>5. ASSUME NEW b \in Batches, NEW m \in Manifests, RunArm(b, m) PROVE TypeOK'
  <2> DEFINE x == [item[b][m] EXCEPT !.arm = IF item[b][m].arm = NumArms THEN NumArms ELSE item[b][m].arm + 1,
                              !.pc = IF item[b][m].arm = NumArms THEN "summarise" ELSE "arm"]
  <2>1. (IF item[b][m].arm = NumArms THEN NumArms ELSE item[b][m].arm + 1) \in 0..NumArms
    BY ItemTyped DEF ItemRecords
  <2>2. x \in ItemRecords
    BY ZenonT(60), ItemTyped, <2>1 DEF ItemRecords
  <2>3. item' = [item EXCEPT ![b][m] = x]
    BY <1>5 DEF RunArm, TypeOK
  <2>4. item' \in [Batches -> [Manifests -> ItemRecords]]
    BY <2>2, <2>3, ItemStays
  <2> QED BY <1>5, <2>4 DEF RunArm, TypeOK, storeVars
<1>6. ASSUME NEW b \in Batches, NEW m \in Manifests, Summarise(b, m) PROVE TypeOK'
  <2> DEFINE x == [item[b][m] EXCEPT !.pc = "open", !.part = 1]
  <2>2. x \in ItemRecords
    BY ItemTyped DEF ItemRecords, Parts, Arms
  <2>3. item' = [item EXCEPT ![b][m] = x]
    BY <1>6 DEF Summarise, TypeOK
  <2>4. item' \in [Batches -> [Manifests -> ItemRecords]]
    BY <2>2, <2>3, ItemStays
  <2>5. [manifest |-> m, version |-> item[b][m].version, arms |-> Arms]
        \in [manifest : 0..NumManifests, version : 0..MaxVersions, arms : SUBSET Arms]
    BY ItemTyped DEF ItemRecords, Manifests
  <2> QED BY <1>6, <2>4, <2>5 DEF Summarise, TypeOK, storeVars
<1>7. ASSUME NEW b \in Batches, NEW m \in Manifests, Open(b, m) PROVE TypeOK'
  <2> DEFINE x == [item[b][m] EXCEPT !.pc = "write"]
  <2>2. x \in ItemRecords
    BY ItemTyped DEF ItemRecords
  <2>3. item' = [item EXCEPT ![b][m] = x]
    BY <1>7 DEF Open, Goes, TypeOK
  <2>4. item' \in [Batches -> [Manifests -> ItemRecords]]
    BY <2>2, <2>3, ItemStays
  <2> QED BY <1>7, <2>4 DEF Open, TypeOK
<1>8. ASSUME NEW b \in Batches, NEW m \in Manifests, Write(b, m) PROVE TypeOK'
  <2> DEFINE x == [item[b][m] EXCEPT !.pc = "latest"]
  <2>2. x \in ItemRecords
    BY ItemTyped DEF ItemRecords
  <2>3. item' = [item EXCEPT ![b][m] = x]
    BY <1>8 DEF Write, Goes, TypeOK
  <2>4. item' \in [Batches -> [Manifests -> ItemRecords]]
    BY <2>2, <2>3, ItemStays
  <2> QED BY <1>8, <2>4 DEF Write, TypeOK
<1>9. ASSUME NEW b \in Batches, NEW m \in Manifests, WriteLatest(b, m) PROVE TypeOK'
  <2> DEFINE x == [item[b][m] EXCEPT !.pc = IF item[b][m].part = Summary THEN "results" ELSE "open",
                              !.part = IF item[b][m].part = Summary THEN 0 ELSE NextPart(item[b][m].part)]
  <2>1. (IF item[b][m].part = Summary THEN 0 ELSE NextPart(item[b][m].part)) \in Parts
    BY ItemTyped, NextPartFact DEF ItemRecords, Parts, Summary
  <2>2. x \in ItemRecords
    BY ZenonT(60), ItemTyped, <2>1 DEF ItemRecords
  <2>3. item' = [item EXCEPT ![b][m] = x]
    BY <1>9 DEF WriteLatest, TypeOK
  <2>4. item' \in [Batches -> [Manifests -> ItemRecords]]
    BY <2>2, <2>3, ItemStays
  <2>5. [run |-> item[b][m].run, part |-> item[b][m].part] \in [run : 0..MaxRuns, part : Parts]
    BY ItemTyped DEF ItemRecords
  <2> QED BY <1>9, <2>4, <2>5 DEF WriteLatest, TypeOK
<1>10. ASSUME NEW b \in Batches, NEW m \in Manifests, WriteResults(b, m) PROVE TypeOK'
  <2> DEFINE x == [Waiting EXCEPT !.pc = "done"]
  <2>2. x \in ItemRecords
    BY ItemTyped, WaitingTyped DEF ItemRecords
  <2>3. item' = [item EXCEPT ![b][m] = x]
    BY <1>10 DEF WriteResults, Resets, TypeOK
  <2>4. item' \in [Batches -> [Manifests -> ItemRecords]]
    BY <2>2, <2>3, ItemStays
  <2>5. item[b][m].run \in Runs
    BY <1>10, RunsOwned DEF WriteResults, RunsOwned, Holding, TypeOK, Runs
  <2> QED BY <1>10, <2>4, <2>5 DEF WriteResults, TypeOK
<1>11. ASSUME NEW b \in Batches, NEW m \in Manifests, Throws(b, m) PROVE TypeOK'
  <2> DEFINE x == [Waiting EXCEPT !.pc = "error"]
  <2>2. x \in ItemRecords
    BY ItemTyped, WaitingTyped DEF ItemRecords
  <2>3. item' = [item EXCEPT ![b][m] = x]
    BY <1>11 DEF Throws, Resets, TypeOK
  <2>4. item' \in [Batches -> [Manifests -> ItemRecords]]
    BY <2>2, <2>3, ItemStays
  <2> QED BY <1>11, <2>4 DEF Throws, TypeOK, storeVars
<1>12. ASSUME NEW b \in Batches, BatchReturns(b) \/ Crash(b) PROVE TypeOK'
  BY <1>12 DEF BatchReturns, Crash, TypeOK, storeVars
<1>13. ASSUME NEW m \in Manifests, NEW a \in Arms, ArmRun(m, a) PROVE TypeOK'
  <2>1. runs + 1 \in Runs
    BY <1>13 DEF ArmRun, TypeOK, Runs
  <2>2. [manifest |-> m, version |-> version, arms |-> {a}]
        \in [manifest : 0..NumManifests, version : 0..MaxVersions, arms : SUBSET Arms]
    BY DEF Manifests, TypeOK, Versions
  <2> QED BY <1>13, <2>1, <2>2 DEF ArmRun, TypeOK, Runs
<1>14. CASE Edit
  BY <1>14 DEF Edit, TypeOK, Versions, storeVars
<1>15. CASE UNCHANGED vars
  BY <1>15 DEF vars, TypeOK, storeVars
<1> QED
  BY <1>1, <1>2, <1>3, <1>4, <1>5, <1>6, <1>7, <1>8, <1>9, <1>10, <1>11, <1>12, <1>13, <1>14, <1>15 DEF Next, BatchStep, ItemStep

-------------------------------------------------------------------------------
(* How a step of one item touches the others. *)

LEMMA ItemUpdated ==
  ASSUME TypeOK, NEW b \in Batches, NEW m \in Manifests, NEW x,
         item' = [item EXCEPT ![b][m] = x]
  PROVE  /\ item'[b][m] = x
         /\ \A c \in Batches, n \in Manifests : c # b \/ n # m => item'[c][n] = item[c][n]
BY DEF TypeOK

\* The item that moves keeps its run or has none, so every run still has one owner.
LEMMA OwnersKept ==
  ASSUME TypeOK, RunsOwned, RunsDistinct, UNCHANGED runs,
         NEW b \in Batches, NEW m \in Manifests, NEW x,
         item' = [item EXCEPT ![b][m] = x],
         x.pc \in Holding => item[b][m].pc \in Holding /\ x.run = item[b][m].run
  PROVE  RunsOwned' /\ RunsDistinct'
<1>1. ASSUME NEW c \in Batches, NEW n \in Manifests, item'[c][n].pc \in Holding
      PROVE  item[c][n].pc \in Holding /\ item'[c][n].run = item[c][n].run
  BY <1>1, ItemUpdated
<1>2. RunsOwned'
  BY <1>1 DEF RunsOwned
<1>3. RunsDistinct'
  BY <1>1 DEF RunsDistinct
<1> QED BY <1>2, <1>3

\* A step that leaves the store alone: the item that moves holds no run afterwards.
LEMMA Released ==
  ASSUME TypeOK, StoreInv, UNCHANGED <<runs, about, file>>,
         NEW b \in Batches, NEW m \in Manifests, NEW x,
         item' = [item EXCEPT ![b][m] = x],
         x.pc \notin Running \cup SavingPcs,
         x.pc \in Holding => item[b][m].pc \in Holding /\ x.run = item[b][m].run
  PROVE  StoreInv'
<1>1. RunsOwned' /\ RunsDistinct'
  BY OwnersKept DEF StoreInv
<1>2. NotStored' /\ SummaryLast'
  BY DEF StoreInv, NotStored, SummaryLast, Complete
<1>3. ASSUME NEW c \in Batches, NEW n \in Manifests,
             item'[c][n].pc \in Running \cup SavingPcs
      PROVE  item'[c][n] = item[c][n]
  BY <1>3, ItemUpdated
<1>4. NotStoredYet'
  BY <1>3 DEF StoreInv, NotStoredYet
<1>5. SavedInOrder'
  BY <1>3 DEF StoreInv, SavedInOrder, InOrder
<1> QED BY <1>1, <1>2, <1>4, <1>5 DEF StoreInv

-------------------------------------------------------------------------------
(* The steps that change a run or its artifacts. *)

LEMMA PrepareKeeps ==
  ASSUME TypeOK, StoreInv, NEW b \in Batches, NEW m \in Manifests, Prepare(b, m)
  PROVE  StoreInv'
<1> DEFINE x == [item[b][m] EXCEPT !.pc = "arm", !.version = version, !.run = runs + 1, !.arm = 1]
<1>1. item' = [item EXCEPT ![b][m] = x]
  BY DEF Prepare, TypeOK
<1>2. x.pc = "arm" /\ x.run = runs + 1
  BY ItemTyped DEF ItemRecords
<1>3. runs \in Nat /\ runs' = runs + 1 /\ runs + 1 \in Runs /\ UNCHANGED <<about, file>>
  BY Sizes DEF Prepare, TypeOK, Runs, storeVars
<1> HIDE DEF x
<1>4. /\ item'[b][m] = x
      /\ \A c \in Batches, n \in Manifests : c # b \/ n # m => item'[c][n] = item[c][n]
  BY ZenonT(60), <1>1, ItemUpdated
<1>5. \A c \in Batches, n \in Manifests :
        item[c][n].pc \in Holding => item[c][n].run \in 1..runs /\ item[c][n].run # x.run
  BY <1>2, <1>3 DEF StoreInv, RunsOwned
<1>6. RunsOwned'
  BY <1>2, <1>3, <1>4, <1>5 DEF RunsOwned
<1>7. RunsDistinct'
  BY <1>4, <1>5 DEF StoreInv, RunsDistinct
<1>8. NotStored'
  BY <1>3 DEF StoreInv, NotStored, Runs
<1>9. NotStoredYet'
  <2>1. \A q \in Parts : file[x.run][q] = "none"
    BY <1>2, <1>3 DEF StoreInv, NotStored
  <2> QED BY <2>1, <1>3, <1>4 DEF StoreInv, NotStoredYet
<1>10. SavedInOrder'
  BY <1>2, <1>3, <1>4 DEF StoreInv, SavedInOrder, InOrder, SavingPcs
<1>11. SummaryLast'
  BY <1>3 DEF StoreInv, SummaryLast, Complete
<1> QED BY <1>6, <1>7, <1>8, <1>9, <1>10, <1>11 DEF StoreInv

LEMMA RunArmKeeps ==
  ASSUME TypeOK, StoreInv, NEW b \in Batches, NEW m \in Manifests, RunArm(b, m)
  PROVE  StoreInv'
<1> DEFINE x == [item[b][m] EXCEPT !.arm = IF item[b][m].arm = NumArms THEN NumArms ELSE item[b][m].arm + 1,
                                   !.pc = IF item[b][m].arm = NumArms THEN "summarise" ELSE "arm"]
<1>1. item' = [item EXCEPT ![b][m] = x]
  BY DEF RunArm, TypeOK
<1>2. x.pc \in Running /\ x.run = item[b][m].run
  BY ItemTyped DEF ItemRecords, Running
<1>3. item[b][m].pc \in Running /\ UNCHANGED <<runs, about, file>>
  BY DEF RunArm, Running, storeVars
<1> HIDE DEF x
<1>4. /\ item'[b][m] = x
      /\ \A c \in Batches, n \in Manifests : c # b \/ n # m => item'[c][n] = item[c][n]
  BY ZenonT(60), <1>1, ItemUpdated
<1>5. RunsOwned' /\ RunsDistinct'
  BY <1>1, <1>2, <1>3, OwnersKept DEF StoreInv, Holding
<1>6. NotStored' /\ SummaryLast'
  BY <1>3 DEF StoreInv, NotStored, SummaryLast, Complete
<1>7. NotStoredYet'
  BY <1>2, <1>3, <1>4 DEF StoreInv, NotStoredYet
<1>8. SavedInOrder'
  BY <1>2, <1>3, <1>4 DEF StoreInv, SavedInOrder, InOrder, SavingPcs, Running
<1> QED BY <1>5, <1>6, <1>7, <1>8 DEF StoreInv

LEMMA SummariseKeeps ==
  ASSUME TypeOK, StoreInv, NEW b \in Batches, NEW m \in Manifests, Summarise(b, m)
  PROVE  StoreInv'
<1> DEFINE x == [item[b][m] EXCEPT !.pc = "open", !.part = 1]
           r == item[b][m].run
<1>1. item' = [item EXCEPT ![b][m] = x]
  BY DEF Summarise, TypeOK
<1>2. x.pc = "open" /\ x.run = r /\ x.part = 1
  BY ItemTyped DEF ItemRecords
<1>3. item[b][m].pc \in Running /\ UNCHANGED <<runs, file>>
      /\ \A q \in Runs : q # r => about'[q] = about[q]
  BY DEF Summarise, Running, storeVars, TypeOK
<1>31. \A q \in Parts : file[r][q] = "none"
  BY <1>3 DEF StoreInv, NotStoredYet
<1> HIDE DEF x, r
<1>4. /\ item'[b][m] = x
      /\ \A c \in Batches, n \in Manifests : c # b \/ n # m => item'[c][n] = item[c][n]
  BY ZenonT(60), <1>1, ItemUpdated
<1>5. RunsOwned' /\ RunsDistinct'
  BY <1>1, <1>2, <1>3, OwnersKept DEF StoreInv, Holding, SavingPcs, r
<1>6. NotStored'
  BY <1>3 DEF StoreInv, NotStored
<1>7. NotStoredYet'
  BY <1>2, <1>3, <1>4 DEF StoreInv, NotStoredYet, Running
<1>8. SavedInOrder'
  <2>1. Earlier(1) = {}
    BY DEF Earlier, Summary
  <2>2. ASSUME NEW c \in Batches, NEW n \in Manifests, item'[c][n].pc \in SavingPcs
        PROVE  InOrder(item[c][n])'
    <3>1. CASE c = b /\ n = m
      BY <3>1, <2>1, <1>2, <1>3, <1>31, <1>4, PartsFact DEF InOrder
    <3>2. CASE c # b \/ n # m
      BY <3>2, <2>2, <1>3, <1>4 DEF StoreInv, SavedInOrder, InOrder
    <3> QED BY <3>1, <3>2
  <2> QED BY <2>2 DEF SavedInOrder
<1>9. SummaryLast'
  BY <1>3, <1>31, PartsFact DEF StoreInv, SummaryLast, Complete
<1> QED BY <1>5, <1>6, <1>7, <1>8, <1>9 DEF StoreInv

\* Opening and writing change one part of one run, which only its item holds.
LEMMA PartKeeps ==
  ASSUME TypeOK, StoreInv, NEW b \in Batches, NEW m \in Manifests, NEW x, NEW v,
         item' = [item EXCEPT ![b][m] = x],
         item[b][m].pc \in {"open", "write"}, x.pc \in {"write", "latest"},
         x.run = item[b][m].run, x.part = item[b][m].part,
         v = IF x.pc = "latest" THEN "whole" ELSE "torn",
         file' = [file EXCEPT ![x.run][x.part] = v],
         UNCHANGED <<runs, about>>
  PROVE  StoreInv'
<1> DEFINE r == x.run
           q == x.part
<1>1. r \in 1..runs /\ r \in Runs /\ q \in Parts /\ runs \in Nat
  BY ItemTyped, Sizes DEF StoreInv, RunsOwned, Holding, SavingPcs, ItemRecords, TypeOK, Runs
<1>2. /\ file'[r][q] = v
      /\ \A s \in Runs, p \in Parts : s # r \/ p # q => file'[s][p] = file[s][p]
  BY <1>1 DEF TypeOK
<1>3. /\ \A p \in Earlier(q) : file[r][p] = "whole"
      /\ file[r][q] # "whole"
      /\ \A p \in Parts \ (Earlier(q) \cup {q}) : file[r][p] = "none"
  BY DEF StoreInv, SavedInOrder, InOrder, SavingPcs
<1>4. /\ item'[b][m] = x
      /\ \A c \in Batches, n \in Manifests : c # b \/ n # m => item'[c][n] = item[c][n]
  BY ItemUpdated
<1>5. \A c \in Batches, n \in Manifests :
        (c # b \/ n # m) /\ item[c][n].pc \in Holding => item[c][n].run \in Runs /\ item[c][n].run # r
  BY <1>1, Sizes DEF StoreInv, RunsDistinct, RunsOwned, Holding, SavingPcs, TypeOK, Runs
<1>6. Earlier(q) \subseteq Parts /\ q \notin Earlier(q)
      /\ (q # Summary => Summary \notin Earlier(q))
      /\ (q = Summary => Earlier(q) \cup {q} = Parts)
  BY <1>1, Sizes DEF Earlier, Parts, Arms, Summary
<1> HIDE DEF r, q
<1>7. RunsOwned' /\ RunsDistinct'
  BY OwnersKept DEF StoreInv, Holding, SavingPcs
<1>8. NotStored'
  BY <1>1, <1>2 DEF StoreInv, NotStored, Runs
<1>9. NotStoredYet'
  BY <1>2, <1>4, <1>5 DEF StoreInv, NotStoredYet, Running, Holding
<1>10. SavedInOrder'
  <2> SUFFICES ASSUME NEW c \in Batches, NEW n \in Manifests, item'[c][n].pc \in SavingPcs
               PROVE  InOrder(item[c][n])'
    BY DEF SavedInOrder
  <2>1. CASE c = b /\ n = m
    <3>1. \A p \in Parts : p # q => file'[r][p] = file[r][p]
      BY <1>1, <1>2
    <3>2. item'[c][n] = x /\ x.run = r /\ x.part = q
      BY <2>1, <1>4 DEF r, q
    <3> QED BY <3>1, <3>2, <1>1, <1>2, <1>3, <1>6 DEF InOrder
  <2>2. CASE c # b \/ n # m
    <3>1. item'[c][n] = item[c][n] /\ item[c][n].run \in Runs /\ item[c][n].run # r
      BY <2>2, <1>4, <1>5 DEF Holding
    <3>2. InOrder(item[c][n]) /\ item[c][n].part \in Parts /\ Earlier(item[c][n].part) \subseteq Parts
      BY <3>1, ItemTyped, Sizes DEF StoreInv, SavedInOrder, ItemRecords, Earlier, Parts, Arms, Summary
    <3>3. \A p \in Parts : file'[item[c][n].run][p] = file[item[c][n].run][p]
      BY <3>1, <1>2
    <3> DEFINE i == item[c][n]
    <3>4. InOrder(i) /\ i.part \in Parts /\ Earlier(i.part) \subseteq Parts
          /\ \A p \in Parts : file'[i.run][p] = file[i.run][p]
      BY <3>2, <3>3
    <3>5. item'[c][n] = i
      BY <3>1
    <3> HIDE DEF i
    <3>6. /\ \A p \in Earlier(i.part) : file'[i.run][p] = "whole"
          /\ i.pc # "latest" => file'[i.run][i.part] # "whole"
          /\ i.pc = "latest" => file'[i.run][i.part] = "whole"
          /\ \A p \in Parts \ (Earlier(i.part) \cup {i.part}) : file'[i.run][p] = "none"
      BY <3>4 DEF InOrder
    <3> QED BY <3>5, <3>6 DEF InOrder
  <2> QED BY <2>1, <2>2
<1>11. SummaryLast'
  <2> SUFFICES ASSUME NEW s \in Runs, file'[s][Summary] = "whole", about'[s].arms = Arms
               PROVE  Complete(s)'
    BY DEF SummaryLast
  <2>1. CASE s = r
    <3>1. q = Summary
      BY <2>1, <1>1, <1>2, <1>3, <1>6, PartsFact
    <3> QED BY <2>1, <3>1, <1>1, <1>2, <1>3, <1>6 DEF Complete
  <2>2. CASE s # r
    BY <2>2, <1>2, PartsFact DEF StoreInv, SummaryLast, Complete
  <2> QED BY <2>1, <2>2
<1> QED BY <1>7, <1>8, <1>9, <1>10, <1>11 DEF StoreInv

LEMMA OpenKeeps ==
  ASSUME TypeOK, StoreInv, NEW b \in Batches, NEW m \in Manifests, Open(b, m)
  PROVE  StoreInv'
<1> DEFINE x == [item[b][m] EXCEPT !.pc = "write"]
<1>1. item' = [item EXCEPT ![b][m] = x]
  BY DEF Open, Goes, TypeOK
<1>2. x.pc = "write" /\ x.run = item[b][m].run /\ x.part = item[b][m].part
  BY ItemTyped DEF ItemRecords
<1>3. item[b][m].pc = "open" /\ UNCHANGED <<runs, about>>
      /\ file' = [file EXCEPT ![item[b][m].run][item[b][m].part] = "torn"]
  BY DEF Open
<1> HIDE DEF x
<1> QED BY <1>1, <1>2, <1>3, PartKeeps

LEMMA WriteKeeps ==
  ASSUME TypeOK, StoreInv, NEW b \in Batches, NEW m \in Manifests, Write(b, m)
  PROVE  StoreInv'
<1> DEFINE x == [item[b][m] EXCEPT !.pc = "latest"]
<1>1. item' = [item EXCEPT ![b][m] = x]
  BY DEF Write, Goes, TypeOK
<1>2. x.pc = "latest" /\ x.run = item[b][m].run /\ x.part = item[b][m].part
  BY ItemTyped DEF ItemRecords
<1>3. item[b][m].pc = "write" /\ UNCHANGED <<runs, about>>
      /\ file' = [file EXCEPT ![item[b][m].run][item[b][m].part] = "whole"]
  BY DEF Write
<1> HIDE DEF x
<1> QED BY <1>1, <1>2, <1>3, PartKeeps

LEMMA WriteLatestKeeps ==
  ASSUME TypeOK, StoreInv, NEW b \in Batches, NEW m \in Manifests, WriteLatest(b, m)
  PROVE  StoreInv'
<1> DEFINE q == item[b][m].part
           x == [item[b][m] EXCEPT !.pc = IF q = Summary THEN "results" ELSE "open",
                                   !.part = IF q = Summary THEN 0 ELSE NextPart(q)]
<1>1. item' = [item EXCEPT ![b][m] = x]
  BY DEF WriteLatest, TypeOK
<1>2. /\ x.pc = IF q = Summary THEN "results" ELSE "open"
      /\ x.part = IF q = Summary THEN 0 ELSE NextPart(q)
      /\ x.run = item[b][m].run
  BY ItemTyped DEF ItemRecords
<1>3. item[b][m].pc = "latest" /\ UNCHANGED <<runs, about, file>> /\ q \in Parts
  BY ItemTyped DEF WriteLatest, ItemRecords
<1> HIDE DEF x
<1>4. CASE q = Summary
  BY <1>1, <1>2, <1>3, <1>4, Released DEF Running, SavingPcs, Holding
<1>5. CASE q # Summary
  <2>1. x.pc = "open" /\ x.part = NextPart(q) /\ q \in Arms
    BY <1>2, <1>3, <1>5 DEF Parts
  <2>2. /\ item'[b][m] = x
        /\ \A c \in Batches, n \in Manifests : c # b \/ n # m => item'[c][n] = item[c][n]
    BY ZenonT(60), <1>1, ItemUpdated
  <2>3. RunsOwned' /\ RunsDistinct'
    BY <1>1, <1>2, <1>3, OwnersKept DEF StoreInv, Holding, SavingPcs
  <2>4. NotStored' /\ SummaryLast'
    BY <1>3 DEF StoreInv, NotStored, SummaryLast, Complete
  <2>5. NotStoredYet'
    BY <1>3, <2>1, <2>2 DEF StoreInv, NotStoredYet, Running
  <2>6. InOrder(item[b][m])
    BY <1>3 DEF StoreInv, SavedInOrder, SavingPcs
  <2>7. SavedInOrder'
    <3> SUFFICES ASSUME NEW c \in Batches, NEW n \in Manifests, item'[c][n].pc \in SavingPcs
                 PROVE  InOrder(item[c][n])'
      BY DEF SavedInOrder
    <3>1. CASE c = b /\ n = m
      BY <3>1, <1>2, <1>3, <2>1, <2>2, <2>6, NextPartFact DEF InOrder
    <3>2. CASE c # b \/ n # m
      BY <3>2, <1>3, <2>2 DEF StoreInv, SavedInOrder, InOrder
    <3> QED BY <3>1, <3>2
  <2> QED BY <2>3, <2>4, <2>5, <2>7 DEF StoreInv
<1> QED BY <1>4, <1>5

\* A single-arm run takes the next id; its summary covers all arms only when there is one.
LEMMA ArmRunKeeps ==
  ASSUME TypeOK, StoreInv, NEW m \in Manifests, NEW a \in Arms, ArmRun(m, a)
  PROVE  StoreInv'
<1> DEFINE r == runs + 1
<1>1. runs \in Nat /\ r \in Runs /\ runs' = r /\ UNCHANGED item
  BY Sizes DEF ArmRun, TypeOK, Runs
<1>2. /\ \A s \in Runs \ {r} : file'[s] = file[s] /\ about'[s] = about[s]
      /\ about'[r].arms = {a}
      /\ \A p \in Parts : file'[r][p] = IF p \in {Summary, 1} THEN "whole" ELSE "none"
  BY <1>1 DEF ArmRun, TypeOK
<1>3. \A c \in Batches, n \in Manifests :
        item[c][n].pc \in Holding => item[c][n].run \in 1..runs /\ item[c][n].run \in Runs \ {r}
  BY <1>1, Sizes DEF StoreInv, RunsOwned, TypeOK, Runs
<1> HIDE DEF r
<1>4. RunsOwned' /\ RunsDistinct'
  BY <1>1, <1>3 DEF StoreInv, RunsOwned, RunsDistinct, r
<1>5. NotStored'
  BY <1>1, <1>2 DEF StoreInv, NotStored, r, Runs
<1>6. NotStoredYet'
  BY <1>1, <1>2, <1>3 DEF StoreInv, NotStoredYet, Holding
<1>7. SavedInOrder'
  BY <1>1, <1>2, <1>3 DEF StoreInv, SavedInOrder, InOrder, Holding
<1>8. SummaryLast'
  <2>1. {a} = Arms => Parts = {Summary, 1}
    BY PartsFact DEF Parts
  <2> QED BY <1>1, <1>2, <2>1, PartsFact DEF StoreInv, SummaryLast, Complete
<1> QED BY <1>4, <1>5, <1>6, <1>7, <1>8 DEF StoreInv

LEMMA StoreStep == TypeOK /\ StoreInv /\ [Next]_vars => StoreInv'
<1> SUFFICES ASSUME TypeOK, StoreInv, [Next]_vars PROVE StoreInv'
  OBVIOUS
<1>1. ASSUME NEW b \in Batches, NEW m \in Manifests, Start(b, m) PROVE StoreInv'
  <2> DEFINE x == [item[b][m] EXCEPT !.pc = IF SkipExisting THEN "list" ELSE "prepare"]
  <2>1. item' = [item EXCEPT ![b][m] = x] /\ UNCHANGED <<runs, about, file>>
    BY <1>1 DEF Start, Goes, storeVars
  <2>2. x.pc \in {"list", "prepare"}
    BY ItemTyped DEF ItemRecords
  <2> HIDE DEF x
  <2> QED BY <2>1, <2>2, Released DEF Running, SavingPcs, Holding
<1>2. ASSUME NEW b \in Batches, NEW m \in Manifests, List(b, m) PROVE StoreInv'
  <2> DEFINE x == [item[b][m] EXCEPT !.pc = "match", !.version = version, !.listed = Listed]
  <2>1. item' = [item EXCEPT ![b][m] = x] /\ UNCHANGED <<runs, about, file>>
    BY <1>2 DEF List, TypeOK, storeVars
  <2>2. x.pc = "match"
    BY ItemTyped DEF ItemRecords
  <2> HIDE DEF x
  <2> QED BY <2>1, <2>2, Released DEF Running, SavingPcs, Holding
<1>3. ASSUME NEW b \in Batches, NEW m \in Manifests, Match(b, m) PROVE StoreInv'
  <2> DEFINE x == [item[b][m] EXCEPT !.pc = "skipped", !.listed = {}]
             y == [Waiting EXCEPT !.pc = "prepare"]
  <2>1. /\ item' = [item EXCEPT ![b][m] = x] \/ item' = [item EXCEPT ![b][m] = y]
        /\ UNCHANGED <<runs, about, file>>
    BY <1>3, MatchMoves DEF Match, storeVars
  <2>2. x.pc = "skipped" /\ y.pc = "prepare"
    BY ItemTyped DEF ItemRecords, Waiting
  <2> HIDE DEF x, y
  <2> QED BY <2>1, <2>2, Released DEF Running, SavingPcs, Holding
<1>4. ASSUME NEW b \in Batches, NEW m \in Manifests, WriteResults(b, m) \/ Throws(b, m)
      PROVE  StoreInv'
  <2> DEFINE x == [Waiting EXCEPT !.pc = "done"]
             y == [Waiting EXCEPT !.pc = "error"]
  <2>1. /\ item' = [item EXCEPT ![b][m] = x] \/ item' = [item EXCEPT ![b][m] = y]
        /\ UNCHANGED <<runs, about, file>>
    BY <1>4 DEF WriteResults, Throws, Resets, storeVars
  <2>2. x.pc = "done" /\ y.pc = "error"
    BY DEF Waiting
  <2> HIDE DEF x, y
  <2> QED BY <2>1, <2>2, Released DEF Running, SavingPcs, Holding
<1>5. CASE UNCHANGED <<item, runs, about, file>>
  BY <1>5 DEF StoreInv, RunsOwned, RunsDistinct, NotStored, NotStoredYet, SavedInOrder, InOrder,
              SummaryLast, Complete
<1>6. ASSUME NEW b \in Batches, BatchReturns(b) \/ Crash(b)
      PROVE  UNCHANGED <<item, runs, about, file>>
  BY <1>6 DEF BatchReturns, Crash, storeVars
<1>7. Edit \/ UNCHANGED vars => UNCHANGED <<item, runs, about, file>>
  BY DEF Edit, vars, storeVars
<1> QED
  BY <1>1, <1>2, <1>3, <1>4, <1>5, <1>6, <1>7, PrepareKeeps, RunArmKeeps, SummariseKeeps,
     OpenKeeps, WriteKeeps, WriteLatestKeeps, ArmRunKeeps DEF Next, BatchStep, ItemStep

-------------------------------------------------------------------------------
(* The theorems. *)

LEMMA InitStored == Init => StoreInv
<1> SUFFICES ASSUME Init PROVE StoreInv
  OBVIOUS
<1>1. \A b \in Batches, m \in Manifests : item[b][m].pc = "waiting"
  BY DEF Init, Waiting
<1>2. RunsOwned /\ RunsDistinct /\ NotStoredYet /\ SavedInOrder
  BY <1>1 DEF RunsOwned, RunsDistinct, NotStoredYet, SavedInOrder, Holding, Running, SavingPcs
<1>3. NotStored /\ SummaryLast
  BY PartsFact DEF Init, NotStored, SummaryLast
<1> QED BY <1>2, <1>3 DEF StoreInv

\* An execution owns its artifacts, stores each of them once and the summary last, whatever
\* the other batches, single-arm runs and crashes do meanwhile.
THEOREM StoreCorrect == Spec => [](TypeOK /\ StoreInv)
<1>1. Init => TypeOK /\ StoreInv
  BY InitTyped, InitStored
<1>2. TypeOK /\ StoreInv /\ [Next]_vars => (TypeOK /\ StoreInv)'
  BY StepTyped, StoreStep DEF StoreInv
<1> QED BY <1>1, <1>2, PTL DEF Spec

\* Every variable keeps its type.
THEOREM TypeCorrect == Spec => []TypeOK
BY StoreCorrect, PTL

\* Most steps change neither an artifact nor what a summary says.
LEMMA QuietItemSteps ==
  ASSUME NEW b \in Batches, NEW m \in Manifests,
         \/ Start(b, m) \/ List(b, m) \/ Match(b, m) \/ Prepare(b, m) \/ RunArm(b, m)
         \/ WriteLatest(b, m) \/ WriteResults(b, m) \/ Throws(b, m)
  PROVE  UNCHANGED <<about, file>>
BY DEF Start, List, Match, Prepare, RunArm, WriteLatest, WriteResults, Throws, storeVars

LEMMA QuietSteps ==
  /\ \A b \in Batches : BatchReturns(b) \/ Crash(b) => UNCHANGED <<about, file>>
  /\ Edit \/ UNCHANGED vars => UNCHANGED <<about, file>>
BY DEF BatchReturns, Crash, Edit, vars, storeVars

LEMMA WholeStays ==
  ASSUME TypeOK, StoreInv, [Next]_vars, NEW r \in Runs, NEW p \in Parts, file[r][p] = "whole"
  PROVE  file'[r][p] = "whole"
<1>1. ASSUME NEW b \in Batches, NEW m \in Manifests, Open(b, m) PROVE file'[r][p] = "whole"
  <2>1. InOrder(item[b][m]) /\ item[b][m].pc = "open"
    BY <1>1 DEF Open, StoreInv, SavedInOrder, SavingPcs
  <2>2. r # item[b][m].run \/ p # item[b][m].part
    BY <2>1 DEF InOrder
  <2> QED BY <1>1, <2>2 DEF Open, TypeOK
<1>2. ASSUME NEW b \in Batches, NEW m \in Manifests, Write(b, m) PROVE file'[r][p] = "whole"
  BY <1>2 DEF Write, TypeOK
<1>3. ASSUME NEW m \in Manifests, NEW a \in Arms, ArmRun(m, a) PROVE file'[r][p] = "whole"
  <2>1. r # runs + 1
    BY Sizes DEF StoreInv, NotStored, TypeOK
  <2> QED BY <1>3, <2>1 DEF ArmRun, TypeOK
<1>4. ASSUME NEW b \in Batches, NEW m \in Manifests, Summarise(b, m) PROVE UNCHANGED file
  BY <1>4 DEF Summarise, storeVars
<1> QED
  BY <1>1, <1>2, <1>3, <1>4, QuietItemSteps, QuietSteps DEF Next, BatchStep, ItemStep

\* What a complete run says of itself does not change either.
LEMMA CompleteStays ==
  ASSUME TypeOK, StoreInv, [Next]_vars, NEW r \in Runs, Complete(r)
  PROVE  Complete(r)' /\ about'[r] = about[r]
<1>1. Complete(r)'
  BY WholeStays DEF Complete
<1>2. ASSUME NEW b \in Batches, NEW m \in Manifests, Summarise(b, m) PROVE about'[r] = about[r]
  <2>1. r # item[b][m].run
    BY <1>2, PartsFact DEF Summarise, StoreInv, NotStoredYet, Running, Complete
  <2> QED BY <1>2, <2>1 DEF Summarise, TypeOK
<1>3. ASSUME NEW m \in Manifests, NEW a \in Arms, ArmRun(m, a) PROVE about'[r] = about[r]
  <2>1. r # runs + 1
    BY Sizes, PartsFact DEF StoreInv, NotStored, TypeOK, Complete
  <2> QED BY <1>3, <2>1 DEF ArmRun, TypeOK
<1>4. ASSUME NEW b \in Batches, NEW m \in Manifests, Open(b, m) \/ Write(b, m)
      PROVE  UNCHANGED about
  BY <1>4 DEF Open, Write
<1> QED
  BY <1>1, <1>2, <1>3, <1>4, QuietItemSteps, QuietSteps DEF Next, BatchStep, ItemStep

\* No execution writes over the artifact of another (or over its own), with any number of
\* batches and runs.
THEOREM ArtifactsImmutable == Spec => Immutable
<1>1. TypeOK /\ StoreInv /\ [Next]_vars =>
        [\A r \in Runs, p \in Parts : file[r][p] = "whole" => file'[r][p] = "whole"]_vars
  BY WholeStays
<1> QED BY <1>1, StoreCorrect, PTL DEF Spec, Immutable

\* Only Match lets an item be skipped.
LEMMA OthersDoNotSkip ==
  ASSUME TypeOK, NEW b \in Batches, NEW m \in Manifests, ItemStep(b, m), ~Match(b, m)
  PROVE  /\ item[b][m].pc # "skipped"
         /\ item'[b][m].pc # "skipped"
         /\ \A c \in Batches, n \in Manifests : c # b \/ n # m => item'[c][n] = item[c][n]
<1> DEFINE Goal == /\ item[b][m].pc # "skipped"
                   /\ \E x : item' = [item EXCEPT ![b][m] = x] /\ x.pc # "skipped"
<1>1. ASSUME Start(b, m) PROVE Goal
  <2> DEFINE x == [item[b][m] EXCEPT !.pc = IF SkipExisting THEN "list" ELSE "prepare"]
  <2>1. item' = [item EXCEPT ![b][m] = x] /\ item[b][m].pc # "skipped"
    BY <1>1 DEF Start, Goes, TypeOK
  <2>2. x.pc # "skipped"
    BY ItemTyped DEF ItemRecords
  <2> HIDE DEF x
  <2> QED BY <2>1, <2>2
<1>2. ASSUME List(b, m) PROVE Goal
  <2> DEFINE x == [item[b][m] EXCEPT !.pc = "match", !.version = version, !.listed = Listed]
  <2>1. item' = [item EXCEPT ![b][m] = x] /\ item[b][m].pc # "skipped"
    BY <1>2 DEF List, TypeOK
  <2>2. x.pc # "skipped"
    BY ItemTyped DEF ItemRecords
  <2> HIDE DEF x
  <2> QED BY <2>1, <2>2
<1>3. ASSUME Prepare(b, m) PROVE Goal
  <2> DEFINE x == [item[b][m] EXCEPT !.pc = "arm", !.version = version, !.run = runs + 1, !.arm = 1]
  <2>1. item' = [item EXCEPT ![b][m] = x] /\ item[b][m].pc # "skipped"
    BY ZenonT(60), <1>3 DEF Prepare, TypeOK
  <2>2. x.pc # "skipped"
    BY ItemTyped DEF ItemRecords
  <2> HIDE DEF x
  <2> QED BY <2>1, <2>2
<1>4. ASSUME RunArm(b, m) PROVE Goal
  <2> DEFINE x == [item[b][m] EXCEPT !.arm = IF item[b][m].arm = NumArms THEN NumArms ELSE item[b][m].arm + 1,
                                     !.pc = IF item[b][m].arm = NumArms THEN "summarise" ELSE "arm"]
  <2>1. item' = [item EXCEPT ![b][m] = x] /\ item[b][m].pc # "skipped"
    BY <1>4 DEF RunArm, TypeOK
  <2>2. x.pc # "skipped"
    BY ItemTyped DEF ItemRecords
  <2> HIDE DEF x
  <2> QED BY <2>1, <2>2
<1>5. ASSUME Summarise(b, m) PROVE Goal
  <2> DEFINE x == [item[b][m] EXCEPT !.pc = "open", !.part = 1]
  <2>1. item' = [item EXCEPT ![b][m] = x] /\ item[b][m].pc # "skipped"
    BY <1>5 DEF Summarise, TypeOK
  <2>2. x.pc # "skipped"
    BY ItemTyped DEF ItemRecords
  <2> HIDE DEF x
  <2> QED BY <2>1, <2>2
<1>6. ASSUME Open(b, m) PROVE Goal
  <2> DEFINE x == [item[b][m] EXCEPT !.pc = "write"]
  <2>1. item' = [item EXCEPT ![b][m] = x] /\ item[b][m].pc # "skipped"
    BY <1>6 DEF Open, Goes, TypeOK
  <2>2. x.pc # "skipped"
    BY ItemTyped DEF ItemRecords
  <2> HIDE DEF x
  <2> QED BY <2>1, <2>2
<1>7. ASSUME Write(b, m) PROVE Goal
  <2> DEFINE x == [item[b][m] EXCEPT !.pc = "latest"]
  <2>1. item' = [item EXCEPT ![b][m] = x] /\ item[b][m].pc # "skipped"
    BY <1>7 DEF Write, Goes, TypeOK
  <2>2. x.pc # "skipped"
    BY ItemTyped DEF ItemRecords
  <2> HIDE DEF x
  <2> QED BY <2>1, <2>2
<1>8. ASSUME WriteLatest(b, m) PROVE Goal
  <2> DEFINE x == [item[b][m] EXCEPT !.pc = IF item[b][m].part = Summary THEN "results" ELSE "open",
                                     !.part = IF item[b][m].part = Summary THEN 0 ELSE NextPart(item[b][m].part)]
  <2>1. item' = [item EXCEPT ![b][m] = x] /\ item[b][m].pc # "skipped"
    BY <1>8 DEF WriteLatest, TypeOK
  <2>2. x.pc # "skipped"
    BY ItemTyped DEF ItemRecords
  <2> HIDE DEF x
  <2> QED BY <2>1, <2>2
<1>9. ASSUME WriteResults(b, m) PROVE Goal
  <2> DEFINE x == [Waiting EXCEPT !.pc = "done"]
  <2>1. item' = [item EXCEPT ![b][m] = x] /\ item[b][m].pc # "skipped"
    BY <1>9 DEF WriteResults, Resets, TypeOK
  <2>2. x.pc # "skipped"
    BY DEF Waiting
  <2> HIDE DEF x
  <2> QED BY <2>1, <2>2
<1>10. ASSUME Throws(b, m) PROVE Goal
  <2> DEFINE x == [Waiting EXCEPT !.pc = "error"]
  <2>1. item' = [item EXCEPT ![b][m] = x] /\ item[b][m].pc # "skipped"
    BY <1>10 DEF Throws, Resets, TypeOK
  <2>2. x.pc # "skipped"
    BY DEF Waiting
  <2> HIDE DEF x
  <2> QED BY <2>1, <2>2
<1>11. Goal
  BY <1>1, <1>2, <1>3, <1>4, <1>5, <1>6, <1>7, <1>8, <1>9, <1>10 DEF ItemStep
<1>12. PICK x : item' = [item EXCEPT ![b][m] = x] /\ x.pc # "skipped"
  BY <1>11
<1> QED BY <1>11, <1>12, ItemUpdated

LEMMA SkippedBefore ==
  ASSUME TypeOK, [Next]_vars, NEW b \in Batches, NEW m \in Manifests, item'[b][m].pc = "skipped"
  PROVE  (item[b][m].pc = "skipped" /\ item'[b][m] = item[b][m]) \/ Match(b, m)
<1>1. ASSUME NEW c \in Batches, NEW n \in Manifests, ItemStep(c, n), ~Match(c, n)
      PROVE  item'[b][m] = item[b][m]
  BY <1>1, OthersDoNotSkip
<1>2. ASSUME NEW c \in Batches, NEW n \in Manifests, Match(c, n), c # b \/ n # m
      PROVE  item'[b][m] = item[b][m]
  <2>1. PICK x : item' = [item EXCEPT ![c][n] = x]
    BY <1>2, MatchMoves
  <2> QED BY <1>2, <2>1, ItemUpdated
<1>3. ASSUME UNCHANGED item PROVE item'[b][m] = item[b][m]
  BY <1>3
<1>4. \A c \in Batches : BatchReturns(c) \/ Crash(c) => UNCHANGED item
  BY DEF BatchReturns, Crash
<1>5. ASSUME NEW n \in Manifests, NEW a \in Arms, ArmRun(n, a) PROVE UNCHANGED item
  BY <1>5 DEF ArmRun
<1>6. Edit \/ UNCHANGED vars => UNCHANGED item
  BY DEF Edit, vars
<1> QED BY <1>1, <1>2, <1>3, <1>4, <1>5, <1>6 DEF Next, BatchStep

\* A skipped item stays skipped; an item becomes skipped in a Match step that found a run.
LEMMA SkipStep ==
  ASSUME TypeOK, StoreInv, SkippedWasComplete, [Next]_vars
  PROVE  SkippedWasComplete'
<1> SUFFICES ASSUME NEW b \in Batches, NEW m \in Manifests, item'[b][m].pc = "skipped"
             PROVE  \E r \in Runs : /\ about'[r].manifest = m
                                    /\ about'[r].version = item'[b][m].version
                                    /\ about'[r].arms = Arms
                                    /\ Complete(r)'
  BY DEF SkippedWasComplete
<1>1. ASSUME NEW r \in Runs, Matches(r, m, item'[b][m].version), Complete(r)
      PROVE  /\ about'[r].manifest = m /\ about'[r].version = item'[b][m].version
             /\ about'[r].arms = Arms /\ Complete(r)'
  BY <1>1, CompleteStays DEF Matches, Names
<1>2. (item[b][m].pc = "skipped" /\ item'[b][m] = item[b][m]) \/ Match(b, m)
  BY SkippedBefore
<1>3. CASE item[b][m].pc = "skipped" /\ item'[b][m] = item[b][m]
  BY <1>1, <1>3 DEF SkippedWasComplete, Matches, Names
<1>4. CASE Match(b, m)
  <2>1. item[b][m].listed \subseteq Runs
    BY ItemTyped DEF ItemRecords
  <2> DEFINE x == [item[b][m] EXCEPT !.pc = "skipped", !.listed = {}]
             y == [Waiting EXCEPT !.pc = "prepare"]
  <2>2. x.version = item[b][m].version /\ y.pc # "skipped"
    BY ItemTyped DEF ItemRecords, Waiting
  <2>3. \/ /\ item' = [item EXCEPT ![b][m] = x]
           /\ \E r \in item[b][m].listed :
                file[r][Summary] = "whole" /\ Matches(r, m, item[b][m].version)
        \/ item' = [item EXCEPT ![b][m] = y]
    BY <1>4, MatchMoves
  <2> HIDE DEF x, y
  <2>31. item' # [item EXCEPT ![b][m] = y]
    BY <2>2, ItemUpdated
  <2>4. item'[b][m] = x
    BY <2>3, <2>31, ItemUpdated
  <2>5. PICK r \in item[b][m].listed : file[r][Summary] = "whole" /\ Matches(r, m, item[b][m].version)
    BY <2>3, <2>31
  <2>6. Complete(r)
    BY <2>1, <2>5 DEF StoreInv, SummaryLast, Matches
  <2> QED BY <1>1, <2>1, <2>2, <2>4, <2>5, <2>6
<1> QED BY <1>2, <1>3, <1>4

\* What a batch skips was run with all its arms, in the version the batch looked at, and
\* can be loaded: for any number of batches, manifests, arms and workers.
THEOREM SkipsOnlyComplete == Spec => []SkippedWasComplete
<1>1. Init => SkippedWasComplete
  BY DEF Init, Waiting, SkippedWasComplete
<1>2. TypeOK /\ StoreInv /\ SkippedWasComplete /\ [Next]_vars => SkippedWasComplete'
  BY SkipStep
<1> QED BY <1>1, <1>2, StoreCorrect, PTL DEF Spec

LatestInv == \A k \in Kinds :
  latest[k] # NoArtifact =>
    latest[k].run \in Runs /\ file[latest[k].run][latest[k].part] = "whole"

LEMMA LatestStep ==
  ASSUME TypeOK, StoreInv, LatestInv, [Next]_vars
  PROVE  LatestInv'
<1>1. ASSUME NEW b \in Batches, NEW m \in Manifests, WriteLatest(b, m) PROVE LatestInv'
  <2>1. item[b][m].run \in Runs /\ file[item[b][m].run][item[b][m].part] = "whole"
    BY <1>1, Sizes DEF WriteLatest, StoreInv, RunsOwned, SavedInOrder, InOrder, SavingPcs, Holding,
                       TypeOK, Runs
  <2> QED BY <1>1, <2>1 DEF WriteLatest, LatestInv, TypeOK
<1>2. ASSUME UNCHANGED latest PROVE LatestInv'
  <2>1. \A k \in Kinds : latest[k].part \in Parts
    BY DEF TypeOK
  <2>2. \A r \in Runs, p \in Parts : file[r][p] = "whole" => file'[r][p] = "whole"
    BY WholeStays
  <2> QED BY <1>2, <2>1, <2>2 DEF LatestInv
<1>3. ASSUME NEW b \in Batches, NEW m \in Manifests, ItemStep(b, m), ~WriteLatest(b, m)
      PROVE  UNCHANGED latest
  BY <1>3 DEF ItemStep, Start, List, Match, Prepare, RunArm, Summarise, Open, Write,
              WriteResults, Throws, storeVars
<1>4. \A b \in Batches : BatchReturns(b) \/ Crash(b) => UNCHANGED latest
  BY DEF BatchReturns, Crash, storeVars
<1>5. ASSUME NEW m \in Manifests, NEW a \in Arms, ArmRun(m, a) PROVE UNCHANGED latest
  BY <1>5 DEF ArmRun
<1>6. Edit \/ UNCHANGED vars => UNCHANGED latest
  BY DEF Edit, vars, storeVars
<1> QED BY <1>1, <1>2, <1>3, <1>4, <1>5, <1>6 DEF Next, BatchStep

\* latest.json never names an artifact that cannot be loaded by its id.
THEOREM LatestCorrect == Spec => []LatestIsStored
<1>1. Init => LatestInv
  BY DEF Init, LatestInv
<1>2. TypeOK /\ StoreInv /\ LatestInv /\ [Next]_vars => LatestInv'
  BY LatestStep
<1>3. LatestInv => LatestIsStored
  BY DEF LatestInv, LatestIsStored
<1> QED BY <1>1, <1>2, <1>3, StoreCorrect, PTL DEF Spec
===============================================================================
