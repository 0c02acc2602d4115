---------------------------- MODULE Evaluations_proofs ----------------------------
(***************************************************************************)
(* Proofs about eight of the components of MCEvaluations, each with the    *)
(* other parts of the run at rest: CaseRun, Plugins, ResultStore,          *)
(* Expectations with its judges and the search of ToolCalls,               *)
(* ServerComparison, VariantExperiment, Metrics and Datasets.  Each has an *)
(* inductive invariant of its own, which EvaluationsInv puts together.     *)
(***************************************************************************)
EXTENDS MCEvaluations, SequenceTheorems, FiniteSetTheorems, FunctionTheorems, WellFoundedInduction, TLAPS

-------------------------------------------------------------------------------
(* The modules of the run count alike. *)
LEMMA SameCounts ==
  \A T : /\ L!Cardinality(T) = Cardinality(T) /\ S!Cardinality(T) = Cardinality(T)
         /\ C!Cardinality(T) = Cardinality(T) /\ V!Cardinality(T) = Cardinality(T)
         /\ M!Cardinality(T) = Cardinality(T)
BY DEF L!Cardinality, S!Cardinality, C!Cardinality, V!Cardinality, M!Cardinality, Cardinality

-------------------------------------------------------------------------------
(* Plugins: the one load of an entry that is not rejected, and what its hook has       *)
(* registered.                                                                         *)

LoadStates == {"queued", "hook", "resolved", "rejected"}
Loads == [entry : L!Entries, state : LoadStates, next : Nat \ {0}]

PluginsTypeOK ==
  /\ registry = [n \in L!Registered |-> registry[n]]
  /\ DOMAIN modules = L!Entries
  /\ pluginLoads = [e \in L!Entries |-> pluginLoads[e]]
  /\ loads \in Seq(Loads)
  /\ callers \in [L!Callers -> [at : {"next", "created", "joined", "failed"}, load : Nat,
                                rest : Seq(L!Entries)]]

\* What pluginLoads has of an entry is a load of that entry.
Points ==
  \A e \in L!Entries : pluginLoads[e] # L!None =>
    \E i \in DOMAIN loads : pluginLoads[e] = <<i>> /\ loads[i].entry = e

\* A load that is not rejected is the one pluginLoads has.
Known ==
  \A i \in DOMAIN loads : loads[i].state # "rejected" => pluginLoads[loads[i].entry] = <<i>>

\* A caller that waits does so for a load of the plugin that is next.
Awaits ==
  \A c \in L!Callers : callers[c].at \in {"created", "joined"} =>
    /\ callers[c].load \in DOMAIN loads
    /\ callers[c].rest # <<>> /\ loads[callers[c].load].entry = Head(callers[c].rest)

\* What is left of a plan is the end of it, and what is not has been loaded.
Remains ==
  \A c \in L!Callers :
    /\ Len(callers[c].rest) <= Len(Plans[c])
    /\ \A k \in DOMAIN callers[c].rest :
         callers[c].rest[k] = Plans[c][Len(Plans[c]) - Len(callers[c].rest) + k]
Told ==
  \A c \in L!Callers : \A e \in L!Done(c) :
    \E i \in DOMAIN loads : loads[i].entry = e /\ loads[i].state = "resolved"

\* The name is registered by this entry.
OwnedBy(name, e) == registry[name] # L!None /\ registry[name][1].owner = e

\* A hook has registered the names it went past; one that returned, all of them.
HookRegistered ==
  \A i \in DOMAIN loads : loads[i].state \in {"hook", "resolved"} =>
    \A k \in DOMAIN Hooks[loads[i].entry] :
      loads[i].state = "resolved" \/ k < loads[i].next => OwnedBy(Hooks[loads[i].entry][k], loads[i].entry)

QueuedAtStart == \A i \in DOMAIN loads : loads[i].state = "queued" => loads[i].next = 1

PluginsInv ==
  /\ PluginsTypeOK /\ Points /\ Known /\ Awaits /\ Remains /\ Told
  /\ HookRegistered /\ QueuedAtStart

\* The names of a hook are registered names.
LEMMA HookNames ==
  ASSUME NEW e \in L!Entries, NEW k \in DOMAIN Hooks[e]
  PROVE  Hooks[e][k] \in L!Registered
BY DEF L!Registered, L!Entries

\* Every load is one of a known entry.
LEMMA LoadTypes ==
  ASSUME PluginsTypeOK, NEW i \in DOMAIN loads
  PROVE  loads[i] \in Loads /\ loads[i].entry \in L!Entries /\ loads[i].state \in LoadStates
<1>1. loads \in Seq(Loads) /\ i \in 1..Len(loads)
  BY LenProperties DEF PluginsTypeOK
<1>2. loads[i] \in Loads
  BY <1>1, ElementOfSeq
<1> QED
  BY <1>2 DEF Loads

\* A load keeps its entry, and its outcome once it has one.
Grows ==
  \A i \in DOMAIN loads :
    /\ i \in DOMAIN loads' /\ loads'[i].entry = loads[i].entry
    /\ loads[i].state \in {"resolved", "rejected"} => loads'[i].state = loads[i].state

\* A step changes the state or the position of one load at most.
Moves(i) ==
  /\ DOMAIN loads' = DOMAIN loads
  /\ loads'[i].entry = loads[i].entry
  /\ \A j \in DOMAIN loads : j # i => loads'[j] = loads[j]

\* Setting the state or the position of a load.
LEMMA LoadSet ==
  ASSUME PluginsTypeOK, NEW i \in DOMAIN loads, NEW s \in LoadStates, NEW n \in Nat \ {0},
         loads' = [loads EXCEPT ![i].state = s] \/ (loads' = [loads EXCEPT ![i].next = n] /\ s = loads[i].state)
  PROVE  /\ Moves(i) /\ loads'[i].state = s
         /\ loads'[i].next \in {loads[i].next, n}
         /\ loads' \in Seq(Loads)
<1>1. loads \in Seq(Loads) /\ i \in 1..Len(loads)
  BY LenProperties DEF PluginsTypeOK
<1>0. loads[i] \in Loads
  BY <1>1, ElementOfSeq
<1>2. PICK load \in Loads : loads' = [loads EXCEPT ![i] = load] /\ load.entry = loads[i].entry /\ load.state = s
                            /\ load.next \in {loads[i].next, n}
  <2>1. CASE loads' = [loads EXCEPT ![i].state = s]
    <3>1. [loads[i] EXCEPT !.state = s] \in Loads
      BY <1>0 DEF Loads
    <3> QED
      BY <1>0, <1>1, <2>1, <3>1 DEF Loads
  <2>2. CASE loads' = [loads EXCEPT ![i].next = n] /\ s = loads[i].state
    <3>1. [loads[i] EXCEPT !.next = n] \in Loads
      BY <1>0 DEF Loads
    <3> QED
      BY <1>0, <1>1, <2>2, <3>1 DEF Loads
  <2> QED
    BY <2>1, <2>2
<1>3. loads' \in Seq(Loads) /\ DOMAIN loads' = DOMAIN loads
  BY <1>1, <1>2, ExceptSeq
<1>4. loads'[i] = load /\ \A j \in DOMAIN loads : j # i => loads'[j] = loads[j]
  BY <1>1, <1>2
<1> QED
  BY <1>2, <1>3, <1>4 DEF Moves

\* A load that is added.
LEMMA LoadAdded ==
  ASSUME PluginsTypeOK, NEW e \in L!Entries,
         loads' = Append(loads, [entry |-> e, state |-> "queued", next |-> 1])
  PROVE  /\ loads' \in Seq(Loads) /\ DOMAIN loads' = DOMAIN loads \cup {Len(loads) + 1}
         /\ loads'[Len(loads) + 1].next = 1
         /\ Len(loads) + 1 \notin DOMAIN loads /\ Len(loads) + 1 \in Nat
         /\ \A i \in DOMAIN loads : loads'[i] = loads[i]
         /\ loads'[Len(loads) + 1].entry = e /\ loads'[Len(loads) + 1].state = "queued"
<1> DEFINE load == [entry |-> e, state |-> "queued", next |-> 1]
<1>1. load \in Loads /\ load.entry = e /\ load.state = "queued" /\ load.next = 1
  BY DEF Loads, LoadStates
<1> HIDE DEF load
<1>2. loads \in Seq(Loads) /\ loads' = Append(loads, load)
  BY DEF PluginsTypeOK, load
<1>3. Len(loads) \in Nat /\ DOMAIN loads = 1..Len(loads)
  BY <1>2, LenProperties
<1>4. loads' \in Seq(Loads) /\ Len(loads') = Len(loads) + 1 /\ loads'[Len(loads) + 1] = load
      /\ \A i \in 1..Len(loads) : loads'[i] = loads[i]
  BY <1>1, <1>2, AppendProperties
<1>5. DOMAIN loads' = 1..(Len(loads) + 1)
  BY <1>4, LenProperties
<1> QED
  BY <1>1, <1>3, <1>4, <1>5

\* A caller that goes on has one plugin less, or failed.
LEMMA CallerTypes ==
  ASSUME PluginsTypeOK, Awaits, NEW c \in L!Callers, callers[c].at \in {"created", "joined"}, L!Continue(c)
  PROVE  /\ callers' \in [L!Callers -> [at : {"next", "created", "joined", "failed"}, load : Nat,
                                       rest : Seq(L!Entries)]]
         /\ \A d \in L!Callers : d # c => callers'[d] = callers[d]
         /\ callers'[c].at \in {"next", "failed"}
         /\ IF loads[callers[c].load].state = "resolved" THEN callers'[c].rest = Tail(callers[c].rest)
            ELSE callers'[c].rest = callers[c].rest
<1> DEFINE Record == [at : {"next", "created", "joined", "failed"}, load : Nat, rest : Seq(L!Entries)]
<1>1. callers \in [L!Callers -> Record] /\ callers[c] \in Record
  BY DEF PluginsTypeOK
<1>2. callers[c].rest \in Seq(L!Entries) /\ callers[c].rest # <<>> /\ callers[c].load \in Nat
  BY <1>1 DEF Awaits
<1>3. Tail(callers[c].rest) \in Seq(L!Entries)
  BY <1>2, HeadTailProperties
<1>4. CASE loads[callers[c].load].state = "resolved"
  <2> DEFINE record == [at |-> "next", load |-> 0, rest |-> Tail(callers[c].rest)]
  <2>1. record \in Record /\ record.at = "next" /\ record.rest = Tail(callers[c].rest)
    BY <1>3
  <2>2. callers' = [callers EXCEPT ![c] = record]
    BY <1>4 DEF L!Continue
  <2> HIDE DEF record, Record
  <2>3. callers' \in [L!Callers -> Record] /\ callers'[c] = record
        /\ \A d \in L!Callers : d # c => callers'[d] = callers[d]
    BY <1>1, <2>1, <2>2
  <2> QED
    BY <1>4, <2>1, <2>3 DEF Record
<1>5. CASE loads[callers[c].load].state # "resolved"
  <2> DEFINE record == [callers[c] EXCEPT !.at = "failed"]
  <2>1. record \in Record /\ record.at = "failed" /\ record.rest = callers[c].rest
    BY <1>1
  <2>2. callers' = [callers EXCEPT ![c] = record]
    BY <1>5 DEF L!Continue
  <2> HIDE DEF record, Record
  <2>3. callers' \in [L!Callers -> Record] /\ callers'[c] = record
        /\ \A d \in L!Callers : d # c => callers'[d] = callers[d]
    BY <1>1, <2>1, <2>2
  <2> QED
    BY <1>5, <2>1, <2>3 DEF Record
<1> QED
  BY <1>4, <1>5

\* A caller to whom pluginLoads has a load, or who adds one.
LEMMA LoadEffect ==
  ASSUME PluginsTypeOK, Points, NEW c \in L!Callers, L!Load(c)
  PROVE  /\ callers[c].at = "next" /\ callers[c].rest # <<>>
         /\ Head(callers[c].rest) \in L!Entries
         /\ \E k \in Nat, at \in {"joined", "created"} :
              /\ callers' = [callers EXCEPT ![c].at = at, ![c].load = k]
              /\ \/ /\ at = "joined" /\ k \in DOMAIN loads /\ loads[k].entry = Head(callers[c].rest)
                    /\ UNCHANGED <<pluginLoads, loads>>
                 \/ /\ at = "created" /\ pluginLoads[Head(callers[c].rest)] = L!None /\ k = Len(loads) + 1
                    /\ loads' = Append(loads, [entry |-> Head(callers[c].rest), state |-> "queued", next |-> 1])
                    /\ pluginLoads' = [pluginLoads EXCEPT ![Head(callers[c].rest)] = <<k>>]
         /\ UNCHANGED <<registry, modules, builtins>>
<1> DEFINE entry == Head(callers[c].rest)
<1>1. callers[c].at = "next" /\ callers[c].rest # <<>> /\ callers[c].rest \in Seq(L!Entries)
  BY DEF L!Load, PluginsTypeOK
<1>2. entry \in L!Entries
  BY <1>1, HeadTailProperties
<1>3. Len(loads) + 1 \in Nat /\ DOMAIN loads \subseteq Nat
  BY LenProperties DEF PluginsTypeOK
<1>4. CASE pluginLoads[entry] # L!None
  <2>1. PICK i \in DOMAIN loads : pluginLoads[entry] = <<i>> /\ loads[i].entry = entry
    BY <1>2, <1>4 DEF Points
  <2>2. callers' = [callers EXCEPT ![c].at = "joined", ![c].load = i] /\ UNCHANGED <<pluginLoads, loads>>
    BY <1>4, <2>1 DEF L!Load
  <2> QED
    BY <1>1, <1>2, <1>3, <2>1, <2>2 DEF L!Load
<1>5. CASE pluginLoads[entry] = L!None
  <2>1. /\ loads' = Append(loads, [entry |-> entry, state |-> "queued", next |-> 1])
        /\ pluginLoads' = [pluginLoads EXCEPT ![entry] = <<Len(loads) + 1>>]
        /\ callers' = [callers EXCEPT ![c].at = "created", ![c].load = Len(loads) + 1]
    BY <1>5 DEF L!Load
  <2> QED
    BY <1>1, <1>2, <1>3, <1>5, <2>1 DEF L!Load
<1> QED
  BY <1>4, <1>5

\* What the steps of a load do to it.
LEMMA PromiseEffect ==
  ASSUME PluginsTypeOK, NEW i \in DOMAIN loads, L!Import(i) \/ L!Hook(i) \/ L!HookThrows(i)
  PROVE  /\ loads[i].state \in {"queued", "hook"}
         /\ loads' \in Seq(Loads) /\ Moves(i)
         /\ UNCHANGED <<pluginLoads, callers, builtins>>
<1>1. loads[i].next \in Nat \ {0} /\ loads[i].next + 1 \in Nat \ {0} /\ loads[i].state \in LoadStates
  <2>1. loads \in Seq(Loads) /\ i \in 1..Len(loads)
    BY LenProperties DEF PluginsTypeOK
  <2>2. loads[i] \in Loads
    BY <2>1, ElementOfSeq
  <2> QED
    BY <2>2 DEF Loads
<1>2. loads[i].state \in {"queued", "hook"} /\ UNCHANGED <<pluginLoads, callers, builtins>>
  BY DEF L!Import, L!Hook, L!HookThrows
<1>3. \/ \E s \in LoadStates : loads' = [loads EXCEPT ![i].state = s]
      \/ loads' = [loads EXCEPT ![i].next = loads[i].next + 1]
  <2>1. CASE L!Import(i)
    <3>1. L!SetState(i, "hook") \/ L!SetState(i, "rejected")
      BY <2>1 DEF L!Import
    <3> QED
      BY <3>1 DEF L!SetState, LoadStates
  <2>2. CASE L!Hook(i)
    <3>1. L!SetState(i, "resolved") \/ L!SetState(i, "rejected") \/ loads' = [loads EXCEPT ![i].next = @ + 1]
      BY <2>2 DEF L!Hook
    <3> QED
      BY <3>1 DEF L!SetState, LoadStates
  <2>3. CASE L!HookThrows(i)
    BY <2>3 DEF L!HookThrows, L!SetState, LoadStates
  <2> QED
    BY <2>1, <2>2, <2>3
<1>4. CASE \E s \in LoadStates : loads' = [loads EXCEPT ![i].state = s]
  BY <1>1, <1>2, <1>4, LoadSet
<1>5. CASE loads' = [loads EXCEPT ![i].next = loads[i].next + 1]
  BY <1>1, <1>2, <1>5, LoadSet
<1> QED
  BY <1>3, <1>4, <1>5

\* The steps keep the types, and the loads what they are.
LEMMA PluginsTypes ==
  ASSUME PluginsInv, L!Next
  PROVE  PluginsTypeOK' /\ Grows
<1> USE DEF PluginsInv
<1>1. ASSUME NEW c \in L!Callers, L!NotFound(c) \/ L!CallsAgain(c)
      PROVE  PluginsTypeOK' /\ Grows
  <2>1. Plans[c] \in Seq(L!Entries)
    BY PluginsAssumption DEF L!Callers, L!Entries
  <2>2. callers' \in [L!Callers -> [at : {"next", "created", "joined", "failed"}, load : Nat,
                                    rest : Seq(L!Entries)]]
    <3>1. CASE L!NotFound(c)
      BY <3>1 DEF PluginsTypeOK, L!NotFound
    <3>2. CASE L!CallsAgain(c)
      BY <2>1, <3>2 DEF PluginsTypeOK, L!CallsAgain
    <3> QED
      BY <1>1, <3>1, <3>2
  <2> QED
    BY <1>1, <2>2 DEF PluginsTypeOK, L!NotFound, L!CallsAgain, Grows
<1>2. ASSUME NEW c \in L!Callers, L!Load(c)
      PROVE  PluginsTypeOK' /\ Grows
  <2>1. PICK k \in Nat, at \in {"joined", "created"} :
          /\ callers' = [callers EXCEPT ![c].at = at, ![c].load = k]
          /\ \/ UNCHANGED <<pluginLoads, loads>>
             \/ /\ loads' = Append(loads, [entry |-> Head(callers[c].rest), state |-> "queued", next |-> 1])
                /\ pluginLoads' = [pluginLoads EXCEPT ![Head(callers[c].rest)] = <<k>>]
    BY <1>2, LoadEffect
  <2>2. Head(callers[c].rest) \in L!Entries /\ UNCHANGED <<registry, modules, builtins>>
    BY <1>2, LoadEffect
  <2>3. callers' \in [L!Callers -> [at : {"next", "created", "joined", "failed"}, load : Nat,
                                    rest : Seq(L!Entries)]]
    BY <2>1 DEF PluginsTypeOK
  <2>4. loads' \in Seq(Loads) /\ Grows
    BY <2>1, <2>2, LoadAdded DEF PluginsTypeOK, Grows
  <2> QED
    BY <2>1, <2>2, <2>3, <2>4 DEF PluginsTypeOK
<1>3. ASSUME NEW c \in L!Callers, L!CreatorContinues(c) \/ L!JoinedContinues(c)
      PROVE  PluginsTypeOK' /\ Grows
  <2>1. L!Continue(c) /\ callers[c].at \in {"created", "joined"} /\ UNCHANGED <<registry, modules, loads>>
    BY <1>3 DEF L!CreatorContinues, L!JoinedContinues
  <2>2. pluginLoads' = pluginLoads \/ \E e : pluginLoads' = [pluginLoads EXCEPT ![e] = L!None]
    BY <1>3 DEF L!CreatorContinues, L!JoinedContinues
  <2> QED
    BY <2>1, <2>2, CallerTypes DEF PluginsTypeOK, Grows
<1>4. ASSUME NEW i \in DOMAIN loads, L!Import(i) \/ L!Hook(i) \/ L!HookThrows(i)
      PROVE  PluginsTypeOK' /\ Grows
  <2>1. loads' \in Seq(Loads) /\ Moves(i) /\ loads[i].state \in {"queued", "hook"}
        /\ UNCHANGED <<pluginLoads, callers>>
    BY <1>4, PromiseEffect
  <2>2. DOMAIN modules' = L!Entries
    BY <1>4 DEF L!Import, L!Hook, L!HookThrows, PluginsTypeOK
  <2>3. registry' = registry \/ \E n, o : registry' = [registry EXCEPT ![n] = o]
    BY <1>4 DEF L!Import, L!Hook, L!HookThrows
  <2>4. Grows
    BY <2>1 DEF Moves, Grows
  <2> QED
    BY <2>1, <2>2, <2>3, <2>4 DEF PluginsTypeOK
<1>5. CASE L!RegisterBuiltins
  BY <1>5 DEF PluginsTypeOK, Grows, L!RegisterBuiltins
<1> QED
  BY <1>1, <1>2, <1>3, <1>4, <1>5 DEF L!Next

\* A step leaves pluginLoads and the loads alone, moves one load, adds one, or forgets one
\* that was rejected.
LEMMA PluginsSteps ==
  ASSUME PluginsInv, L!Next
  PROVE  \/ UNCHANGED <<pluginLoads, loads>>
         \/ UNCHANGED pluginLoads /\ \E i \in DOMAIN loads : Moves(i) /\ loads[i].state \in {"queued", "hook"}
         \/ \E e \in L!Entries :
              /\ pluginLoads[e] = L!None
              /\ loads' = Append(loads, [entry |-> e, state |-> "queued", next |-> 1])
              /\ pluginLoads' = [pluginLoads EXCEPT ![e] = <<Len(loads) + 1>>]
         \/ /\ UNCHANGED loads
            /\ \E i \in DOMAIN loads : /\ loads[i].state = "rejected" /\ pluginLoads[loads[i].entry] = <<i>>
                                       /\ pluginLoads' = [pluginLoads EXCEPT ![loads[i].entry] = L!None]
<1> USE DEF PluginsInv
<1>1. ASSUME NEW c \in L!Callers, L!NotFound(c) \/ L!CallsAgain(c) \/ L!JoinedContinues(c)
      PROVE  UNCHANGED <<pluginLoads, loads>>
  BY <1>1 DEF L!NotFound, L!CallsAgain, L!JoinedContinues
<1>2. ASSUME NEW c \in L!Callers, L!Load(c)
      PROVE  \/ UNCHANGED <<pluginLoads, loads>>
             \/ \E e \in L!Entries :
                  /\ pluginLoads[e] = L!None
                  /\ loads' = Append(loads, [entry |-> e, state |-> "queued", next |-> 1])
                  /\ pluginLoads' = [pluginLoads EXCEPT ![e] = <<Len(loads) + 1>>]
  BY <1>2, LoadEffect
<1>3. ASSUME NEW c \in L!Callers, L!CreatorContinues(c)
      PROVE  /\ UNCHANGED loads
             /\ \/ UNCHANGED pluginLoads
                \/ \E i \in DOMAIN loads :
                     /\ loads[i].state = "rejected" /\ pluginLoads[loads[i].entry] = <<i>>
                     /\ pluginLoads' = [pluginLoads EXCEPT ![loads[i].entry] = L!None]
  <2>1. callers[c].load \in DOMAIN loads
    BY <1>3 DEF L!CreatorContinues, Awaits
  <2> QED
    BY <1>3, <2>1 DEF L!CreatorContinues
<1>4. ASSUME NEW i \in DOMAIN loads, L!Import(i) \/ L!Hook(i) \/ L!HookThrows(i)
      PROVE  Moves(i) /\ loads[i].state \in {"queued", "hook"} /\ UNCHANGED pluginLoads
  BY <1>4, PromiseEffect
<1>5. CASE L!RegisterBuiltins
  BY <1>5 DEF L!RegisterBuiltins
<1> QED
  BY <1>1, <1>2, <1>3, <1>4, <1>5 DEF L!Next

\* An entry has one load that is not rejected, whatever is added or forgotten.
LEMMA OneLoad ==
  ASSUME PluginsInv, L!Next
  PROVE  Points' /\ Known'
<1> USE DEF PluginsInv
<1>0. PluginsTypeOK' /\ Grows
  BY PluginsTypes
<1>1. CASE UNCHANGED <<pluginLoads, loads>>
  BY <1>1 DEF Points, Known
<1>2. ASSUME NEW i \in DOMAIN loads, Moves(i), loads[i].state \in {"queued", "hook"}, UNCHANGED pluginLoads
      PROVE  Points' /\ Known'
  <2>1. DOMAIN loads' = DOMAIN loads /\ \A j \in DOMAIN loads : loads'[j].entry = loads[j].entry
    BY <1>2 DEF Moves
  <2>2. \A j \in DOMAIN loads : loads'[j].state # "rejected" => loads[j].state # "rejected"
    BY <1>2 DEF Moves
  <2> QED
    BY <1>2, <2>1, <2>2 DEF Points, Known
<1>3. ASSUME NEW e \in L!Entries, pluginLoads[e] = L!None,
             loads' = Append(loads, [entry |-> e, state |-> "queued", next |-> 1]),
             pluginLoads' = [pluginLoads EXCEPT ![e] = <<Len(loads) + 1>>]
      PROVE  Points' /\ Known'
  <2> DEFINE new == Len(loads) + 1
  <2>1. /\ DOMAIN loads' = DOMAIN loads \cup {new} /\ new \notin DOMAIN loads
        /\ \A i \in DOMAIN loads : loads'[i] = loads[i]
        /\ loads'[new].entry = e
    BY <1>3, LoadAdded
  <2>2. /\ pluginLoads'[e] = <<new>>
        /\ \A f \in L!Entries : f # e => pluginLoads'[f] = pluginLoads[f]
    BY <1>3 DEF PluginsTypeOK
  <2> HIDE DEF new
  <2>3. \A i \in DOMAIN loads : loads[i].entry \in L!Entries
    BY LoadTypes
  <2>4. Points'
    BY <2>1, <2>2 DEF Points
  <2>5. ASSUME NEW i \in DOMAIN loads, loads[i].state # "rejected"
        PROVE  loads[i].entry # e
    BY <1>3, <2>5 DEF Known, L!None
  <2> QED
    BY <2>1, <2>2, <2>3, <2>4, <2>5 DEF Known
<1>4. ASSUME NEW i \in DOMAIN loads, loads[i].state = "rejected", pluginLoads[loads[i].entry] = <<i>>,
             pluginLoads' = [pluginLoads EXCEPT ![loads[i].entry] = L!None], UNCHANGED loads
      PROVE  Points' /\ Known'
  <2>1. \A f \in L!Entries : \/ f = loads[i].entry /\ pluginLoads'[f] = L!None
                             \/ f # loads[i].entry /\ pluginLoads'[f] = pluginLoads[f]
    BY <1>4 DEF PluginsTypeOK
  <2>2. \A j \in DOMAIN loads : loads[j].entry \in L!Entries
    BY LoadTypes
  <2>3. \A j \in DOMAIN loads : loads[j].state # "rejected" => loads[j].entry # loads[i].entry
    BY <1>4 DEF Known
  <2>4. Points'
    BY <1>4, <2>1 DEF Points
  <2>5. Known'
    BY <1>4, <2>1, <2>2, <2>3 DEF Known
  <2> QED
    BY <2>4, <2>5
<1> QED
  BY <1>1, <1>2, <1>3, <1>4, PluginsSteps

\* A caller stays, begins its plan again, waits for the plugin that is next, or is past it.
CallerSteps(c) ==
  \/ callers'[c] = callers[c]
  \/ callers'[c].at \in {"next", "failed"} /\ callers'[c].rest \in {callers[c].rest, Plans[c]}
  \/ /\ callers[c].rest # <<>> /\ callers'[c].rest = callers[c].rest
     /\ callers'[c].load \in DOMAIN loads' /\ loads'[callers'[c].load].entry = Head(callers[c].rest)
  \/ /\ callers[c].rest # <<>> /\ callers'[c].rest = Tail(callers[c].rest) /\ callers'[c].at = "next"
     /\ \E i \in DOMAIN loads : loads[i].entry = Head(callers[c].rest) /\ loads[i].state = "resolved"

LEMMA EachCaller ==
  ASSUME PluginsInv, L!Next, NEW c \in L!Callers
  PROVE  CallerSteps(c)
<1> USE DEF PluginsInv
<1>0. callers[c] \in [at : {"next", "created", "joined", "failed"}, load : Nat, rest : Seq(L!Entries)]
  BY DEF PluginsTypeOK
<1>1. ASSUME NEW d \in L!Callers, L!NotFound(d) \/ L!CallsAgain(d)
      PROVE  CallerSteps(c)
  <2>1. CASE L!NotFound(d)
    <3>1. callers'[c] = callers[c] \/ (callers'[c].at = "failed" /\ callers'[c].rest = callers[c].rest)
      BY <1>0, <2>1 DEF PluginsTypeOK, L!NotFound
    <3> QED
      BY <3>1 DEF CallerSteps
  <2>2. CASE L!CallsAgain(d)
    <3>1. callers'[c] = callers[c] \/ (callers'[c].at = "next" /\ callers'[c].rest = Plans[c])
      BY <1>0, <2>2 DEF PluginsTypeOK, L!CallsAgain
    <3> QED
      BY <3>1 DEF CallerSteps
  <2> QED
    BY <1>1, <2>1, <2>2
<1>2. ASSUME NEW d \in L!Callers, L!Load(d)
      PROVE  CallerSteps(c)
  <2>1. CASE c # d
    BY <1>2, <2>1 DEF L!Load, PluginsTypeOK, CallerSteps
  <2>2. CASE c = d
    <3>1. PICK k \in Nat, at \in {"joined", "created"} :
            /\ callers' = [callers EXCEPT ![c].at = at, ![c].load = k]
            /\ \/ /\ k \in DOMAIN loads /\ loads[k].entry = Head(callers[c].rest)
                  /\ UNCHANGED <<pluginLoads, loads>>
               \/ /\ k = Len(loads) + 1
                  /\ loads' = Append(loads, [entry |-> Head(callers[c].rest), state |-> "queued", next |-> 1])
      BY <1>2, <2>2, LoadEffect
    <3>2. callers[c].rest # <<>> /\ Head(callers[c].rest) \in L!Entries
      BY <1>2, <2>2, LoadEffect
    <3>3. k \in DOMAIN loads' /\ loads'[k].entry = Head(callers[c].rest)
      BY <3>1, <3>2, LoadAdded
    <3>4. callers'[c].load = k /\ callers'[c].rest = callers[c].rest
      BY <1>0, <3>1 DEF PluginsTypeOK
    <3> QED
      BY <3>2, <3>3, <3>4 DEF CallerSteps
  <2> QED
    BY <2>1, <2>2
<1>3. ASSUME NEW d \in L!Callers, L!CreatorContinues(d) \/ L!JoinedContinues(d)
      PROVE  CallerSteps(c)
  <2>1. L!Continue(d) /\ callers[d].at \in {"created", "joined"}
    BY <1>3 DEF L!CreatorContinues, L!JoinedContinues
  <2>2. CASE c # d
    BY <2>1, <2>2, CallerTypes DEF CallerSteps
  <2>3. CASE c = d
    <3>1. callers[c].load \in DOMAIN loads /\ callers[c].rest # <<>>
          /\ loads[callers[c].load].entry = Head(callers[c].rest)
      BY <2>1, <2>3 DEF Awaits
    <3>2. CASE loads[callers[c].load].state = "resolved"
      <4>1. callers'[c].at = "next" /\ callers'[c].rest = Tail(callers[c].rest)
        BY <2>1, <2>3, <3>2 DEF L!Continue, PluginsTypeOK
      <4> QED
        BY <3>1, <3>2, <4>1 DEF CallerSteps
    <3>3. CASE loads[callers[c].load].state # "resolved"
      BY <2>1, <2>3, <3>3, CallerTypes DEF CallerSteps
    <3> QED
      BY <3>2, <3>3
  <2> QED
    BY <2>2, <2>3
<1>4. ASSUME NEW i \in DOMAIN loads, L!Import(i) \/ L!Hook(i) \/ L!HookThrows(i)
      PROVE  CallerSteps(c)
  BY <1>4, PromiseEffect DEF CallerSteps
<1>5. CASE L!RegisterBuiltins
  BY <1>5 DEF L!RegisterBuiltins, CallerSteps
<1> QED
  BY <1>1, <1>2, <1>3, <1>4, <1>5 DEF L!Next

\* Waiting callers wait for the plugin that is next.
LEMMA AwaitsStep ==
  ASSUME PluginsInv, L!Next
  PROVE  Awaits'
<1> SUFFICES ASSUME NEW c \in L!Callers, callers'[c].at \in {"created", "joined"}
             PROVE  /\ callers'[c].load \in DOMAIN loads'
                    /\ callers'[c].rest # <<>> /\ loads'[callers'[c].load].entry = Head(callers'[c].rest)
  BY DEF Awaits
<1>1. Grows /\ CallerSteps(c) /\ Awaits
  BY PluginsTypes, EachCaller DEF PluginsInv
<1>2. CASE callers'[c] = callers[c]
  BY <1>1, <1>2 DEF Awaits, Grows
<1> QED
  BY <1>1, <1>2 DEF CallerSteps

\* A place counted from the end moves by one when the first element goes.
LEMMA Shift == \A m, n, k \in Int : m - n + (k + 1) = m - (n - 1) + k
OBVIOUS

\* What is left of a plan stays the end of it.
LEMMA RemainsStep ==
  ASSUME PluginsInv, L!Next
  PROVE  Remains'
<1> SUFFICES ASSUME NEW c \in L!Callers
             PROVE  /\ Len(callers'[c].rest) <= Len(Plans[c])
                    /\ \A k \in DOMAIN callers'[c].rest :
                         callers'[c].rest[k] = Plans[c][Len(Plans[c]) - Len(callers'[c].rest) + k]
  BY DEF Remains
<1>1. CallerSteps(c) /\ Remains
  BY EachCaller DEF PluginsInv
<1>2. Plans[c] \in Seq(L!Entries) /\ callers[c].rest \in Seq(L!Entries)
  BY PluginsAssumption DEF L!Callers, L!Entries, PluginsInv, PluginsTypeOK
<1>3. Len(Plans[c]) \in Nat /\ Len(callers[c].rest) \in Nat /\ DOMAIN Plans[c] = 1..Len(Plans[c])
  BY <1>2, LenProperties
<1>4. CASE callers'[c].rest = callers[c].rest
  BY <1>1, <1>4 DEF Remains
<1>5. CASE callers'[c].rest = Plans[c]
  BY <1>3, <1>5
<1>6. CASE callers[c].rest # <<>> /\ callers'[c].rest = Tail(callers[c].rest)
  <2> PICK m \in Nat, n \in Nat : m = Len(Plans[c]) /\ n = Len(callers[c].rest)
    BY <1>3
  <2>1. /\ Len(callers'[c].rest) = n - 1
        /\ \A k \in 1..(n - 1) : callers'[c].rest[k] = callers[c].rest[k + 1]
        /\ Tail(callers[c].rest) \in Seq(L!Entries)
    BY <1>2, <1>6, HeadTailProperties
  <2>2. DOMAIN callers'[c].rest = 1..(n - 1) /\ DOMAIN callers[c].rest = 1..n
    BY <1>2, <1>6, <2>1, LenProperties
  <2>3. n <= m /\ \A k \in 1..n : callers[c].rest[k] = Plans[c][m - n + k]
    BY <1>1, <2>2 DEF Remains
  <2>4. ASSUME NEW k \in 1..(n - 1)
        PROVE  callers'[c].rest[k] = Plans[c][m - (n - 1) + k]
    <3>0. k \in Int /\ n \in Int /\ m \in Int /\ k >= 1 /\ k <= n - 1
      OBVIOUS
    <3>1. k + 1 \in 1..n
      BY <3>0
    <3>3. m - n + (k + 1) = m - (n - 1) + k
      BY <3>0, Shift, Zenon
    <3>2. callers[c].rest[k + 1] = Plans[c][m - n + (k + 1)]
      BY <2>3, <3>1
    <3> QED
      BY <2>1, <3>2, <3>3
  <2>5. n - 1 <= m
    BY <2>3
  <2> QED
    BY <2>1, <2>2, <2>4, <2>5
<1> QED
  BY <1>1, <1>4, <1>5, <1>6 DEF CallerSteps

\* What is past is the beginning of the plan; going on adds the plugin that was next.
LEMMA ToldStep ==
  ASSUME PluginsInv, L!Next
  PROVE  Told'
<1> SUFFICES ASSUME NEW c \in L!Callers, NEW e \in L!Done(c)'
             PROVE  \E i \in DOMAIN loads' : loads'[i].entry = e /\ loads'[i].state = "resolved"
  BY DEF Told
<1>1. CallerSteps(c) /\ Remains /\ Told /\ Grows
  BY EachCaller, PluginsTypes DEF PluginsInv
<1>2. Plans[c] \in Seq(L!Entries) /\ callers[c].rest \in Seq(L!Entries)
  BY PluginsAssumption DEF L!Callers, L!Entries, PluginsInv, PluginsTypeOK
<1>3. Len(Plans[c]) \in Nat /\ Len(callers[c].rest) \in Nat /\ DOMAIN Plans[c] = 1..Len(Plans[c])
  BY <1>2, LenProperties
<1>4. PICK k \in 1..(Len(Plans[c]) - Len(callers'[c].rest)) : e = Plans[c][k]
  BY DEF L!Done
<1>5. ASSUME e \in L!Done(c)
      PROVE  \E i \in DOMAIN loads' : loads'[i].entry = e /\ loads'[i].state = "resolved"
  BY <1>1, <1>5 DEF Told, Grows
<1>6. CASE callers'[c].rest = callers[c].rest
  BY <1>4, <1>5, <1>6 DEF L!Done
<1>7. CASE callers'[c].rest = Plans[c]
  BY <1>3, <1>4, <1>7
<1>8. CASE /\ callers[c].rest # <<>> /\ callers'[c].rest = Tail(callers[c].rest)
           /\ \E i \in DOMAIN loads : loads[i].entry = Head(callers[c].rest) /\ loads[i].state = "resolved"
  <2> PICK m \in Nat, n \in Nat : m = Len(Plans[c]) /\ n = Len(callers[c].rest)
    BY <1>3
  <2>1. Len(callers'[c].rest) = n - 1
    BY <1>2, <1>8, HeadTailProperties
  <2>2. n >= 1 /\ DOMAIN callers[c].rest = 1..n
    BY <1>2, <1>8, LenProperties, EmptySeq
  <2>3. Head(callers[c].rest) = callers[c].rest[1]
    BY <1>2, <1>8
  <2>4. callers[c].rest[1] = Plans[c][m - n + 1]
    <3>1. 1 \in DOMAIN callers[c].rest
      BY <2>2
    <3> QED
      BY <1>1, <3>1 DEF Remains
  <2>5. k \in 1..(m - (n - 1))
    BY <1>4, <2>1
  <2>6. CASE k = m - n + 1
    BY <1>1, <1>4, <1>8, <2>3, <2>4, <2>6 DEF Grows
  <2>7. CASE k # m - n + 1
    <3>1. k \in 1..(m - n)
      BY <2>5, <2>7
    <3> QED
      BY <1>4, <1>5, <3>1 DEF L!Done
  <2> QED
    BY <2>6, <2>7
<1> QED
  BY <1>1, <1>6, <1>7, <1>8 DEF CallerSteps

\* Whatever registers, a name keeps the object it has.
LEMMA NamesKept ==
  ASSUME PluginsInv, L!Next
  PROVE  \A n \in L!Registered : registry[n] # L!None => registry'[n] = registry[n]
<1>0. PluginsTypeOK
  BY DEF PluginsInv
<1>1. ASSUME NEW i \in DOMAIN loads, L!Hook(i)
      PROVE  \A n \in L!Registered : registry[n] # L!None => registry'[n] = registry[n]
  <2>1. \/ UNCHANGED registry
        \/ \E name, object : /\ ~L!Conflicts(name, object)
                             /\ registry' = [registry EXCEPT ![name] = <<object>>]
    BY <1>1 DEF L!Hook
  <2> QED
    BY <1>0, <2>1 DEF L!Conflicts, PluginsTypeOK
<1>2. CASE L!RegisterBuiltins
  <2> DEFINE blocked == {i \in DOMAIN L!BuiltinSources : registry[L!BuiltinSources[i]] # L!None}
             upTo == IF blocked = {} THEN Len(L!BuiltinSources)
                     ELSE (CHOOSE i \in blocked : \A j \in blocked : i <= j) - 1
  <2>1. \A n \in L!Registered : \/ registry'[n] = registry[n]
                                \/ n \in {L!BuiltinSources[i] : i \in 1..upTo}
    BY <1>2 DEF L!RegisterBuiltins
  <2>2. DOMAIN L!BuiltinSources = 1..3 /\ Len(L!BuiltinSources) = 3
    BY DEF L!BuiltinSources
  <2>3. \A i \in 1..upTo : i \notin blocked /\ i \in 1..3
    <3>1. CASE blocked = {}
      BY <2>2, <3>1
    <3>2. CASE blocked # {}
      <4> HIDE DEF blocked
      <4>1. blocked \subseteq 1..3
        BY <2>2 DEF blocked
      <4>2. \E i \in blocked : \A j \in blocked : i <= j
        <5>1. CASE 1 \in blocked
          BY <4>1, <5>1
        <5>2. CASE 1 \notin blocked /\ 2 \in blocked
          BY <4>1, <5>2
        <5>3. CASE 1 \notin blocked /\ 2 \notin blocked
          <6>1. \A j \in blocked : j \in 1..3 /\ j # 1 /\ j # 2
            BY <4>1, <5>3
          <6>2. \A j \in blocked : j = 3
            BY <6>1
          <6> QED
            BY <3>2, <6>2
        <5> QED
          BY <5>1, <5>2, <5>3
      <4>3. PICK least \in blocked : upTo = least - 1 /\ \A j \in blocked : least <= j
        BY <3>2, <4>2
      <4> QED
        BY <4>1, <4>3
    <3> QED
      BY <3>1, <3>2
  <2>4. \A n \in {L!BuiltinSources[i] : i \in 1..upTo} : registry[n] = L!None
    BY <2>2, <2>3
  <2> QED
    BY <2>1, <2>4
<1>3. ASSUME NEW c \in L!Callers,
             L!NotFound(c) \/ L!Load(c) \/ L!CreatorContinues(c) \/ L!JoinedContinues(c) \/ L!CallsAgain(c)
      PROVE  UNCHANGED registry
  BY <1>3 DEF L!NotFound, L!Load, L!CreatorContinues, L!JoinedContinues, L!CallsAgain
<1>4. ASSUME NEW i \in DOMAIN loads, L!Import(i) \/ L!HookThrows(i)
      PROVE  UNCHANGED registry
  BY <1>4 DEF L!Import, L!HookThrows
<1> QED
  BY <1>1, <1>2, <1>3, <1>4 DEF L!Next

\* The name at this position of the hook of a load is registered by its entry.
HookRegisteredAt(i, k) == OwnedBy(Hooks[loads[i].entry][k], loads[i].entry)

\* What a hook has registered stays registered.
LEMMA RegistrationsStay ==
  ASSUME PluginsInv, L!Next, NEW i \in DOMAIN loads, NEW k \in DOMAIN Hooks[loads[i].entry],
         loads[i].state \in {"hook", "resolved"}, loads[i].state = "resolved" \/ k < loads[i].next
  PROVE  HookRegisteredAt(i, k)'
<1>1. OwnedBy(Hooks[loads[i].entry][k], loads[i].entry) /\ loads[i].entry \in L!Entries
  BY LoadTypes DEF PluginsInv, HookRegistered
<1>2. Hooks[loads[i].entry][k] \in L!Registered
  BY <1>1, HookNames
<1>3. registry'[Hooks[loads[i].entry][k]] = registry[Hooks[loads[i].entry][k]]
  BY <1>1, <1>2, NamesKept DEF OwnedBy
<1>4. loads'[i].entry = loads[i].entry
  BY PluginsTypes DEF Grows
<1> QED
  BY <1>1, <1>3, <1>4 DEF HookRegisteredAt, OwnedBy

\* A hook that goes on has registered one name more; one that returns, all.
LEMMA HookStep ==
  ASSUME PluginsInv, L!Next, NEW i \in DOMAIN loads, L!Import(i) \/ L!Hook(i) \/ L!HookThrows(i),
         loads'[i].state \in {"hook", "resolved"}, NEW k \in DOMAIN Hooks[loads[i].entry],
         loads'[i].state = "resolved" \/ k < loads'[i].next
  PROVE  HookRegisteredAt(i, k)'
<1>0. /\ PluginsTypeOK /\ loads[i].entry \in L!Entries /\ loads[i].next \in Nat \ {0}
      /\ k \in 1..Len(Hooks[loads[i].entry]) /\ Len(Hooks[loads[i].entry]) \in Nat
      /\ loads[i] \in Loads
  <2>1. PluginsTypeOK
    BY DEF PluginsInv
  <2>2. loads[i] \in Loads /\ loads[i].entry \in L!Entries
    BY <2>1, LoadTypes
  <2>3. Hooks[loads[i].entry] \in Seq({Hooks[loads[i].entry][j] : j \in DOMAIN Hooks[loads[i].entry]})
    BY <2>2, PluginsAssumption DEF L!Entries, IsSeq
  <2>4. loads[i].next \in Nat \ {0}
    BY <2>2 DEF Loads
  <2> QED
    BY <2>1, <2>2, <2>3, <2>4, LenProperties
<1>1. CASE L!Import(i)
  <2>1. loads[i].state = "queued" /\ loads[i].next = 1
    BY <1>1 DEF L!Import, PluginsInv, QueuedAtStart
  <2>2. loads'[i].state = "hook" \/ loads'[i].state = "rejected"
    <3>1. L!SetState(i, "hook") \/ L!SetState(i, "rejected")
      BY <1>1 DEF L!Import
    <3> QED
      BY <1>0, <3>1 DEF L!SetState, Loads
  <2>3. loads'[i].next = loads[i].next
    BY <1>0, <1>1 DEF L!Import, L!SetState, Loads
  <2> QED
    BY <1>0, <2>1, <2>2, <2>3
<1>2. CASE L!HookThrows(i)
  BY <1>0, <1>2 DEF L!HookThrows, L!SetState, Loads
<1>3. CASE L!Hook(i)
  <2> DEFINE names == Hooks[loads[i].entry]
             name == names[loads[i].next]
             object == L!Object(loads[i].entry, i)
  <2>1. loads[i].state = "hook"
    BY <1>3 DEF L!Hook
  <2>2. CASE loads[i].next > Len(names)
    BY <1>0, <2>1, <2>2, RegistrationsStay
  <2>3. CASE ~(loads[i].next > Len(names)) /\ L!Conflicts(name, object)
    <3>1. L!SetState(i, "rejected")
      BY <1>3, <2>3 DEF L!Hook
    <3> QED
      BY <1>0, <3>1 DEF L!SetState, Loads
  <2>4. CASE ~(loads[i].next > Len(names)) /\ ~L!Conflicts(name, object)
    <3>1. /\ loads' = [loads EXCEPT ![i].next = @ + 1]
          /\ registry' = [registry EXCEPT ![name] = <<object>>]
      BY <1>3, <2>4 DEF L!Hook
    <3>2. loads'[i].next = loads[i].next + 1 /\ loads'[i].state = "hook" /\ loads'[i].entry = loads[i].entry
      BY <1>0, <2>1, <3>1 DEF Loads
    <3>3. CASE k < loads[i].next
      BY <1>0, <2>1, <3>3, RegistrationsStay
    <3>4. CASE k = loads[i].next
      <4>1. name \in L!Registered
        BY <1>0, <3>4, HookNames
      <4>2. registry'[name] = <<object>> /\ object.owner = loads[i].entry
        BY <1>0, <3>1, <4>1 DEF PluginsTypeOK, L!Object
      <4> QED
        BY <3>2, <3>4, <4>2 DEF HookRegisteredAt, OwnedBy, L!None
    <3> QED
      BY <1>0, <3>2, <3>3, <3>4
  <2> QED
    BY <2>2, <2>3, <2>4
<1> QED
  BY <1>1, <1>2, <1>3

\* A hook that has not begun is at its first name.
LEMMA HooksStep ==
  ASSUME PluginsInv, L!Next
  PROVE  HookRegistered' /\ QueuedAtStart'
<1> DEFINE Good(j) ==
      /\ loads'[j].state = "queued" => loads'[j].next = 1
      /\ loads'[j].state \in {"hook", "resolved"} =>
           \A k \in DOMAIN Hooks[loads'[j].entry] :
             loads'[j].state = "resolved" \/ k < loads'[j].next => HookRegisteredAt(j, k)'
<1>0. PluginsTypeOK /\ QueuedAtStart /\ Grows
  BY PluginsTypes DEF PluginsInv
<1>1. ASSUME NEW j \in DOMAIN loads, loads'[j] = loads[j]
      PROVE  Good(j)
  <2>1. loads[j].state = "queued" => loads[j].next = 1
    BY <1>0 DEF QueuedAtStart
  <2>2. ASSUME NEW k \in DOMAIN Hooks[loads[j].entry], loads[j].state \in {"hook", "resolved"},
               loads[j].state = "resolved" \/ k < loads[j].next
        PROVE  HookRegisteredAt(j, k)'
    BY <2>2, RegistrationsStay
  <2> QED
    BY <1>1, <2>1, <2>2
<1>2. ASSUME UNCHANGED loads
      PROVE  \A j \in DOMAIN loads' : Good(j)
  BY <1>1, <1>2
<1>3. ASSUME NEW c \in L!Callers, L!Load(c)
      PROVE  \A j \in DOMAIN loads' : Good(j)
  <2>1. CASE UNCHANGED loads
    BY <1>2, <2>1
  <2>2. CASE loads' = Append(loads, [entry |-> Head(callers[c].rest), state |-> "queued", next |-> 1])
    <3>0. Head(callers[c].rest) \in L!Entries
      BY <1>0, <1>3, LoadEffect DEF PluginsInv
    <3>1. /\ DOMAIN loads' = DOMAIN loads \cup {Len(loads) + 1}
          /\ \A i \in DOMAIN loads : loads'[i] = loads[i]
          /\ loads'[Len(loads) + 1].state = "queued" /\ loads'[Len(loads) + 1].next = 1
      BY <1>0, <2>2, <3>0, LoadAdded
    <3>2. Good(Len(loads) + 1)
      BY <3>1
    <3>3. \A j \in DOMAIN loads : Good(j)
      BY <1>1, <3>1
    <3> HIDE DEF Good
    <3> QED
      BY <3>1, <3>2, <3>3
  <2> QED
    BY <1>3, <2>1, <2>2, LoadEffect DEF PluginsInv
<1>4. ASSUME NEW i \in DOMAIN loads, L!Import(i) \/ L!Hook(i) \/ L!HookThrows(i)
      PROVE  \A j \in DOMAIN loads' : Good(j)
  <2>1. Moves(i)
    BY <1>0, <1>4, PromiseEffect
  <2>2. \A j \in DOMAIN loads : j # i => Good(j)
    BY <1>1, <2>1 DEF Moves
  <2>3. loads'[i].state = "queued" => loads'[i].next = 1
    <3>1. loads[i] \in Loads /\ i \in 1..Len(loads) /\ loads \in Seq(Loads)
      BY <1>0, LoadTypes, LenProperties DEF PluginsTypeOK
    <3>2. CASE L!Import(i)
      <4>1. L!SetState(i, "hook") \/ L!SetState(i, "rejected")
        BY <3>2 DEF L!Import
      <4> QED
        BY <3>1, <4>1 DEF L!SetState, Loads
    <3>3. CASE L!HookThrows(i)
      BY <3>1, <3>3 DEF L!HookThrows, L!SetState, Loads
    <3>4. CASE L!Hook(i)
      <4>1. \/ L!SetState(i, "resolved") \/ L!SetState(i, "rejected")
            \/ loads' = [loads EXCEPT ![i].next = @ + 1] /\ loads[i].state = "hook"
        BY <3>4 DEF L!Hook
      <4> QED
        BY <3>1, <4>1 DEF L!SetState, Loads
    <3> QED
      BY <1>4, <3>2, <3>3, <3>4
  <2>4. Good(i)
    <3>1. loads'[i].entry = loads[i].entry
      BY <2>1 DEF Moves
    <3> QED
      BY <1>4, <2>3, <3>1, HookStep
  <2> HIDE DEF Good
  <2> QED
    BY <2>1, <2>2, <2>4 DEF Moves
<1>5. ASSUME NEW c \in L!Callers,
             L!NotFound(c) \/ L!CreatorContinues(c) \/ L!JoinedContinues(c) \/ L!CallsAgain(c)
      PROVE  UNCHANGED loads
  BY <1>5 DEF L!NotFound, L!CreatorContinues, L!JoinedContinues, L!CallsAgain
<1>6. L!RegisterBuiltins => UNCHANGED loads
  BY DEF L!RegisterBuiltins
<1>7. \A j \in DOMAIN loads' : Good(j)
  <2> HIDE DEF Good
  <2>1. CASE UNCHANGED loads
    BY <1>2, <2>1
  <2>2. CASE \E c \in L!Callers : L!Load(c)
    BY <1>3, <2>2
  <2>3. CASE \E i \in DOMAIN loads : L!Import(i) \/ L!Hook(i) \/ L!HookThrows(i)
    BY <1>4, <2>3
  <2> QED
    BY <1>5, <1>6, <2>1, <2>2, <2>3 DEF L!Next
<1> QED
  BY <1>7 DEF HookRegistered, QueuedAtStart, HookRegisteredAt

\* Every step of Plugins keeps its invariant.
LEMMA PluginsStep ==
  PluginsInv /\ L!Next => PluginsInv'
<1> SUFFICES ASSUME PluginsInv, L!Next PROVE PluginsInv'
  OBVIOUS
<1>1. PluginsTypeOK' /\ Points' /\ Known' /\ Awaits' /\ Remains' /\ Told' /\ HookRegistered' /\ QueuedAtStart'
  BY PluginsTypes, OneLoad, AwaitsStep, RemainsStep, ToldStep, HooksStep
<1> QED
  BY <1>1 DEF PluginsInv

\* Plugins begins as the invariant says.
LEMMA PluginsStart ==
  L!Init => PluginsInv
<1> SUFFICES ASSUME L!Init PROVE PluginsInv
  OBVIOUS
<1>1. \A c \in L!Callers : Plans[c] \in Seq(L!Entries) /\ Len(Plans[c]) \in Nat
  BY PluginsAssumption, LenProperties DEF L!Callers, L!Entries
<1>2. loads = <<>> /\ loads \in Seq(Loads) /\ DOMAIN loads = {}
  BY EmptySeq DEF L!Init
<1>3. /\ \A c \in L!Callers : callers[c].at = "next" /\ callers[c].rest = Plans[c]
      /\ callers \in [L!Callers -> [at : {"next", "created", "joined", "failed"}, load : Nat,
                                    rest : Seq(L!Entries)]]
  BY <1>1 DEF L!Init
<1>4. PluginsTypeOK /\ Points
  BY <1>2, <1>3 DEF L!Init, PluginsTypeOK, Points
<1>5. Known /\ HookRegistered /\ QueuedAtStart
  BY <1>2 DEF Known, HookRegistered, QueuedAtStart
<1>6. Awaits
  BY <1>3 DEF Awaits
<1>7. Remains
  <2>1. \A c \in L!Callers : \A k \in DOMAIN Plans[c] : Len(Plans[c]) - Len(Plans[c]) + k = k
    BY <1>1, LenProperties
  <2> QED
    BY <1>1, <1>3, <2>1 DEF Remains
<1>8. Told
  <2>1. \A c \in L!Callers : L!Done(c) = {}
    BY <1>1, <1>3 DEF L!Done
  <2> QED
    BY <2>1 DEF Told
<1> QED
  BY <1>4, <1>5, <1>6, <1>7, <1>8 DEF PluginsInv

\* The invariant gives what the run checks.
LEMMA PluginsOnce ==
  PluginsInv => L!PluginsLoadOnce
<1> SUFFICES ASSUME PluginsInv PROVE L!PluginsLoadOnce
  OBVIOUS
<1> USE DEF PluginsInv
<1>1. \A i, j \in DOMAIN loads :
        loads[i].entry = loads[j].entry /\ loads[i].state # "rejected" /\ loads[j].state # "rejected" => i = j
  BY DEF Known
<1>2. ASSUME NEW T, \A i, j \in T : i = j
      PROVE  Cardinality(T) <= 1
  <2>1. CASE T = {}
    BY <2>1, FS_EmptySet
  <2>2. CASE T # {}
    <3>1. PICK i \in T : T = {i}
      BY <1>2, <2>2
    <3>2. Cardinality({i}) = 1
      BY FS_Singleton
    <3> QED
      BY <3>1, <3>2
  <2> QED
    BY <2>1, <2>2
<1>3. ASSUME NEW e \in L!Entries
      PROVE  /\ Cardinality(L!Running(e)) <= 1 /\ Cardinality(L!Succeeded(e)) <= 1
             /\ L!Running(e) = {} \/ L!Succeeded(e) = {}
  <2>1. \A i, j \in L!Running(e) : i = j
    BY <1>1 DEF L!Running
  <2>2. \A i, j \in L!Succeeded(e) : i = j
    BY <1>1 DEF L!Succeeded
  <2>3. \A i \in L!Running(e), j \in L!Succeeded(e) : i = j
    BY <1>1 DEF L!Running, L!Succeeded
  <2>4. \A i \in L!Running(e) : i \notin L!Succeeded(e)
    BY DEF L!Running, L!Succeeded
  <2> QED
    BY <1>2, <2>1, <2>2, <2>3, <2>4
<1>4. ASSUME NEW c \in L!Callers, NEW e \in L!Done(c)
      PROVE  /\ L!Succeeded(e) # {}
             /\ \A k \in DOMAIN Hooks[e] :
                  registry[Hooks[e][k]] # L!None /\ registry[Hooks[e][k]][1].owner = e
  <2>1. PICK i \in DOMAIN loads : loads[i].entry = e /\ loads[i].state = "resolved"
    BY DEF Told
  <2>2. \A k \in DOMAIN Hooks[e] : OwnedBy(Hooks[e][k], e)
    BY <2>1 DEF HookRegistered
  <2> QED
    BY <2>1, <2>2 DEF L!Succeeded, OwnedBy
<1>5. \A e \in L!Entries : /\ Cardinality(L!Running(e)) <= 1 /\ Cardinality(L!Succeeded(e)) <= 1
                           /\ L!Running(e) = {} \/ L!Succeeded(e) = {}
  BY <1>3
<1>6. \A c \in L!Callers : \A e \in L!Done(c) :
        /\ L!Succeeded(e) # {}
        /\ \A k \in DOMAIN Hooks[e] :
             registry[Hooks[e][k]] # L!None /\ registry[Hooks[e][k]][1].owner = e
  BY <1>4, Zenon
<1> QED
  BY <1>5, <1>6, SameCounts, Zenon DEF L!PluginsLoadOnce

-------------------------------------------------------------------------------
(* ResultStore: what is stored is a save of its place, and a reader that began later   *)
(* than a save has found it or has yet to look.                                        *)

Stages == {"new", "id", "id open", "latest", "latest open", "saved", "failed"}
Saves == [at : Stages, kind : Kinds, id : ArtifactIds, createdAt : Nat]
Readers == [at : {"reading", "rejected", "returned"}, op : S!Ops, names : SUBSET S!Names,
            found : SUBSET Savers, before : SUBSET Savers]

StoreTypeOK ==
  /\ provider \in {"file", "gcs", "no package"}
  /\ stored \in [S!Names -> {"missing", "torn"} \cup Savers]
  /\ saves \in [Savers -> Saves]
  /\ overlaps \subseteq Savers \X S!Names
  /\ reader = S!Idle \/ reader \in Readers

\* An artifact is stored under its kind and its id, or as the latest of its kind.
InPlace ==
  \A n \in S!Names : stored[n] \in Savers =>
    /\ saves[stored[n]].kind = n[1]
    /\ n[2] # "latest" => saves[stored[n]].id = n[2]

\* Where a save has been, something is stored.
Left ==
  \A s \in Savers :
    /\ saves[s].at \in {"latest", "latest open", "saved"} =>
         stored[<<saves[s].kind, saves[s].id>>] # "missing"
    /\ saves[s].at = "saved" => stored[<<saves[s].kind, "latest">>] # "missing"

\* Why a file is torn: this save has it open, failed on it, or wrote it together with another.
Tears(s, n) ==
  /\ n \in S!Files(s)
  /\ \/ saves[s].at \in {"id open", "latest open"} /\ S!Target(s) = n
     \/ saves[s].at = "failed"
     \/ <<s, n>> \in overlaps

\* Only a directory has open files, and some save tears what is torn.
Torn ==
  /\ \A s \in Savers : saves[s].at \in {"id open", "latest open"} => provider = "file"
  /\ \A n \in S!Names : stored[n] = "torn" => provider = "file" /\ \E s \in Savers : Tears(s, n)

BeforeSaved == reader.at # "idle" => \A s \in reader.before : saves[s].at = "saved"

\* What a reader has found of a save from before its call, or has yet to look at.
Finds(s) ==
  \/ <<reader.op.kind, IF reader.op.op = "list" THEN saves[s].id ELSE reader.op.id>> \in reader.names
  \/ IF reader.op.op = "list" THEN \E t \in S!Twins(s) : t \in reader.found ELSE reader.found # {}

Reading ==
  reader.at = "reading" =>
    /\ \A s \in reader.before :
         saves[s].kind = reader.op.kind /\ (reader.op.op = "load" => saves[s].id = reader.op.id) => Finds(s)
    /\ reader.op.op = "load" =>
         /\ reader.names \subseteq {<<reader.op.kind, reader.op.id>>}
         /\ \A t \in reader.found : saves[t].kind = reader.op.kind /\ saves[t].id = reader.op.id

\* What a call returned, of a save from before it.
Returned ==
  reader.at = "returned" =>
    \A s \in reader.before : saves[s].kind = reader.op.kind =>
      /\ reader.op.op = "load" /\ saves[s].id = reader.op.id =>
           reader.found # {} /\ reader.found \subseteq S!Twins(s)
      /\ reader.op.op = "latest" => reader.found # {}
      /\ reader.op.op = "list" =>
           \E t \in S!Twins(s) :
             \/ t \in reader.found
             \/ /\ Cardinality(reader.found) = reader.op.limit
                /\ \A u \in reader.found : saves[u].createdAt >= saves[t].createdAt

\* Why a call was refused.
Refused ==
  reader.at = "rejected" /\ provider # "no package" =>
    \E n \in reader.names :
      \/ reader.op.op = "load" /\ \A s \in reader.before : n \notin S!Files(s)
      \/ /\ provider = "file"
         /\ \E s \in Savers :
              /\ n \in S!Files(s)
              /\ (s \notin reader.before /\ saves[s].at # "new") \/ <<s, n>> \in overlaps

StoreInv ==
  /\ StoreTypeOK /\ InPlace /\ Left /\ Torn
  /\ BeforeSaved /\ Reading /\ Returned /\ Refused

\* The savers are neither of the two other contents of a place.
LEMMA SaversApart == "missing" \notin Savers /\ "torn" \notin Savers
BY StoreAssumption

\* A limit is a number.
LEMMA LimitsCount == \A l \in ListLimits : l \in Nat
BY StoreAssumption

\* Where a save goes is a place of the store.
LEMMA TargetPlace ==
  ASSUME StoreTypeOK, NEW s \in Savers
  PROVE  /\ S!Target(s) \in S!Names /\ S!Target(s)[1] = saves[s].kind
         /\ S!Target(s)[2] # "latest" => S!Target(s)[2] = saves[s].id
         /\ saves[s].at = "id open" => S!Target(s) = <<saves[s].kind, saves[s].id>>
         /\ saves[s].at \in {"latest", "latest open"} => S!Target(s) = <<saves[s].kind, "latest">>
         /\ <<saves[s].kind, saves[s].id>> \in S!Names /\ <<saves[s].kind, "latest">> \in S!Names
<1>1. saves[s].kind \in Kinds /\ saves[s].id \in ArtifactIds
  BY DEF StoreTypeOK, Saves
<1> QED
  BY <1>1 DEF S!Target, S!Names

\* The step of a save: it goes on or fails, and what it stores is torn or its artifact.
SaveMoves(s, at) ==
  /\ saves[s].at \notin {"saved", "failed"} /\ at \in Stages \ {"new"}
  /\ saves' = [saves EXCEPT ![s].at = at]
  /\ overlaps \subseteq overlaps' /\ UNCHANGED <<provider, reader>>

\* Where the step of a save leads it once its file is written.
SaveGoesOn(s, at) ==
  \/ saves[s].at \in {"id", "id open"} /\ at = "latest"
  \/ saves[s].at \in {"latest", "latest open"} /\ at = "saved"

LEMMA SaveSteps ==
  ASSUME StoreTypeOK, NEW s \in Savers,
         S!Begin(s) \/ S!Open(s) \/ S!Write(s) \/ S!Put(s) \/ S!SaveFails(s)
  PROVE  \E at \in Stages :
           /\ SaveMoves(s, at)
           /\ \/ UNCHANGED stored /\ ((at = "id" /\ saves[s].at = "new") \/ at = "failed")
              \/ /\ stored' = [stored EXCEPT ![S!Target(s)] = "torn"] /\ provider = "file"
                 /\ \/ saves[s].at = "id" /\ at = "id open"
                    \/ saves[s].at = "latest" /\ at = "latest open"
              \/ /\ stored' = [stored EXCEPT ![S!Target(s)] = "torn"]
                 /\ saves[s].at \in {"id open", "latest open"}
                 /\ at = "failed" \/ (SaveGoesOn(s, at) /\ <<s, S!Target(s)>> \in overlaps)
              \/ stored' = [stored EXCEPT ![S!Target(s)] = s] /\ SaveGoesOn(s, at)
<1>1. CASE S!Begin(s)
  <2>1. SaveMoves(s, "id") \/ SaveMoves(s, "failed")
    BY <1>1 DEF S!Begin, S!Goes, SaveMoves, Stages
  <2> QED
    BY <1>1, <2>1 DEF S!Begin, Stages
<1>2. CASE S!Open(s)
  <2>1. SaveMoves(s, IF saves[s].at = "id" /\ saves[s].id \in Nested THEN "failed"
                     ELSE IF saves[s].at = "id" THEN "id open" ELSE "latest open")
    BY <1>2 DEF S!Open, S!Goes, SaveMoves, Stages
  <2> QED
    BY <1>2, <2>1 DEF S!Open, Stages
<1>3. CASE S!Write(s)
  <2>1. SaveMoves(s, IF saves[s].at = "id open" THEN "latest" ELSE "saved")
    BY <1>3 DEF S!Write, S!Goes, SaveMoves, Stages
  <2> QED
    BY <1>3, <2>1 DEF S!Write, Stages, SaveGoesOn
<1>4. CASE S!Put(s)
  <2>1. SaveMoves(s, IF saves[s].at = "id" THEN "latest" ELSE "saved")
    BY <1>4 DEF S!Put, S!Goes, SaveMoves, Stages
  <2> QED
    BY <1>4, <2>1 DEF S!Put, Stages, SaveGoesOn
<1>5. CASE S!SaveFails(s)
  <2>1. SaveMoves(s, "failed")
    BY <1>5 DEF S!SaveFails, S!Goes, SaveMoves, Stages
  <2> QED
    BY <1>5, <2>1 DEF S!SaveFails, Stages
<1> QED
  BY <1>1, <1>2, <1>3, <1>4, <1>5

\* The overlaps are of savers and their files.
LEMMA OverlapsTyped ==
  ASSUME StoreTypeOK, NEW s \in Savers,
         S!Begin(s) \/ S!Open(s) \/ S!Write(s) \/ S!Put(s) \/ S!SaveFails(s)
  PROVE  overlaps' \subseteq Savers \X S!Names
<1>1. overlaps \subseteq Savers \X S!Names /\ S!Writing(s) \cup {s} \subseteq Savers
  BY DEF StoreTypeOK, S!Writing
<1>2. {<<x, S!Target(s)>> : x \in S!Writing(s) \cup {s}} \subseteq Savers \X S!Names
  <2> DEFINE place == S!Target(s)
  <2>1. place \in S!Names
    BY TargetPlace
  <2> HIDE DEF place
  <2>2. {<<x, place>> : x \in S!Writing(s) \cup {s}} \subseteq Savers \X S!Names
    BY <1>1, <2>1
  <2> QED
    BY <2>2 DEF place
<1> QED
  BY <1>1, <1>2 DEF S!Begin, S!Open, S!Write, S!Put, S!SaveFails

\* A reader that was called has an operation, and what it knows are places and saves.
LEMMA ReaderTyped ==
  ASSUME StoreTypeOK, reader.at # "idle"
  PROVE  /\ reader \in Readers /\ reader.op \in S!Ops /\ reader.names \subseteq S!Names
         /\ reader.before \subseteq Savers /\ reader.found \subseteq Savers
<1>1. S!Idle.at = "idle"
  BY DEF S!Idle
<1>2. reader \in Readers
  BY <1>1 DEF StoreTypeOK
<1> QED
  BY <1>2 DEF Readers

\* A save keeps what it saves; once it returned it stays so, and once begun it stays begun.
LEMMA SaveKept ==
  ASSUME StoreTypeOK, NEW s \in Savers, NEW at, SaveMoves(s, at)
  PROVE  /\ saves' \in [Savers -> Saves]
         /\ saves'[s].at = at /\ \A t \in Savers : t # s => saves'[t] = saves[t]
         /\ \A t \in Savers :
              /\ saves'[t].kind = saves[t].kind /\ saves'[t].id = saves[t].id
              /\ saves'[t].createdAt = saves[t].createdAt
              /\ saves[t].at = "saved" => saves'[t].at = "saved"
              /\ saves[t].at # "new" => saves'[t].at # "new"
<1> DEFINE record == [saves[s] EXCEPT !.at = at]
<1>1. saves \in [Savers -> Saves] /\ saves[s] \in Saves /\ at \in Stages \ {"new"} /\ saves[s].at # "saved"
  BY DEF StoreTypeOK, SaveMoves
<1>2. /\ record \in Saves /\ record.at = at /\ record.kind = saves[s].kind /\ record.id = saves[s].id
      /\ record.createdAt = saves[s].createdAt
  BY <1>1 DEF Saves
<1>3. saves' = [saves EXCEPT ![s] = record]
  BY DEF SaveMoves
<1> HIDE DEF record
<1>4. saves'[s] = record /\ \A t \in Savers : t # s => saves'[t] = saves[t]
  BY <1>1, <1>3
<1>5. saves' \in [Savers -> Saves]
  BY <1>1, <1>2, <1>3
<1> QED
  BY <1>1, <1>2, <1>4, <1>5

\* What a reader knows of the saves before its call does not change with a save.
LEMMA ReaderKept ==
  ASSUME StoreInv, NEW s \in Savers, NEW at, SaveMoves(s, at)
  PROVE  BeforeSaved' /\ Reading' /\ Returned' /\ Refused'
<1>1. /\ \A t \in Savers : /\ saves'[t].kind = saves[t].kind /\ saves'[t].id = saves[t].id
                           /\ saves'[t].createdAt = saves[t].createdAt
                           /\ saves[t].at = "saved" => saves'[t].at = "saved"
                           /\ saves[t].at # "new" => saves'[t].at # "new"
      /\ reader' = reader /\ provider' = provider /\ overlaps \subseteq overlaps'
  BY SaveKept DEF StoreInv, SaveMoves
<1>2. reader.at # "idle" => reader.before \subseteq Savers /\ reader.found \subseteq Savers
  BY ReaderTyped DEF StoreInv
<1>3. BeforeSaved'
  BY <1>1, <1>2 DEF StoreInv, BeforeSaved
<1>4. \A t \in Savers : S!Twins(t)' = S!Twins(t)
  BY <1>1 DEF S!Twins
<1>5. Reading'
  <2>1. CASE reader.at # "reading"
    BY <1>1, <2>1 DEF Reading
  <2>2. CASE reader.at = "reading"
    <3>1. \A t \in reader.before : Finds(t)' <=> Finds(t)
      BY <1>1, <1>2, <1>4, <2>2 DEF Finds
    <3>2. Reading /\ reader.before \subseteq Savers /\ reader.found \subseteq Savers
      BY <1>2, <2>2 DEF StoreInv
    <3>3. ASSUME NEW t \in reader.before, saves'[t].kind = reader.op.kind,
                 reader.op.op = "load" => saves'[t].id = reader.op.id
          PROVE  Finds(t)'
      BY <1>1, <2>2, <3>1, <3>2, <3>3 DEF Reading
    <3>4. reader.op.op = "load" =>
            /\ reader.names \subseteq {<<reader.op.kind, reader.op.id>>}
            /\ \A t \in reader.found : saves'[t].kind = reader.op.kind /\ saves'[t].id = reader.op.id
      BY <1>1, <2>2, <3>2 DEF Reading
    <3> QED
      BY <1>1, <3>3, <3>4 DEF Reading
  <2> QED
    BY <2>1, <2>2
<1>6. Returned'
  <2>1. CASE reader.at # "returned"
    BY <1>1, <2>1 DEF Returned
  <2>2. CASE reader.at = "returned"
    <3>1. Returned /\ reader.before \subseteq Savers /\ reader.found \subseteq Savers
      BY <1>2, <2>2 DEF StoreInv
    <3>2. \A t \in Savers : S!Twins(t) \subseteq Savers
      BY DEF S!Twins
    <3>3. ASSUME NEW t \in reader.before, saves[t].kind = reader.op.kind
          PROVE  /\ reader.op.op = "load" /\ saves[t].id = reader.op.id =>
                      reader.found # {} /\ reader.found \subseteq S!Twins(t)'
                 /\ reader.op.op = "latest" => reader.found # {}
                 /\ reader.op.op = "list" =>
                      \E u \in S!Twins(t)' :
                        \/ u \in reader.found
                        \/ /\ Cardinality(reader.found) = reader.op.limit
                           /\ \A v \in reader.found : saves'[v].createdAt >= saves'[u].createdAt
      BY <1>1, <1>4, <2>2, <3>1, <3>2, <3>3 DEF Returned
    <3> QED
      BY <1>1, <3>1, <3>3 DEF Returned
  <2> QED
    BY <2>1, <2>2
<1>7. Refused'
  <2>1. CASE reader.at # "rejected"
    BY <1>1, <2>1 DEF Refused
  <2>2. CASE reader.at = "rejected" /\ provider # "no package"
    <3>1. \A t \in Savers : S!Files(t)' = S!Files(t)
      BY <1>1 DEF S!Files
    <3>2. PICK n \in reader.names :
            \/ reader.op.op = "load" /\ \A t \in reader.before : n \notin S!Files(t)
            \/ /\ provider = "file"
               /\ \E t \in Savers :
                    /\ n \in S!Files(t)
                    /\ (t \notin reader.before /\ saves[t].at # "new") \/ <<t, n>> \in overlaps
      BY <2>2 DEF StoreInv, Refused
    <3>3. CASE reader.op.op = "load" /\ \A t \in reader.before : n \notin S!Files(t)
      BY <1>1, <1>2, <2>2, <3>1, <3>3 DEF Refused
    <3>4. ASSUME provider = "file",
                 NEW t \in Savers, n \in S!Files(t),
                 (t \notin reader.before /\ saves[t].at # "new") \/ <<t, n>> \in overlaps
          PROVE  Refused'
      <4>1. n \in S!Files(t)' /\ ((t \notin reader.before /\ saves'[t].at # "new") \/ <<t, n>> \in overlaps')
        BY <1>1, <3>1, <3>4
      <4> QED
        BY <1>1, <3>4, <4>1 DEF Refused
    <3> QED
      BY <3>2, <3>3, <3>4
  <2>3. CASE provider = "no package"
    BY <1>1, <2>3 DEF Refused
  <2> QED
    BY <2>1, <2>2, <2>3
<1> QED
  BY <1>3, <1>5, <1>6, <1>7

\* What is stored stays in its place, and a torn file stays somebody's.
LEMMA StoredKept ==
  ASSUME StoreInv, NEW s \in Savers,
         S!Begin(s) \/ S!Open(s) \/ S!Write(s) \/ S!Put(s) \/ S!SaveFails(s)
  PROVE  StoreTypeOK' /\ InPlace' /\ Left' /\ Torn'
<1> DEFINE n == S!Target(s)
<1>1. StoreTypeOK /\ InPlace /\ Left /\ Torn
  BY DEF StoreInv
<1>2. PICK at \in Stages :
        /\ SaveMoves(s, at)
        /\ \/ UNCHANGED stored /\ ((at = "id" /\ saves[s].at = "new") \/ at = "failed")
           \/ /\ stored' = [stored EXCEPT ![n] = "torn"] /\ provider = "file"
              /\ \/ saves[s].at = "id" /\ at = "id open"
                 \/ saves[s].at = "latest" /\ at = "latest open"
           \/ /\ stored' = [stored EXCEPT ![n] = "torn"]
              /\ saves[s].at \in {"id open", "latest open"}
              /\ at = "failed" \/ (SaveGoesOn(s, at) /\ <<s, n>> \in overlaps)
           \/ stored' = [stored EXCEPT ![n] = s] /\ SaveGoesOn(s, at)
  BY <1>1, SaveSteps
<1>3. /\ saves' \in [Savers -> Saves] /\ saves'[s].at = at /\ \A t \in Savers : t # s => saves'[t] = saves[t]
      /\ \A t \in Savers : saves'[t].kind = saves[t].kind /\ saves'[t].id = saves[t].id
  BY <1>1, <1>2, SaveKept
<1>4. /\ n \in S!Names /\ n[1] = saves[s].kind
      /\ n[2] # "latest" => n[2] = saves[s].id
  BY <1>1, TargetPlace
<1>5. UNCHANGED <<provider, reader>>
  BY <1>2 DEF SaveMoves
<1>6. /\ stored \in [S!Names -> {"missing", "torn"} \cup Savers]
      /\ stored' \in [S!Names -> {"missing", "torn"} \cup Savers]
      /\ \A m \in S!Names : m # n => stored'[m] = stored[m]
      /\ stored'[n] \in {stored[n], "torn", s}
      /\ stored[n] # "missing" => stored'[n] # "missing"
  BY <1>1, <1>2, <1>4, SaversApart DEF StoreTypeOK
<1>0. /\ \/ stored'[n] = stored[n] /\ ((at = "id" /\ saves[s].at = "new") \/ at = "failed")
         \/ stored'[n] = "torn" /\ at \in {"id open", "latest open", "failed"}
         \/ stored'[n] = "torn" /\ SaveGoesOn(s, at) /\ <<s, n>> \in overlaps
         \/ stored'[n] = s /\ SaveGoesOn(s, at)
      /\ at = "id open" => saves[s].at = "id"
      /\ at = "latest open" => saves[s].at = "latest"
      /\ at \in {"latest", "saved"} => SaveGoesOn(s, at)
      /\ stored' # stored /\ stored'[n] = "torn" => provider = "file"
  <2>1. \A v : stored' = [stored EXCEPT ![n] = v] => stored'[n] = v
    BY <1>4, <1>6
  <2>2. saves[s].at \in {"id open", "latest open"} => provider = "file"
    BY <1>1 DEF Torn
  <2> HIDE DEF n
  <2> QED
    BY <1>2, <2>1, <2>2, <1>4, <1>6, SaversApart DEF SaveGoesOn
<1>7. StoreTypeOK'
  BY <1>1, <1>3, <1>5, <1>6, OverlapsTyped DEF StoreTypeOK
<1>8. InPlace'
  <2> SUFFICES ASSUME NEW m \in S!Names, stored'[m] \in Savers
               PROVE  /\ saves'[stored'[m]].kind = m[1]
                      /\ m[2] # "latest" => saves'[stored'[m]].id = m[2]
    BY DEF InPlace
  <2>1. CASE stored'[m] = stored[m]
    BY <1>1, <1>3, <2>1 DEF InPlace
  <2>2. CASE m = n /\ stored'[m] = s
    BY <1>3, <1>4, <2>2
  <2>3. m = n \/ stored'[m] = stored[m]
    BY <1>6
  <2>4. stored'[n] \in {stored[n], "torn", s}
    BY <1>6
  <2> HIDE DEF n
  <2> QED
    BY <2>1, <2>2, <2>3, <2>4, SaversApart
<1>9. Left'
  <2>1. \A m \in S!Names : stored[m] # "missing" => stored'[m] # "missing"
    BY <1>6
  <2>2. \A t \in Savers : <<saves[t].kind, saves[t].id>> \in S!Names /\ <<saves[t].kind, "latest">> \in S!Names
    BY <1>1, TargetPlace
  <2>3. at \in {"latest", "saved"} => stored'[n] \in {"torn", s}
    BY <1>0
  <2>4. at = "latest" => n = <<saves[s].kind, saves[s].id>>
    BY <1>0 DEF S!Target, SaveGoesOn
  <2>5. at = "saved" => n = <<saves[s].kind, "latest">> /\ saves[s].at \in {"latest", "latest open"}
    BY <1>0 DEF S!Target, SaveGoesOn
  <2>6. at = "latest open" => saves[s].at = "latest"
    BY <1>0
  <2>7. /\ at \in {"latest", "latest open", "saved"} => stored'[<<saves[s].kind, saves[s].id>>] # "missing"
        /\ at = "saved" => stored'[<<saves[s].kind, "latest">>] # "missing"
    BY <1>1, <2>1, <2>2, <2>3, <2>4, <2>5, <2>6, SaversApart DEF Left
  <2>8. ASSUME NEW t \in Savers, t # s
        PROVE  /\ saves[t].at \in {"latest", "latest open", "saved"} =>
                    stored'[<<saves[t].kind, saves[t].id>>] # "missing"
               /\ saves[t].at = "saved" => stored'[<<saves[t].kind, "latest">>] # "missing"
    BY <1>1, <2>1, <2>2 DEF Left
  <2> QED
    BY <1>3, <2>7, <2>8 DEF Left
<1>10. Torn'
  <2>1. \A t \in Savers : S!Files(t)' = S!Files(t) /\ (t # s => S!Target(t)' = S!Target(t))
    BY <1>3 DEF S!Files, S!Target
  <2>2. overlaps \subseteq overlaps' /\ n \in S!Files(s)
    BY <1>2 DEF SaveMoves, S!Target, S!Files
  <2>3. ASSUME NEW t \in Savers, saves'[t].at \in {"id open", "latest open"}
        PROVE  provider' = "file"
    <3>1. CASE t # s
      BY <1>1, <1>3, <1>5, <2>3, <3>1 DEF Torn
    <3>2. CASE t = s
      BY <1>2, <1>3, <1>5, <2>3, <3>2 DEF SaveGoesOn
    <3> QED
      BY <3>1, <3>2
  <2>4. ASSUME NEW m \in S!Names, stored'[m] = "torn"
        PROVE  provider' = "file" /\ \E t \in Savers : Tears(t, m)'
    <3>1. CASE stored[m] = "torn"
      <4>1. PICK t \in Savers : Tears(t, m)
        BY <1>1, <3>1 DEF Torn
      <4>2. provider' = "file"
        BY <1>1, <1>5, <3>1 DEF Torn
      <4>3. CASE t # s \/ <<t, m>> \in overlaps
        BY <1>3, <2>1, <2>2, <4>1, <4>2, <4>3 DEF Tears
      <4>4. CASE t = s /\ <<t, m>> \notin overlaps
        <5>1. saves[s].at \in {"id open", "latest open"} /\ n = m
          BY <1>2, <4>1, <4>4 DEF Tears, SaveMoves
        <5>2. at = "failed"
          BY <1>0, <2>4, <4>4, <5>1, SaversApart
        <5> QED
          BY <1>3, <2>1, <2>2, <4>2, <5>1, <5>2 DEF Tears
      <4> QED
        BY <4>3, <4>4
    <3>2. CASE stored[m] # "torn"
      <4>1. m = n /\ stored' # stored
        BY <1>6, <2>4, <3>2
      <4>2. provider' = "file"
        BY <1>0, <1>5, <2>4, <4>1
      <4>3. CASE at = "failed" \/ <<s, n>> \in overlaps
        BY <1>3, <2>1, <2>2, <4>1, <4>2, <4>3 DEF Tears
      <4>4. CASE at \in {"id open", "latest open"}
        <5>1. S!Target(s)' = n
          BY <1>0, <1>3, <4>4 DEF S!Target
        <5> QED
          BY <1>3, <2>1, <2>2, <4>1, <4>2, <4>4, <5>1 DEF Tears
      <4> QED
        BY <1>0, <2>4, <3>2, <4>1, <4>3, <4>4, SaversApart
    <3> QED
      BY <3>1, <3>2
  <2> QED
    BY <2>3, <2>4 DEF Torn
<1> QED
  BY <1>7, <1>8, <1>9, <1>10

\* A call begins with all it has to look at.
LEMMA CallStep ==
  ASSUME StoreInv, NEW op \in S!Ops, S!Call(op)
  PROVE  StoreInv'
<1>1. StoreTypeOK /\ InPlace /\ Left /\ Torn
  BY DEF StoreInv
<1>2. UNCHANGED <<provider, stored, saves, overlaps>>
  BY DEF S!Call
<1>3. /\ reader'.at = (IF provider = "no package" THEN "rejected" ELSE "reading")
      /\ reader'.op = op /\ reader'.names = S!Wanted(op) /\ reader'.found = {}
      /\ reader'.before = {s \in Savers : saves[s].at = "saved"}
      /\ reader' \in [at : {"rejected", "reading"}, op : S!Ops, names : {S!Wanted(op)}, found : {{}},
                      before : {{s \in Savers : saves[s].at = "saved"}}]
  BY DEF S!Call
<1>4. S!Wanted(op) \subseteq S!Names
  BY DEF S!Wanted, S!Listing, S!Names, S!Ops
<1>5. reader' \in Readers
  BY <1>3, <1>4 DEF Readers
<1>6. StoreTypeOK'
  BY <1>1, <1>2, <1>5 DEF StoreTypeOK
<1>7. InPlace' /\ Left' /\ Torn'
  <2>1. \A s \in Savers : S!Target(s)' = S!Target(s) /\ S!Files(s)' = S!Files(s)
    BY <1>2 DEF S!Target, S!Files
  <2> QED
    BY <1>1, <1>2, <2>1 DEF InPlace, Left, Torn, Tears
<1>8. BeforeSaved'
  BY <1>2, <1>3 DEF BeforeSaved
<1>9. Reading'
  <2>1. ASSUME NEW s \in Savers, saves[s].at = "saved", saves[s].kind = op.kind,
               op.op = "load" => saves[s].id = op.id
        PROVE  <<op.kind, IF op.op = "list" THEN saves[s].id ELSE op.id>> \in S!Wanted(op)
    <3>1. CASE op.op = "list"
      <4>1. saves[s].id \in ArtifactIds /\ saves[s].id # "latest" /\ op.kind \in Kinds
        BY <1>1, <2>1, StoreAssumption DEF StoreTypeOK, Saves
      <4>2. stored[<<op.kind, saves[s].id>>] # "missing"
        BY <1>1, <2>1 DEF Left
      <4>3. <<op.kind, saves[s].id>> \in S!Names
        BY <4>1 DEF S!Names
      <4> QED
        BY <3>1, <4>1, <4>2, <4>3 DEF S!Wanted, S!Listing
    <3>2. CASE op.op # "list"
      BY <3>2 DEF S!Wanted
    <3> QED
      BY <3>1, <3>2
  <2>2. op.op = "load" => S!Wanted(op) = {<<op.kind, op.id>>}
    BY DEF S!Wanted
  <2>3. \A s \in reader'.before : s \in Savers /\ saves[s].at = "saved"
    BY <1>3
  <2>4. \A s \in reader'.before :
          saves'[s].kind = op.kind /\ (op.op = "load" => saves'[s].id = op.id) => Finds(s)'
    BY <1>2, <1>3, <2>1, <2>3 DEF Finds
  <2> QED
    BY <1>3, <2>2, <2>4 DEF Reading
<1>10. Returned' /\ Refused'
  BY <1>2, <1>3 DEF Returned, Refused
<1> QED
  BY <1>6, <1>7, <1>8, <1>9, <1>10 DEF StoreInv

\* What a read meets: a torn file or nothing refuses the call, the rest is found.
LEMMA ReadStep ==
  ASSUME StoreInv, NEW n \in S!Names, S!Read(n)
  PROVE  StoreInv'
<1>1. /\ StoreTypeOK /\ InPlace /\ Left /\ Torn /\ BeforeSaved /\ Reading
      /\ reader.at = "reading" /\ n \in reader.names
  BY DEF StoreInv, S!Read
<1>2. UNCHANGED <<provider, stored, saves, overlaps>>
  BY DEF S!Read
<1>3. /\ reader \in Readers /\ reader.op \in S!Ops /\ reader.names \subseteq S!Names
      /\ reader.before \subseteq Savers /\ reader.found \subseteq Savers
  BY <1>1, ReaderTyped
<1>4. InPlace' /\ Left' /\ Torn'
  <2>1. \A s \in Savers : S!Target(s)' = S!Target(s) /\ S!Files(s)' = S!Files(s)
    BY <1>2 DEF S!Target, S!Files
  <2> QED
    BY <1>1, <1>2, <2>1 DEF InPlace, Left, Torn, Tears
<1>5. CASE S!Unreadable(n)
  <2>1. reader' = [reader EXCEPT !.at = "rejected"]
    BY <1>5 DEF S!Read
  <2>2. /\ reader' \in Readers /\ reader'.at = "rejected" /\ reader'.op = reader.op
        /\ reader'.before = reader.before /\ reader'.names = reader.names
    BY <1>3, <2>1 DEF Readers
  <2>3. StoreTypeOK' /\ BeforeSaved' /\ Reading' /\ Returned'
    BY <1>1, <1>2, <2>2 DEF StoreTypeOK, BeforeSaved, Reading, Returned
  <2>4. CASE stored[n] = "torn"
    <3>1. PICK s \in Savers : Tears(s, n)
      BY <1>1, <1>3, <2>4 DEF Torn
    <3>2. provider = "file"
      BY <1>1, <1>3, <2>4 DEF Torn
    <3>3. /\ n \in S!Files(s)
          /\ (s \notin reader.before /\ saves[s].at # "new") \/ <<s, n>> \in overlaps
      BY <1>1, <3>1 DEF BeforeSaved, Tears
    <3>4. n \in S!Files(s)'
      BY <1>2, <3>3 DEF S!Files
    <3>5. Refused'
      BY <1>1, <1>2, <2>2, <3>2, <3>3, <3>4 DEF Refused
    <3> QED
      BY <1>4, <2>3, <3>5 DEF StoreInv
  <2>5. CASE stored[n] = "missing" /\ reader.op.op = "load"
    <3>1. n = <<reader.op.kind, reader.op.id>>
      BY <1>1, <2>5 DEF Reading
    <3>2. \A s \in reader.before : s \in Savers /\ n \notin S!Files(s)
      BY <1>1, <1>3, <2>5 DEF BeforeSaved, Left, S!Files
    <3>3. \A s \in reader.before : n \notin S!Files(s)'
      BY <1>2, <3>2 DEF S!Files
    <3>4. Refused'
      BY <1>1, <1>2, <2>2, <2>5, <3>3 DEF Refused
    <3> QED
      BY <1>4, <2>3, <3>4 DEF StoreInv
  <2> QED
    BY <1>5, <2>4, <2>5 DEF S!Unreadable
<1>6. CASE ~S!Unreadable(n)
  <2> DEFINE more == {stored[n]} \ {"missing"}
  <2>1. reader' = [reader EXCEPT !.names = @ \ {n}, !.found = @ \cup more]
    BY <1>6 DEF S!Read
  <2>2. stored[n] \in Savers \cup {"missing"} /\ more \subseteq Savers
    BY <1>1, <1>3, <1>6 DEF S!Unreadable, StoreTypeOK
  <2>3. /\ reader' \in Readers /\ reader'.at = "reading" /\ reader'.op = reader.op
        /\ reader'.before = reader.before
        /\ reader'.names = reader.names \ {n} /\ reader'.found = reader.found \cup more
    BY <1>1, <1>3, <2>1, <2>2 DEF Readers
  <2>4. StoreTypeOK' /\ BeforeSaved' /\ Returned' /\ Refused'
    BY <1>1, <1>2, <2>3 DEF StoreTypeOK, BeforeSaved, Returned, Refused
  <2>5. ASSUME NEW s \in reader.before, saves[s].kind = reader.op.kind,
               reader.op.op = "load" => saves[s].id = reader.op.id, Finds(s)
        PROVE  Finds(s)'
    <3> DEFINE place == <<reader.op.kind, IF reader.op.op = "list" THEN saves[s].id ELSE reader.op.id>>
    <3>1. S!Twins(s)' = S!Twins(s)
      BY <1>2 DEF S!Twins
    <3>2. CASE place # n
      BY <1>2, <2>3, <2>5, <3>1, <3>2 DEF Finds
    <3>3. CASE place = n
      <4>1. saves[s].at = "saved" /\ s \in Savers
        BY <1>1, <1>3 DEF BeforeSaved
      <4>2. stored[n] # "missing"
        <5>1. CASE reader.op.op \in {"list", "load"}
          BY <1>1, <2>5, <3>3, <4>1, <5>1 DEF Left
        <5>2. CASE reader.op.op = "latest"
          <6>1. reader.op.id = "latest"
            BY <1>3, <5>2 DEF S!Ops
          <6> QED
            BY <1>1, <2>5, <3>3, <4>1, <5>2, <6>1 DEF Left
        <5> QED
          BY <1>3, <5>1, <5>2 DEF S!Ops
      <4>3. stored[n] \in Savers /\ stored[n] \in reader'.found
        BY <2>2, <2>3, <4>2
      <4>4. reader.op.op = "list" => stored[n] \in S!Twins(s)
        <5>1. reader.op.op = "list" => n = <<saves[s].kind, saves[s].id>> /\ saves[s].id # "latest"
          <6>1. saves[s].id \in ArtifactIds
            BY <1>1, <4>1 DEF StoreTypeOK, Saves
          <6> QED
            BY <2>5, <3>3, <6>1, StoreAssumption
        <5> QED
          BY <1>1, <1>3, <4>3, <5>1 DEF InPlace, S!Twins
      <4> QED
        BY <2>3, <3>1, <4>3, <4>4 DEF Finds
    <3> QED
      BY <3>2, <3>3
  <2>6. reader.op.op = "load" =>
          /\ reader'.names \subseteq {<<reader.op.kind, reader.op.id>>}
          /\ \A t \in reader'.found : saves[t].kind = reader.op.kind /\ saves[t].id = reader.op.id
    <3>1. ASSUME reader.op.op = "load"
          PROVE  n = <<reader.op.kind, reader.op.id>> /\ reader.op.id # "latest"
      BY <1>1, <1>3, <3>1, StoreAssumption DEF Reading, S!Ops
    <3>2. \A t \in more : t \in Savers /\ t = stored[n]
      BY <2>2
    <3> QED
      BY <1>1, <1>3, <2>3, <3>1, <3>2 DEF Reading, InPlace
  <2>7. Reading'
    BY <1>1, <1>2, <2>3, <2>5, <2>6 DEF Reading
  <2> QED
    BY <1>4, <2>4, <2>7 DEF StoreInv
<1> QED
  BY <1>5, <1>6

\* A cut list holds as many as its limit, all newer than what it leaves out.
LEMMA CutAtLimit ==
  ASSUME NEW found \in SUBSET Savers, NEW limit \in Nat, NEW kept \in S!First(found, limit), kept # found
  PROVE  /\ kept \subseteq found /\ Cardinality(kept) = limit
         /\ \A s \in kept, t \in found \ kept : saves[s].createdAt >= saves[t].createdAt
<1>1. /\ kept \subseteq found
      /\ Cardinality(kept) = IF Cardinality(found) < limit THEN Cardinality(found) ELSE limit
      /\ \A s \in kept, t \in found \ kept : saves[s].createdAt >= saves[t].createdAt
  BY SameCounts DEF S!First
<1>2. IsFiniteSet(found)
  BY StoreAssumption, FS_Subset
<1>3. Cardinality(kept) # Cardinality(found)
  BY <1>1, <1>2, FS_Subset
<1> QED
  BY <1>1, <1>3

\* A call returns what it found, all of it or the newest.
LEMMA ReturnStep ==
  ASSUME StoreInv, S!Return
  PROVE  StoreInv'
<1>1. /\ StoreTypeOK /\ InPlace /\ Left /\ Torn /\ BeforeSaved /\ Reading
      /\ reader.at = "reading" /\ reader.names = {}
  BY DEF StoreInv, S!Return
<1>2. UNCHANGED <<provider, stored, saves, overlaps>>
  BY DEF S!Return
<1>3. /\ reader \in Readers /\ reader.op \in S!Ops
      /\ reader.before \subseteq Savers /\ reader.found \subseteq Savers
  BY <1>1, ReaderTyped
<1>4. InPlace' /\ Left' /\ Torn'
  <2>1. \A s \in Savers : S!Target(s)' = S!Target(s) /\ S!Files(s)' = S!Files(s)
    BY <1>2 DEF S!Target, S!Files
  <2> QED
    BY <1>1, <1>2, <2>1 DEF InPlace, Left, Torn, Tears
<1>5. PICK kept : /\ kept \in IF reader.op.op = "list" THEN S!First(reader.found, reader.op.limit) ELSE {reader.found}
                  /\ reader' = [reader EXCEPT !.at = "returned", !.found = kept]
  BY DEF S!Return
<1>6. kept \subseteq reader.found
  BY <1>5 DEF S!First
<1>7. /\ reader' \in Readers /\ reader'.at = "returned" /\ reader'.op = reader.op
      /\ reader'.before = reader.before /\ reader'.found = kept
  BY <1>3, <1>5, <1>6 DEF Readers
<1>8. StoreTypeOK' /\ BeforeSaved' /\ Reading' /\ Refused'
  BY <1>1, <1>2, <1>7 DEF StoreTypeOK, BeforeSaved, Reading, Refused
<1>9. ASSUME NEW s \in reader.before, saves[s].kind = reader.op.kind
      PROVE  /\ reader.op.op = "load" /\ saves[s].id = reader.op.id =>
                  kept # {} /\ kept \subseteq S!Twins(s)
             /\ reader.op.op = "latest" => kept # {}
             /\ reader.op.op = "list" =>
                  \E t \in S!Twins(s) :
                    \/ t \in kept
                    \/ /\ Cardinality(kept) = reader.op.limit
                       /\ \A u \in kept : saves[u].createdAt >= saves[t].createdAt
  <2>1. (reader.op.op = "load" => saves[s].id = reader.op.id) =>
          IF reader.op.op = "list" THEN \E t \in S!Twins(s) : t \in reader.found ELSE reader.found # {}
    BY <1>1, <1>9 DEF Reading, Finds
  <2>2. ASSUME reader.op.op = "load", saves[s].id = reader.op.id
        PROVE  kept # {} /\ kept \subseteq S!Twins(s)
    <3>1. kept = reader.found /\ kept # {}
      BY <1>5, <2>1, <2>2
    <3>2. \A t \in reader.found : t \in Savers /\ saves[t].kind = reader.op.kind /\ saves[t].id = reader.op.id
      BY <1>1, <1>3, <2>2 DEF Reading
    <3> QED
      BY <1>9, <2>2, <3>1, <3>2 DEF S!Twins
  <2>3. reader.op.op = "latest" => kept # {}
    BY <1>5, <2>1
  <2>4. ASSUME reader.op.op = "list"
        PROVE  \E t \in S!Twins(s) :
                 \/ t \in kept
                 \/ /\ Cardinality(kept) = reader.op.limit
                    /\ \A u \in kept : saves[u].createdAt >= saves[t].createdAt
    <3>1. PICK t \in S!Twins(s) : t \in reader.found
      BY <2>1, <2>4
    <3>2. CASE t \in kept
      BY <3>2
    <3>3. CASE t \notin kept
      <4>1. kept \in S!First(reader.found, reader.op.limit) /\ kept # reader.found
        BY <1>5, <2>4, <3>1, <3>3
      <4>2. reader.op.limit \in Nat
        <5>1. reader.op.limit = 0 \/ reader.op.limit \in ListLimits
          BY <1>3 DEF S!Ops
        <5> QED
          BY <5>1, LimitsCount
      <4> QED
        BY <1>3, <3>1, <3>3, <4>1, <4>2, CutAtLimit
    <3> QED
      BY <3>2, <3>3
  <2> QED
    BY <2>2, <2>3, <2>4
<1>10. Returned'
  <2>1. \A s : S!Twins(s)' = S!Twins(s)
    BY <1>2 DEF S!Twins
  <2> QED
    BY <1>2, <1>7, <1>9, <2>1 DEF Returned
<1> QED
  BY <1>4, <1>8, <1>10 DEF StoreInv

\* Every step of ResultStore keeps its invariant.
LEMMA StoreStep ==
  StoreInv /\ S!Next => StoreInv'
<1> SUFFICES ASSUME StoreInv, S!Next PROVE StoreInv'
  OBVIOUS
<1>1. ASSUME NEW s \in Savers, S!Begin(s) \/ S!Open(s) \/ S!Write(s) \/ S!Put(s) \/ S!SaveFails(s)
      PROVE  StoreInv'
  <2>1. StoreTypeOK' /\ InPlace' /\ Left' /\ Torn'
    BY <1>1, StoredKept
  <2>2. \E at : SaveMoves(s, at)
    BY <1>1, SaveSteps DEF StoreInv
  <2>3. BeforeSaved' /\ Reading' /\ Returned' /\ Refused'
    BY <2>2, ReaderKept
  <2> QED
    BY <2>1, <2>3 DEF StoreInv
<1> QED
  BY <1>1, CallStep, ReadStep, ReturnStep DEF S!Next

\* ResultStore begins as the invariant says.
LEMMA StoreStart ==
  S!Init => StoreInv
<1> SUFFICES ASSUME S!Init PROVE StoreInv
  OBVIOUS
<1>1. reader = S!Idle /\ reader.at = "idle" /\ overlaps = {}
  BY DEF S!Init, S!Idle
<1>2. /\ \A n \in S!Names : stored[n] = "missing"
      /\ stored \in [S!Names -> {"missing", "torn"} \cup Savers]
  BY DEF S!Init
<1>3. /\ saves \in [Savers -> [at : {"new"}, kind : Kinds, id : ArtifactIds, createdAt : 1..2]]
      /\ provider \in {"file", "gcs", "no package"}
  BY DEF S!Init
<1>4. saves \in [Savers -> Saves] /\ \A s \in Savers : saves[s].at = "new"
  <2>0. "new" \in Stages /\ 1..2 \subseteq Nat
    BY DEF Stages
  <2>1. \A r \in [at : {"new"}, kind : Kinds, id : ArtifactIds, createdAt : 1..2] : r \in Saves /\ r.at = "new"
    BY <2>0 DEF Saves
  <2> QED
    BY <1>3, <2>1
<1>5. StoreTypeOK
  BY <1>1, <1>2, <1>3, <1>4 DEF StoreTypeOK
<1>6. InPlace /\ Left /\ Torn
  BY <1>2, <1>4, SaversApart DEF InPlace, Left, Torn
<1>7. BeforeSaved /\ Reading /\ Returned /\ Refused
  BY <1>1 DEF BeforeSaved, Reading, Returned, Refused
<1> QED
  BY <1>5, <1>6, <1>7 DEF StoreInv

\* The invariant gives what the run checks.
LEMMA StoreFinds ==
  StoreInv => S!StoredIsFound
<1> SUFFICES ASSUME StoreInv PROVE S!StoredIsFound
  OBVIOUS
<1>1. ASSUME reader.at = "returned",
             NEW s \in {t \in reader.before : saves[t].kind = reader.op.kind}
      PROVE  CASE reader.op.op = "load" ->
                    saves[s].id = reader.op.id => reader.found # {} /\ reader.found \subseteq S!Twins(s)
               [] reader.op.op = "latest" -> reader.found # {}
               [] reader.op.op = "list" ->
                    \E t \in S!Twins(s) :
                      \/ t \in reader.found
                      \/ /\ S!Cardinality(reader.found) = reader.op.limit
                         /\ \A u \in reader.found : saves[u].createdAt >= saves[t].createdAt
  <2>1. reader.op.op \in {"load", "latest", "list"}
    BY <1>1, ReaderTyped DEF StoreInv, S!Ops
  <2>2. Returned
    BY DEF StoreInv
  <2> QED
    BY <1>1, <2>1, <2>2, SameCounts DEF Returned
<1>2. ASSUME reader.at = "rejected", provider # "no package"
      PROVE  \E n \in reader.names :
               \/ reader.op.op = "load" /\ \A s \in reader.before : n \notin S!Files(s)
               \/ /\ provider = "file"
                  /\ \E s \in Savers :
                       /\ n \in S!Files(s)
                       /\ (s \notin reader.before /\ saves[s].at # "new") \/ <<s, n>> \in overlaps
  BY <1>2 DEF StoreInv, Refused
<1> QED
  BY <1>1, <1>2 DEF S!StoredIsFound

-------------------------------------------------------------------------------
(* The judges of Expectations: one has passed only with all of its repetitions.        *)

Judges == DOMAIN block.passesJudge
JudgeStates == {"asking", "passed", "failed"}

JudgesTypeOK ==
  /\ \E input \in Inputs : block = input[2]
  /\ pc \in {"checks", "judging", "snapshot", "done", "threw"}
  /\ pc \in {"judging", "snapshot", "done"} =>
       judges \in [Judges -> [scores : Seq(Int), status : JudgeStates]]

\* A judge that is asked has scores left to give; one that passed gave them all.
AllGiven ==
  pc \in {"judging", "snapshot", "done"} =>
    \A i \in Judges :
      /\ judges[i].status = "asking" => Len(judges[i].scores) < E!Reps(block.passesJudge[i])
      /\ judges[i].status = "passed" =>
           /\ Len(judges[i].scores) = E!Reps(block.passesJudge[i])
           /\ E!Total(judges[i].scores) >= block.passesJudge[i].threshold * E!Reps(block.passesJudge[i])

\* The verdict on the judges, once there is one, is that of all of them.
Joined ==
  pc \in {"snapshot", "done"} /\ block.passesJudge # <<>> =>
    /\ "judge" \in DOMAIN results
    /\ results["judge"] => \A i \in Judges : judges[i].status = "passed"

JudgingInv == JudgesTypeOK /\ AllGiven /\ Joined

\* The repetitions of a judge are a number.
LEMMA RepsNumber ==
  ASSUME JudgesTypeOK, NEW i \in Judges
  PROVE  E!Reps(block.passesJudge[i]) \in Nat
<1>1. block.passesJudge[i].reps \in Nat
  BY RepsAssumption DEF JudgesTypeOK, Judges
<1> QED
  BY <1>1 DEF E!Reps

\* One score more, or a failure.
LEMMA JudgeMoves ==
  ASSUME JudgesTypeOK, pc = "judging", NEW i \in DOMAIN judges, NEW score \in Int,
         E!Score(i, score) \/ judges' = [judges EXCEPT ![i] = [status |-> "failed", scores |-> <<>>]]
  PROVE  \E s \in Seq(Int), verdict \in JudgeStates :
           /\ judges' = [judges EXCEPT ![i] = [status |-> verdict, scores |-> s]]
           /\ \/ verdict = "failed"
              \/ /\ Len(s) = Len(judges[i].scores) + 1
                 /\ verdict = E!Judged(block.passesJudge[i], s)
<1>1. i \in Judges /\ judges[i].scores \in Seq(Int)
  BY DEF JudgesTypeOK
<1>2. CASE judges' = [judges EXCEPT ![i] = [status |-> "failed", scores |-> <<>>]]
  BY <1>2, EmptySeq DEF JudgeStates
<1>3. CASE E!Score(i, score)
  <2> DEFINE s == Append(judges[i].scores, score)
  <2>1. s \in Seq(Int) /\ Len(s) = Len(judges[i].scores) + 1
    BY <1>1, AppendProperties
  <2>2. E!Judged(block.passesJudge[i], s) \in JudgeStates
    BY DEF E!Judged, JudgeStates
  <2>3. judges' = [judges EXCEPT ![i] = [status |-> E!Judged(block.passesJudge[i], s), scores |-> s]]
    BY <1>3 DEF E!Score
  <2> QED
    BY <2>1, <2>2, <2>3
<1> QED
  BY <1>2, <1>3

\* The answers of the judges: a judge passes with its last repetition or not at all.
LEMMA JudgeStep ==
  ASSUME JudgingInv, NEW i \in DOMAIN judges,
         E!JudgeFails(i) \/ \E s \in 0..MaxScore, c \in BOOLEAN : E!JudgeAnswers(i, s, c)
  PROVE  JudgingInv'
<1>1. pc = "judging" /\ judges[i].status = "asking" /\ UNCHANGED <<answer, block, pc, results>>
  BY DEF E!JudgeFails, E!JudgeAnswers
<1>2. JudgesTypeOK /\ AllGiven
  BY DEF JudgingInv
<1>3. /\ judges \in [Judges -> [scores : Seq(Int), status : JudgeStates]] /\ i \in Judges
      /\ judges[i].scores \in Seq(Int)
  BY <1>1, <1>2 DEF JudgesTypeOK
<1>4. \E score \in Int :
        E!Score(i, score) \/ judges' = [judges EXCEPT ![i] = [status |-> "failed", scores |-> <<>>]]
  <2>1. CASE E!JudgeFails(i)
    BY <2>1 DEF E!JudgeFails
  <2>2. ASSUME NEW s \in 0..MaxScore, NEW c \in BOOLEAN, E!JudgeAnswers(i, s, c)
        PROVE  \/ E!Score(i, 0) \/ E!Score(i, s)
               \/ judges' = [judges EXCEPT ![i] = [status |-> "failed", scores |-> <<>>]]
    BY <2>2 DEF E!JudgeAnswers
  <2> QED
    BY <2>1, <2>2
<1>5. PICK s \in Seq(Int), verdict \in JudgeStates :
        /\ judges' = [judges EXCEPT ![i] = [status |-> verdict, scores |-> s]]
        /\ \/ verdict = "failed"
           \/ /\ Len(s) = Len(judges[i].scores) + 1
              /\ verdict = E!Judged(block.passesJudge[i], s)
  BY <1>1, <1>2, <1>4, JudgeMoves
<1>6. /\ judges'[i].status = verdict /\ judges'[i].scores = s
      /\ \A j \in Judges : j # i => judges'[j] = judges[j]
      /\ judges' \in [Judges -> [scores : Seq(Int), status : JudgeStates]]
  BY <1>3, <1>5
<1>7. JudgesTypeOK'
  BY <1>1, <1>2, <1>6 DEF JudgesTypeOK, Judges
<1>8. AllGiven'
  <2> DEFINE reps == E!Reps(block.passesJudge[i])
  <2>1. Len(judges[i].scores) \in Nat /\ Len(s) \in Nat /\ reps \in Nat
    BY <1>2, <1>3, <1>5, LenProperties, RepsNumber
  <2>2. Len(judges[i].scores) < reps
    BY <1>1, <1>2, <1>3 DEF AllGiven
  <2>3. ASSUME verdict # "failed"
        PROVE  /\ verdict = "asking" => Len(s) < reps
               /\ verdict = "passed" =>
                    Len(s) = reps /\ E!Total(s) >= block.passesJudge[i].threshold * reps
    <3>1. Len(s) = Len(judges[i].scores) + 1 /\ verdict = E!Judged(block.passesJudge[i], s)
      BY <1>5, <2>3
    <3>2. ~(Len(s) < reps) => Len(s) = reps
      BY <2>1, <2>2, <3>1
    <3>3. \/ verdict = "asking" /\ Len(s) < reps
          \/ /\ verdict \in {"passed", "failed"} /\ ~(Len(s) < reps)
             /\ verdict = "passed" => E!Total(s) >= block.passesJudge[i].threshold * reps
      BY <3>1 DEF E!Judged
    <3> QED
      BY <3>2, <3>3
  <2>4. /\ judges'[i].status = "asking" => Len(judges'[i].scores) < reps
        /\ judges'[i].status = "passed" =>
             Len(judges'[i].scores) = reps /\ E!Total(judges'[i].scores) >= block.passesJudge[i].threshold * reps
    BY <1>6, <2>3
  <2>5. ASSUME NEW j \in Judges
        PROVE  /\ judges'[j].status = "asking" => Len(judges'[j].scores) < E!Reps(block.passesJudge[j])
               /\ judges'[j].status = "passed" =>
                    /\ Len(judges'[j].scores) = E!Reps(block.passesJudge[j])
                    /\ E!Total(judges'[j].scores) >= block.passesJudge[j].threshold * E!Reps(block.passesJudge[j])
    <3>1. CASE j = i
      BY <2>4, <3>1
    <3>2. CASE j # i
      BY <1>1, <1>2, <1>6, <3>2 DEF AllGiven
    <3> QED
      BY <3>1, <3>2
  <2> QED
    BY <1>1, <2>5 DEF AllGiven, Judges
<1>9. Joined'
  BY <1>1 DEF Joined
<1> QED
  BY <1>7, <1>8, <1>9 DEF JudgingInv

\* Every step of the judges keeps their invariant.
LEMMA JudgingStep ==
  JudgingInv /\ E!Next => JudgingInv'
<1> SUFFICES ASSUME JudgingInv, E!Next PROVE JudgingInv'
  OBVIOUS
<1>0. JudgesTypeOK /\ AllGiven /\ Joined
  BY DEF JudgingInv
<1>1. CASE E!Throw
  <2>1. pc' = "threw" /\ block' = block
    BY <1>1 DEF E!Throw
  <2>2. JudgesTypeOK' /\ AllGiven' /\ Joined'
    BY <1>0, <2>1 DEF JudgesTypeOK, AllGiven, Joined
  <2> QED
    BY <2>2 DEF JudgingInv
<1>2. CASE E!Check
  <2>1. /\ block' = block /\ judges' = [i \in Judges |-> E!StartJudge(block.passesJudge[i])]
        /\ pc' = IF block.passesJudge = <<>> THEN "snapshot" ELSE "judging"
    BY <1>2 DEF E!Check, Judges
  <2>2. ASSUME NEW i \in Judges
        PROVE  /\ judges'[i] \in [scores : Seq(Int), status : JudgeStates]
               /\ judges'[i].status \in {"asking", "failed"}
               /\ judges'[i].status = "asking" => Len(judges'[i].scores) < E!Reps(block.passesJudge[i])
    <3>1. judges'[i] = E!StartJudge(block.passesJudge[i]) /\ Len(<<>>) = 0 /\ <<>> \in Seq(Int)
      BY <2>1, EmptySeq
    <3>2. E!Reps(block.passesJudge[i]) \in Nat
      BY <1>0, RepsNumber
    <3>3. /\ judges'[i].scores = <<>> /\ judges'[i].status \in {"asking", "failed"}
          /\ judges'[i].status = "asking" => E!Reps(block.passesJudge[i]) > 0
          /\ judges'[i] \in [scores : {<<>>}, status : {"asking", "failed"}]
      BY <3>1 DEF E!StartJudge
    <3>4. judges'[i] \in [scores : Seq(Int), status : JudgeStates]
      BY <3>1, <3>3 DEF JudgeStates
    <3> QED
      BY <3>1, <3>2, <3>3, <3>4
  <2>3. judges' \in [Judges -> [scores : Seq(Int), status : JudgeStates]]
    BY <2>1, <2>2
  <2>4. JudgesTypeOK'
    BY <1>0, <2>1, <2>3 DEF JudgesTypeOK, Judges
  <2>5. AllGiven'
    BY <2>1, <2>2 DEF AllGiven, Judges
  <2>6. Joined'
    BY <2>1 DEF Joined
  <2> QED
    BY <2>4, <2>5, <2>6 DEF JudgingInv
<1>3. CASE E!Join
  <2>1. /\ UNCHANGED <<block, judges>> /\ pc = "judging" /\ pc' = "snapshot"
        /\ results' = [f \in DOMAIN results \cup {"judge"} |->
                         IF f = "judge" THEN \A i \in DOMAIN judges : judges[i].status = "passed"
                         ELSE results[f]]
    BY <1>3 DEF E!Join
  <2>2. DOMAIN judges = Judges
    BY <1>0, <2>1 DEF JudgesTypeOK
  <2>3. "judge" \in DOMAIN results'
    BY <2>1
  <2>4. results'["judge"] => \A i \in Judges : judges[i].status = "passed"
    BY <2>1, <2>2
  <2>5. JudgesTypeOK' /\ AllGiven'
    BY <1>0, <2>1 DEF JudgesTypeOK, AllGiven, Judges
  <2>6. Joined'
    BY <2>1, <2>3, <2>4 DEF Joined, Judges
  <2> QED
    BY <2>5, <2>6 DEF JudgingInv
<1>4. ASSUME NEW i \in DOMAIN judges,
             E!JudgeFails(i) \/ \E s \in 0..MaxScore, c \in BOOLEAN : E!JudgeAnswers(i, s, c)
      PROVE  JudgingInv'
  BY <1>4, JudgeStep
<1>5. ASSUME NEW m \in BOOLEAN, E!Snapshot(m)
      PROVE  JudgingInv'
  <2>1. /\ UNCHANGED <<block, judges>> /\ pc = "snapshot" /\ pc' = "done"
        /\ \/ results' = results
           \/ results' = [f \in DOMAIN results \cup {"snapshot"} |->
                            IF f = "snapshot" THEN block.snapshot[1].hasExpect /\ m ELSE results[f]]
    BY <1>5 DEF E!Snapshot
  <2>2. "judge" \in DOMAIN results => "judge" \in DOMAIN results' /\ results'["judge"] = results["judge"]
    BY <2>1
  <2>3. JudgesTypeOK' /\ AllGiven'
    BY <1>0, <2>1 DEF JudgesTypeOK, AllGiven, Judges
  <2>4. Joined'
    BY <1>0, <2>1, <2>2 DEF Joined, Judges
  <2> QED
    BY <2>3, <2>4 DEF JudgingInv
<1> QED
  BY <1>1, <1>2, <1>3, <1>4, <1>5 DEF E!Next

\* The judges begin as the invariant says.
LEMMA JudgingStart ==
  E!Init => JudgingInv
BY DEF E!Init, JudgingInv, JudgesTypeOK, AllGiven, Joined

\* The invariant gives what the run checks.
LEMMA JudgesAgree ==
  JudgingInv => E!JudgesUnanimous
<1> SUFFICES ASSUME JudgingInv, E!Passed, block.passesJudge # <<>>, NEW i \in Judges
             PROVE  /\ Len(judges[i].scores) = E!Reps(block.passesJudge[i])
                    /\ E!Total(judges[i].scores) >= block.passesJudge[i].threshold * Len(judges[i].scores)
  BY DEF E!JudgesUnanimous, Judges
<1>1. pc = "done" /\ "judge" \in DOMAIN results /\ results["judge"]
  BY DEF E!Passed, JudgingInv, Joined
<1>2. judges[i].status = "passed"
  BY <1>1 DEF JudgingInv, Joined
<1> QED
  BY <1>1, <1>2 DEF JudgingInv, AllGiven

-------------------------------------------------------------------------------
(* Strict order: the greedy search of validateToolCalls, by induction on the calls.     *)

\* A set of numbers has a least one, and one that goes up from 0 has them all.
LEMMA Least == ASSUME NEW T, T \subseteq Nat, T # {} PROVE \E x \in T : \A y \in T : x <= y
<1> DEFINE R == OpToRel(<, Nat)
<1>1. IsWellFoundedOn(R, Nat)
  BY NatLessThanWellFounded
<1>2. \A x, y \in Nat : x < y => <<x, y>> \in R
  BY DEF OpToRel
<1> HIDE DEF R
<1>3. PICK x \in T : \A y \in T : ~ (<<y, x>> \in R)
  BY <1>1, WFMin
<1>4. \A y \in T : x <= y
  <2> TAKE y \in T
  <2>1. x \in Nat /\ y \in Nat
    OBVIOUS
  <2>2. ~(y < x)
    BY <1>2, <1>3, <2>1
  <2> QED
    BY <2>1, <2>2
<1> QED
  BY <1>4

\* The induction that the search takes.
LEMMA Up == ASSUME NEW T, T \subseteq Nat, 0 \in T, \A n \in T : n + 1 \in T PROVE T = Nat
<1> SUFFICES ASSUME Nat \ T # {} PROVE FALSE
  OBVIOUS
<1>1. PICK x \in Nat \ T : \A y \in Nat \ T : x <= y
  BY Least
<1>2. x # 0 /\ x - 1 \in Nat
  BY <1>1
<1>3. x - 1 \in T
  BY <1>1, <1>2
<1> QED
  BY <1>1, <1>2, <1>3

\* The next place to search from, after one expected call.
After(actual, call, start) ==
  IF start = 0 THEN 0
  ELSE LET idx == E!FindMatchingCall(actual, call, start)
       IN IF idx # 0 THEN idx + 1 ELSE IF call.required THEN 0 ELSE start

\* The places of a search through the calls up to one of them.
Places(actual, calls, n, from) ==
  /\ DOMAIN from = 0..n
  /\ from[0] = 1
  /\ \A i \in 1..n : from[i] = After(actual, calls[i], from[i - 1])

\* The search is the last of its places.
LEMMA Search ==
  ASSUME NEW actual, NEW calls, Len(calls) \in Nat
  PROVE  \E from : Places(actual, calls, Len(calls), from) /\ E!SearchFrom(actual, calls) = from[Len(calls)]
<1> DEFINE Walk(n, from) ==
      from = [i \in 0..n |-> IF i = 0 THEN 1 ELSE After(actual, calls[i], from[i - 1])]
<1>1. \A n \in Nat : \E from : Walk(n, from)
  <2> DEFINE T == {n \in Nat : \E from : Walk(n, from)}
  <2>1. 0 \in T
    <3>1. PICK from : from = [i \in 0..0 |-> 1]
      OBVIOUS
    <3>2. Walk(0, from)
      BY <3>1
    <3> QED
      BY <3>2
  <2>2. ASSUME NEW n \in T PROVE n + 1 \in T
    <3>1. PICK from : Walk(n, from)
      BY <2>2
    <3>2. PICK longer : longer = [i \in 0..(n + 1) |-> IF i = n + 1 THEN After(actual, calls[i], from[n])
                                                    ELSE from[i]]
      OBVIOUS
    <3>3. ASSUME NEW i \in 0..(n + 1)
          PROVE  longer[i] = IF i = 0 THEN 1 ELSE After(actual, calls[i], longer[i - 1])
      <4>1. CASE i = n + 1
        <5>1. n \in 0..(n + 1) /\ n # n + 1 /\ i - 1 = n /\ i # 0
          BY <4>1
        <5> QED
          BY <3>2, <4>1, <5>1
      <4>2. CASE i # n + 1
        <5>1. i \in 0..n /\ (i # 0 => i - 1 \in 0..n /\ i - 1 \in 0..(n + 1) /\ i - 1 # n + 1)
          BY <4>2
        <5>2. longer[i] = from[i] /\ (i # 0 => longer[i - 1] = from[i - 1])
          BY <3>2, <4>2, <5>1
        <5>3. from[i] = IF i = 0 THEN 1 ELSE After(actual, calls[i], from[i - 1])
          BY <3>1, <5>1
        <5> QED
          BY <5>1, <5>2, <5>3
      <4> QED
        BY <4>1, <4>2
    <3>4. Walk(n + 1, longer)
      BY <3>2, <3>3
    <3> QED
      BY <3>4, n + 1 \in Nat
  <2>3. T = Nat
    <3> HIDE DEF T
    <3>1. T \subseteq Nat
      BY DEF T
    <3> QED
      BY <2>1, <2>2, <3>1, Up
  <2> QED
    BY <2>3
<1> DEFINE from == CHOOSE f : Walk(Len(calls), f)
<1>2. Walk(Len(calls), from)
  BY <1>1
<1>3. E!SearchFrom(actual, calls) = from[Len(calls)]
  BY DEF E!SearchFrom, After
<1>4. Places(actual, calls, Len(calls), from)
  <2> HIDE DEF from
  <2> QED
    BY <1>2 DEF Places
<1> QED
  BY <1>3, <1>4

\* What a search finds is the first of the calls that match.
LEMMA FirstMatch ==
  ASSUME NEW actual, Len(actual) \in Nat, NEW call, NEW start \in Nat \ {0}
  PROVE  LET found == E!FindMatchingCall(actual, call, start)
         IN /\ found # 0 => /\ found \in start..Len(actual) /\ E!Matches(actual[found], call)
                            /\ \A j \in start..Len(actual) : E!Matches(actual[j], call) => found <= j
            /\ found = 0 => \A j \in start..Len(actual) : ~E!Matches(actual[j], call)
<1> DEFINE T == {i \in start..Len(actual) : E!Matches(actual[i], call)}
<1>1. E!FindMatchingCall(actual, call, start) =
        IF T = {} THEN 0 ELSE CHOOSE i \in T : \A j \in T : i <= j
  BY DEF E!FindMatchingCall
<1>2. CASE T = {}
  BY <1>1, <1>2
<1>3. CASE T # {}
  <2> HIDE DEF T
  <2>1. T \subseteq Nat \ {0}
    BY DEF T
  <2>2. \E i \in T : \A j \in T : i <= j
    BY <1>3, <2>1, Least
  <2>3. PICK found \in T : found = E!FindMatchingCall(actual, call, start) /\ \A j \in T : found <= j
    BY <1>1, <1>3, <2>2
  <2> QED
    BY <2>1, <2>3 DEF T
<1> QED
  BY <1>2, <1>3

\* A search that goes on never goes back, and steps behind what it found.
LEMMA AfterMoves ==
  ASSUME NEW actual, Len(actual) \in Nat, NEW call, NEW start \in Nat
  PROVE  LET next == After(actual, call, start)
         IN /\ next \in Nat
            /\ next # 0 => start # 0 /\ start <= next
            /\ next # 0 /\ call.required =>
                 /\ next - 1 \in start..Len(actual) /\ E!Matches(actual[next - 1], call)
                 /\ next - 1 \in 1..Len(actual)
            /\ start # 0 => \A j \in start..Len(actual) : E!Matches(actual[j], call) =>
                              next # 0 /\ next <= j + 1
<1>1. CASE start = 0
  BY <1>1 DEF After
<1>2. CASE start # 0
  <2> DEFINE found == E!FindMatchingCall(actual, call, start)
  <2> HIDE DEF found
  <2>1. /\ found # 0 => /\ found \in start..Len(actual) /\ E!Matches(actual[found], call)
                        /\ \A j \in start..Len(actual) : E!Matches(actual[j], call) => found <= j
        /\ found = 0 => \A j \in start..Len(actual) : ~E!Matches(actual[j], call)
    BY <1>2, FirstMatch DEF found
  <2>2. After(actual, call, start) =
          IF found # 0 THEN found + 1 ELSE IF call.required THEN 0 ELSE start
    BY <1>2 DEF After, found
  <2> QED
    BY <1>2, <2>1, <2>2
<1> QED
  BY <1>1, <1>2

\* The places of a search that got to its end: none is 0 and none is before an earlier one.
LEMMA PlacesRise ==
  ASSUME NEW actual, Len(actual) \in Nat, NEW calls, NEW m \in Nat, NEW from,
         Places(actual, calls, m, from)
  PROVE  /\ \A i \in 0..m : from[i] \in Nat
         /\ from[m] # 0 => \A i \in 0..m : from[i] # 0
         /\ from[m] # 0 => \A i, j \in 0..m : i <= j => from[i] <= from[j]
<1>1. \A i \in 0..m : from[i] \in Nat
  <2> DEFINE T == {n \in Nat : n <= m => from[n] \in Nat}
  <2>1. 0 \in T
    BY DEF Places
  <2>2. ASSUME NEW n \in T, n + 1 <= m PROVE from[n + 1] \in Nat
    <3>1. n + 1 \in 1..m /\ n \in Nat /\ n <= m /\ (n + 1) - 1 = n
      BY <2>2
    <3>2. from[n + 1] = After(actual, calls[n + 1], from[n])
      BY <3>1 DEF Places
    <3> QED
      BY <2>2, <3>1, <3>2, AfterMoves
  <2>3. T = Nat
    <3>1. \A n \in T : n + 1 \in T
      BY <2>2
    <3>2. T \subseteq Nat
      OBVIOUS
    <3> HIDE DEF T
    <3> QED
      BY <2>1, <3>1, <3>2, Up
  <2>4. \A i \in 0..m : i \in T /\ i <= m
    <3> HIDE DEF T
    <3> QED
      BY <2>3
  <2> QED
    BY <2>4
<1>2. ASSUME NEW i \in 1..m, from[i] # 0 PROVE from[i - 1] # 0 /\ from[i - 1] <= from[i]
  <2>1. from[i] = After(actual, calls[i], from[i - 1]) /\ i - 1 \in 0..m
    BY DEF Places
  <2> QED
    BY <1>1, <1>2, <2>1, AfterMoves
<1>3. ASSUME NEW j \in 0..m, from[j] # 0
      PROVE  \A i \in 0..j : from[i] # 0 /\ from[i] <= from[j]
  <2> DEFINE T == {n \in Nat : n <= j => from[j - n] # 0 /\ from[j - n] <= from[j]}
  <2>1. 0 \in T
    BY <1>1, <1>3
  <2>2. ASSUME NEW n \in T, n + 1 <= j PROVE from[j - (n + 1)] # 0 /\ from[j - (n + 1)] <= from[j]
    <3>1. n \in Nat /\ n <= j /\ j - n \in 1..m /\ (j - n) - 1 = j - (n + 1) /\ j - (n + 1) \in 0..m
          /\ j - n \in 0..m
      BY <2>2
    <3>2. from[j - n] # 0 /\ from[j - n] <= from[j]
      BY <2>2, <3>1
    <3>3. from[j - (n + 1)] # 0 /\ from[j - (n + 1)] <= from[j - n]
      BY <1>2, <3>1, <3>2
    <3>4. from[j - (n + 1)] \in Nat /\ from[j - n] \in Nat /\ from[j] \in Nat
      BY <1>1, <3>1
    <3> QED
      BY <3>2, <3>3, <3>4
  <2>3. T = Nat
    <3>1. \A n \in T : n + 1 \in T
      BY <2>2
    <3>2. T \subseteq Nat
      OBVIOUS
    <3> HIDE DEF T
    <3> QED
      BY <2>1, <3>1, <3>2, Up
  <2>4. ASSUME NEW i \in 0..j PROVE from[i] # 0 /\ from[i] <= from[j]
    <3>1. j - i \in T
      <4> HIDE DEF T
      <4> QED
        BY <2>3
    <3>2. j - i <= j /\ j - (j - i) = i
      OBVIOUS
    <3> QED
      BY <3>1, <3>2
  <2> QED
    BY <2>4
<1>4. m \in 0..m
  OBVIOUS
<1>5. ASSUME from[m] # 0, NEW i \in 0..m, NEW j \in 0..m, i <= j PROVE from[i] <= from[j]
  <2>1. from[j] # 0
    BY <1>3, <1>4, <1>5
  <2> QED
    BY <1>3, <1>5, <2>1
<1> QED
  BY <1>1, <1>3, <1>4, <1>5

\* A search that got to its end has found the required calls, one after the other.
LEMMA SearchIsSound ==
  ASSUME NEW A, NEW B, NEW actual \in Seq(A), NEW calls \in Seq(B), E!InOrder(actual, calls)
  PROVE  E!Embeds(actual, calls, E!RequiredCalls(calls))
<1> DEFINE m == Len(calls)
           required == E!RequiredCalls(calls)
<1>1. m \in Nat /\ Len(actual) \in Nat /\ DOMAIN actual = 1..Len(actual) /\ required \subseteq 1..m
  BY DEF E!RequiredCalls
<1>2. PICK from : Places(actual, calls, m, from) /\ from[m] # 0
  BY <1>1, Search DEF E!InOrder
<1>3. /\ \A i \in 0..m : from[i] \in Nat /\ from[i] # 0
      /\ \A i, j \in 0..m : i <= j => from[i] <= from[j]
  BY <1>1, <1>2, PlacesRise
<1>4. \A i \in required : /\ from[i] - 1 \in from[i - 1]..Len(actual)
                          /\ from[i] - 1 \in 1..Len(actual)
                          /\ E!Matches(actual[from[i] - 1], calls[i])
  <2> TAKE i \in required
  <2>1. i \in 1..m /\ i \in 0..m /\ i - 1 \in 0..m /\ calls[i].required
    BY <1>1 DEF E!RequiredCalls
  <2>2. from[i] = After(actual, calls[i], from[i - 1])
    BY <1>2, <2>1 DEF Places
  <2> QED
    BY <1>1, <1>3, <2>1, <2>2, AfterMoves
<1>5. PICK pos : pos = [i \in required |-> from[i] - 1]
  OBVIOUS
<1>6. pos \in [required -> DOMAIN actual] /\ \A i \in required : E!Matches(actual[pos[i]], calls[i])
  BY <1>1, <1>4, <1>5
<1>7. ASSUME NEW i \in required, NEW j \in required, i < j PROVE pos[i] < pos[j]
  <2>1. i \in 0..m /\ j - 1 \in 0..m /\ j \in 0..m /\ i <= j - 1
    BY <1>1, <1>7
  <2>2. from[i] <= from[j - 1] /\ from[j - 1] <= from[j] - 1
    BY <1>3, <1>4, <2>1
  <2>3. from[i] \in Nat /\ from[j] \in Nat /\ from[j - 1] \in Nat
    BY <1>3, <2>1
  <2> QED
    BY <1>5, <2>2, <2>3
<1> QED
  BY <1>6, <1>7 DEF E!Embeds

\* Calls that are all required and can be laid over the trace are found by the search.
LEMMA SearchIsComplete ==
  ASSUME NEW A, NEW B, NEW actual \in Seq(A), NEW calls \in Seq(B), E!Embeds(actual, calls, DOMAIN calls)
  PROVE  E!InOrder(actual, calls)
<1> DEFINE m == Len(calls)
<1>1. /\ m \in Nat /\ Len(actual) \in Nat
      /\ DOMAIN actual = 1..Len(actual) /\ DOMAIN calls = 1..m
  OBVIOUS
<1>2. PICK from : Places(actual, calls, m, from) /\ E!SearchFrom(actual, calls) = from[m]
  BY <1>1, Search
<1>3. PICK pos \in [1..m -> 1..Len(actual)] :
        /\ \A i \in 1..m : E!Matches(actual[pos[i]], calls[i])
        /\ \A i, j \in 1..m : i < j => pos[i] < pos[j]
  BY <1>1 DEF E!Embeds
<1>4. \A i \in 0..m : from[i] \in Nat
  BY <1>1, <1>2, PlacesRise
<1> DEFINE T == {n \in Nat : n <= m => from[n] # 0 /\ (n # 0 => from[n] <= pos[n] + 1)}
<1>5. 0 \in T
  BY <1>2 DEF Places
<1>6. ASSUME NEW n \in T, n + 1 <= m PROVE from[n + 1] # 0 /\ from[n + 1] <= pos[n + 1] + 1
  <2>1. n \in 0..m /\ n + 1 \in 1..m /\ (n + 1) - 1 = n /\ (n # 0 => n \in 1..m)
    BY <1>1, <1>6
  <2>2. from[n] # 0 /\ from[n] \in Nat /\ (n # 0 => from[n] <= pos[n] + 1)
    BY <1>1, <1>4, <1>6, <2>1
  <2>3. pos[n + 1] \in 1..Len(actual) /\ E!Matches(actual[pos[n + 1]], calls[n + 1])
    BY <1>3, <2>1
  <2>4. from[n] <= pos[n + 1]
    <3>1. CASE n = 0
      BY <1>2, <2>3, <3>1 DEF Places
    <3>2. CASE n # 0
      <4>1. pos[n] < pos[n + 1] /\ pos[n] \in Nat
        BY <1>3, <2>1, <3>2
      <4> QED
        BY <2>2, <2>3, <3>2, <4>1
    <3> QED
      BY <3>1, <3>2
  <2>5. from[n + 1] = After(actual, calls[n + 1], from[n])
    BY <1>2, <2>1 DEF Places
  <2>6. pos[n + 1] \in from[n]..Len(actual)
    BY <1>1, <2>2, <2>3, <2>4
  <2> QED
    BY <1>1, <2>2, <2>3, <2>5, <2>6, AfterMoves
<1>7. T = Nat
  <2>1. \A n \in T : n + 1 \in T
    BY <1>6
  <2>2. T \subseteq Nat
    OBVIOUS
  <2> HIDE DEF T
  <2> QED
    BY <1>5, <2>1, <2>2, Up
<1>8. from[m] # 0
  <2>1. m \in T
    <3> HIDE DEF T
    <3> QED
      BY <1>1, <1>7
  <2> QED
    BY <1>1, <2>1
<1> QED
  BY <1>2, <1>8 DEF E!InOrder

\* The input that is judged stays, and the verdict on its tool calls is that of Verdict.
TraceInv ==
  /\ \E input \in Inputs : answer = input[1] /\ block = input[2]
  /\ "toolsTriggered" \in DOMAIN results =>
       E!Given("toolsTriggered") /\ results["toolsTriggered"] = E!Verdict("toolsTriggered")

\* The verdict stays what it was.
LEMMA VerdictStays ==
  ASSUME TraceInv, UNCHANGED <<answer, block>>,
         "toolsTriggered" \in DOMAIN results' =>
           "toolsTriggered" \in DOMAIN results /\ results'["toolsTriggered"] = results["toolsTriggered"]
  PROVE  TraceInv'
<1>1. E!Verdict("toolsTriggered")' = E!Verdict("toolsTriggered")
  BY DEF E!Verdict
<1>2. E!Given("toolsTriggered")' = E!Given("toolsTriggered")
  BY DEF E!Given
<1> QED
  BY <1>1, <1>2 DEF TraceInv

\* Every step of a judgement keeps it.
LEMMA TraceStep ==
  TraceInv /\ E!Next => TraceInv'
<1> SUFFICES ASSUME TraceInv, E!Next PROVE TraceInv'
  OBVIOUS
<1>1. CASE E!Check
  <2>1. /\ UNCHANGED <<answer, block>>
        /\ results' = [f \in {g \in E!CheckedFields : E!Given(g)} |-> E!Verdict(f)]
    BY <1>1 DEF E!Check
  <2>2. "toolsTriggered" \in DOMAIN results' =>
          E!Given("toolsTriggered") /\ results'["toolsTriggered"] = E!Verdict("toolsTriggered")
    BY <2>1
  <2>3. /\ E!Verdict("toolsTriggered")' = E!Verdict("toolsTriggered")
        /\ E!Given("toolsTriggered")' = E!Given("toolsTriggered")
    BY <2>1 DEF E!Verdict, E!Given
  <2> QED
    BY <2>1, <2>2, <2>3 DEF TraceInv
<1>2. CASE E!Throw
  BY <1>2, VerdictStays DEF E!Throw
<1>3. CASE E!Join
  BY <1>3, VerdictStays DEF E!Join
<1>4. ASSUME NEW i \in DOMAIN judges,
             E!JudgeFails(i) \/ \E s \in 0..MaxScore, c \in BOOLEAN : E!JudgeAnswers(i, s, c)
      PROVE  TraceInv'
  BY <1>4, VerdictStays DEF E!JudgeFails, E!JudgeAnswers
<1>5. ASSUME NEW m \in BOOLEAN, E!Snapshot(m)
      PROVE  TraceInv'
  BY <1>5, VerdictStays DEF E!Snapshot
<1> QED
  BY <1>1, <1>2, <1>3, <1>4, <1>5 DEF E!Next

\* A trace is a sequence of calls.
LEMMA TraceIsSequence ==
  ASSUME TraceInv
  PROVE  \E A : E!Trace(answer) \in Seq(A)
<1> PICK Events : answer.events \in Seq(Events)
  BY CallsAssumption DEF TraceInv, IsSeq
<1> DEFINE trace == E!Trace(answer)
<1>1. trace = [i \in 1..Len(answer.events) |-> E!MapCall(answer.events[i], answer.toolMap)]
  BY DEF E!Trace, E!MapToolNames
<1>2. trace \in Seq({trace[i] : i \in 1..Len(answer.events)})
  BY <1>1, SeqDef
<1> QED
  BY <1>2

\* A judgement begins without a verdict.
LEMMA TraceStart == E!Init => TraceInv
BY DEF E!Init, TraceInv

\* The invariant gives what the run checks.
LEMMA OrderIsExact ==
  TraceInv => E!StrictOrderExact
<1> SUFFICES ASSUME TraceInv, "toolsTriggered" \in DOMAIN results, E!TraceVerified(answer),
                    block.toolsTriggered[1].order = "strict"
             PROVE  LET expected == block.toolsTriggered[1]
                        required == E!RequiredCalls(expected.calls)
                        found == E!Embeds(E!Trace(answer), expected.calls, required)
                    IN /\ results["toolsTriggered"] => found
                       /\ found /\ required = DOMAIN expected.calls /\ ~expected.exclusive
                            => results["toolsTriggered"]
  BY DEF E!StrictOrderExact
<1> DEFINE expected == block.toolsTriggered[1]
           trace == E!Trace(answer)
<1>1. PICK A, B : trace \in Seq(A) /\ expected.calls \in Seq(B)
  <2>1. \E A : trace \in Seq(A)
    BY TraceIsSequence
  <2>2. \E B : expected.calls \in Seq(B)
    BY CallsAssumption DEF TraceInv, E!Given, IsSeq
  <2> QED
    BY <2>1, <2>2
<1>2. results["toolsTriggered"] <=>
        E!InOrder(trace, expected.calls)
        /\ (expected.exclusive => E!Unexpected(trace, expected.calls) = {})
  BY DEF TraceInv, E!Verdict, E!ValidateToolCalls
<1>3. results["toolsTriggered"] => E!Embeds(trace, expected.calls, E!RequiredCalls(expected.calls))
  BY <1>1, <1>2, SearchIsSound
<1>4. E!Embeds(trace, expected.calls, DOMAIN expected.calls) => E!InOrder(trace, expected.calls)
  BY <1>1, SearchIsComplete
<1> QED
  BY <1>2, <1>3, <1>4

-------------------------------------------------------------------------------
(* CaseRun: what is kept of the iterations is what their answers say, and the verdict is *)
(* that of the iterations kept.                                                          *)

CaseTypeOK ==
  /\ iterations \in Nat \ {0}
  /\ phase \in {"iterating", "done", "threw"}
  /\ answers \in Seq(Answers)

Kept ==
  iterations > 1 =>
    /\ DOMAIN iterationResults = DOMAIN answers
    /\ Len(iterationResults) = Len(answers) /\ iterationResults \in Seq({Entry(a) : a \in Answers})
    /\ \A i \in DOMAIN answers : iterationResults[i] = Entry(answers[i])

\* The verdict on one iteration is that of its one answer, which did not throw.
Decided ==
  phase = "done" /\ (iterations > 1 \/ caseResult.pass) =>
    IF iterations > 1 THEN caseResult.pass = Passed
    ELSE /\ Len(answers) = 1 /\ answers[1].throws = "none"
         /\ Single(answers[1]).pass

CaseInv == CaseTypeOK /\ Kept /\ Decided

\* Every step of a case keeps the invariant.
LEMMA CaseStep == CaseInv /\ Next => CaseInv'
<1> SUFFICES ASSUME CaseInv, Next PROVE CaseInv'
  OBVIOUS
<1>1. ASSUME NEW a \in Answers, RunOnce(a) PROVE CaseInv'
  <2>1. /\ phase = "iterating" /\ iterations = 1 /\ answers' = <<a>> /\ iterations' = iterations
        /\ iterationResults' = iterationResults
        /\ IF a.throws # "none" THEN phase' = "threw" /\ UNCHANGED caseResult
           ELSE phase' = "done" /\ caseResult' = Single(a)
    BY <1>1 DEF RunOnce
  <2>2. CaseTypeOK'
    BY <2>1 DEF CaseInv, CaseTypeOK
  <2>3. Decided'
    BY <2>1 DEF Decided
  <2> QED
    BY <2>1, <2>2, <2>3 DEF CaseInv, Kept
<1>2. ASSUME NEW a \in Answers, Iterate(a) PROVE CaseInv'
  <2>1. /\ phase' = "iterating" /\ iterations > 1 /\ iterations' = iterations
        /\ answers' = Append(answers, a) /\ iterationResults' = Append(iterationResults, Entry(a))
    BY <1>2 DEF Iterate
  <2>2. CaseTypeOK'
    BY <2>1, AppendProperties DEF CaseInv, CaseTypeOK
  <2> DEFINE Entries == {Entry(b) : b \in Answers}
  <2>3. iterationResults \in Seq(Entries) /\ Entry(a) \in Entries /\ answers \in Seq(Answers)
    BY <2>1 DEF CaseInv, CaseTypeOK, Kept
  <2> HIDE DEF Entries
  <2>4. /\ iterationResults' \in Seq(Entries) /\ Len(iterationResults') = Len(iterationResults) + 1
        /\ Len(answers') = Len(answers) + 1
        /\ iterationResults'[Len(iterationResults) + 1] = Entry(a) /\ answers'[Len(answers) + 1] = a
        /\ \A i \in 1..Len(iterationResults) : iterationResults'[i] = iterationResults[i]
        /\ \A i \in 1..Len(answers) : answers'[i] = answers[i]
    BY <2>1, <2>3, AppendProperties
  <2>5. /\ DOMAIN iterationResults' = 1..Len(iterationResults') /\ DOMAIN answers' = 1..Len(answers')
        /\ DOMAIN answers = 1..Len(answers) /\ Len(answers) \in Nat
    BY <2>2, <2>3, <2>4, LenProperties DEF CaseTypeOK
  <2>6. Len(iterationResults) = Len(answers) /\ \A i \in DOMAIN answers : iterationResults[i] = Entry(answers[i])
    BY <2>1 DEF CaseInv, Kept
  <2>7. \A i \in DOMAIN answers' : iterationResults'[i] = Entry(answers'[i])
    <3> TAKE i \in DOMAIN answers'
    <3>1. i = Len(answers) + 1 \/ i \in 1..Len(answers)
      BY <2>4, <2>5
    <3> QED
      BY <2>4, <2>5, <2>6, <3>1
  <2>8. Kept'
    BY <2>1, <2>4, <2>5, <2>6, <2>7 DEF Kept, Entries
  <2> QED
    BY <2>1, <2>2, <2>8 DEF CaseInv, Decided
<1>3. CASE Fold
  <2>1. /\ phase' = "done" /\ iterations > 1 /\ iterations' = iterations /\ answers' = answers
        /\ iterationResults' = iterationResults /\ caseResult'.pass = Passed
    BY <1>3 DEF Fold, NoResult, CaseInv, CaseTypeOK, Single
  <2>2. Passed' = Passed
    BY <2>1 DEF Passed, Passes, Judged
  <2> QED
    BY <2>1, <2>2 DEF CaseInv, CaseTypeOK, Kept, Decided
<1> QED
  BY <1>1, <1>2, <1>3 DEF Next

\* A case begins as the invariant says, and so does one that does not begin.
LEMMA CaseStart == Init \/ CaseOff => CaseInv
<1> SUFFICES ASSUME Init \/ CaseOff PROVE CaseInv
  OBVIOUS
<1>1. iterations \in Nat \ {0} /\ answers = <<>> /\ iterationResults = <<>>
  BY IterationsAssumption DEF Init, CaseOff
<1>2. phase \in {"iterating", "done"} /\ (phase = "done" => iterations = 1 /\ ~caseResult.pass)
  BY DEF Init, CaseOff, NoResult
<1> QED
  BY <1>1, <1>2 DEF CaseInv, CaseTypeOK, Kept, Decided

\* Scaling a count by the smaller of two factors gives no more.
LEMMA Scales == \A n, a, d \in Nat : a <= d => n * d >= a * n
OBVIOUS

\* What counts is what was judged.
LEMMA CountedIsJudged == CaseInv /\ iterations > 1 => Counted = Judged
<1> SUFFICES ASSUME CaseInv, iterations > 1 PROVE Counted = Judged
  OBVIOUS
<1>1. /\ DOMAIN iterationResults = DOMAIN answers
      /\ \A i \in DOMAIN answers : iterationResults[i] = Entry(answers[i]) /\ answers[i] \in Answers
  BY ElementOfSeq, LenProperties DEF CaseInv, Kept, CaseTypeOK
<1>2. \A i \in DOMAIN answers : ~iterationResults[i].infra <=> i \in Counted
  <2> TAKE i \in DOMAIN answers
  <2>1. iterationResults[i] = Entry(answers[i]) /\ answers[i] \in Answers
    BY <1>1
  <2>2. answers[i].throws \in ErrorKinds
    BY <2>1 DEF Answers
  <2>3. Entry(answers[i]).infra <=> IF answers[i].throws # "none" THEN answers[i].throws = "infra"
                                    ELSE answers[i].failureKind \/ answers[i].error = "infra"
    BY DEF Entry
  <2> QED
    BY <2>1, <2>2, <2>3 DEF Counted, ErrorKinds
<1> QED
  BY <1>1, <1>2 DEF Judged, Counted

\* An answer that passes was judged and proves the calls that the case expects.
LEMMA PassMeans ==
  ASSUME NEW a \in Answers, a.throws = "none"
  PROVE  /\ Single(a).pass /\ ExpectsTools => a.error = "none" /\ a.tools /\ Proved(a)
         /\ AllWell(a) => Single(a).pass
<1>1. a.tools \in BOOLEAN /\ a.other \in BOOLEAN
  BY DEF Answers
<1> QED
  BY <1>1 DEF Single, Expectations, Verdict, NoExpectations, Verified, Proved, AllWell

\* The iterations of a case can be counted.
LEMMA IterationsFinite ==
  CaseInv => \A T \in SUBSET DOMAIN answers : IsFiniteSet(T) /\ Cardinality(T) \in Nat
<1> SUFFICES ASSUME CaseInv, NEW T \in SUBSET DOMAIN answers PROVE IsFiniteSet(T) /\ Cardinality(T) \in Nat
  OBVIOUS
<1>1. DOMAIN answers = 1..Len(answers) /\ Len(answers) \in Nat
  BY LenProperties DEF CaseInv, CaseTypeOK
<1>2. IsFiniteSet(1..Len(answers))
  BY <1>1, FS_Interval
<1>3. IsFiniteSet(T)
  BY <1>1, <1>2, FS_Subset
<1> QED
  BY <1>3, FS_CardinalityType

\* The invariant gives what the run checks.
LEMMA CaseVerdict == CaseInv => VerdictEarned
<1> SUFFICES ASSUME CaseInv PROVE VerdictEarned
  OBVIOUS
<1> DEFINE Good == {i \in Counted : /\ answers[i].throws = "none" /\ answers[i].error = "none"
                                    /\ answers[i].tools /\ Proved(answers[i])}
<1>1. /\ Counted \in SUBSET DOMAIN answers /\ Good \in SUBSET DOMAIN answers
      /\ \A i \in DOMAIN answers : answers[i] \in Answers
  BY ElementOfSeq, LenProperties DEF Counted, CaseInv, CaseTypeOK
<1>2. /\ IsFiniteSet(Counted) /\ IsFiniteSet(Good)
      /\ Cardinality(Counted) \in Nat /\ Cardinality(Good) \in Nat
  BY <1>1, IterationsFinite
<1>3. iterations > 1 =>
        /\ Counted = Judged
        /\ \A i \in Judged : answers[i] \in Answers /\ iterationResults[i] = Entry(answers[i])
  BY <1>1, CountedIsJudged DEF CaseInv, Kept
<1>4. Passes \in SUBSET Judged
  BY DEF Passes
<1>5. iterations > 1 => Passes \in SUBSET DOMAIN answers /\ IsFiniteSet(Passes) /\ Cardinality(Passes) \in Nat
  BY <1>1, <1>3, <1>4, IterationsFinite
<1>6. ThresholdNum \in Nat /\ ThresholdDen \in Nat /\ ThresholdNum <= ThresholdDen
  BY ThresholdAssumption
<1>7. PassIsVerified
  <2> SUFFICES ASSUME phase = "done", caseResult.pass, ExpectsTools
               PROVE  ThresholdDen * Cardinality(Good) >= ThresholdNum * Cardinality(Counted)
    BY DEF PassIsVerified
  <2>1. CASE iterations > 1
    <3>1. Passed
      BY <2>1 DEF CaseInv, Decided
    <3>2. CASE Judged = {}
      <4>1. Cardinality(Counted) = 0
        BY <2>1, <1>3, <3>2, FS_EmptySet
      <4> QED
        BY <4>1, <1>2, <1>6
    <3>3. CASE Judged # {}
      <4>1. Cardinality(Passes) * ThresholdDen >= ThresholdNum * Cardinality(Counted)
        BY <2>1, <1>3, <3>1, <3>3 DEF Passed
      <4>2. Passes \in SUBSET Good
        <5> SUFFICES ASSUME NEW i \in Passes PROVE i \in Good
          OBVIOUS
        <5>1. i \in Counted /\ answers[i] \in Answers /\ Entry(answers[i]).pass
          BY <2>1, <1>3, <1>4 DEF Passes
        <5>2. answers[i].throws = "none" /\ Single(answers[i]).pass
          BY <5>1 DEF Entry
        <5> QED
          BY <5>1, <5>2, PassMeans
      <4>3. Cardinality(Passes) <= Cardinality(Good)
        BY <4>2, <1>2, FS_Subset
      <4> HIDE DEF Good
      <4>4. ThresholdDen * Cardinality(Good) >= Cardinality(Passes) * ThresholdDen
        BY <2>1, <1>2, <1>5, <1>6, <4>3, Scales
      <4>5. /\ Cardinality(Passes) * ThresholdDen \in Nat /\ ThresholdNum * Cardinality(Counted) \in Nat
            /\ ThresholdDen * Cardinality(Good) \in Nat
        BY <2>1, <1>2, <1>5, <1>6
      <4> QED
        BY <4>1, <4>4, <4>5
    <3> QED
      BY <3>2, <3>3
  <2>2. CASE ~(iterations > 1)
    <3>1. /\ DOMAIN answers = {1} /\ answers[1].throws = "none" /\ Single(answers[1]).pass
          /\ answers[1] \in Answers
      BY <2>2, <1>1, LenProperties DEF CaseInv, CaseTypeOK, Decided
    <3>2. Good = Counted
      BY <3>1, <1>1, PassMeans
    <3> HIDE DEF Good
    <3> QED
      BY <3>2, <1>2, <1>6, Scales
  <2> QED
    BY <2>1, <2>2
<1>8. LossesDecideNothing
  <2> SUFFICES ASSUME phase = "done", iterations > 1
               PROVE  /\ Counted = {} /\ ThresholdNum > 0 => ~caseResult.pass
                      /\ Counted # {} /\ (\A i \in Counted : AllWell(answers[i])) => caseResult.pass
    BY DEF LossesDecideNothing
  <2>1. caseResult.pass = Passed
    BY DEF CaseInv, Decided
  <2>2. ASSUME Counted = {}, ThresholdNum > 0 PROVE ~Passed
    BY <2>2, <1>3, <1>6 DEF Passed
  <2>3. ASSUME Counted # {}, \A i \in Counted : AllWell(answers[i]) PROVE Passed
    <3>1. Passes = Judged
      <4> SUFFICES ASSUME NEW i \in Judged PROVE iterationResults[i].pass
        BY DEF Passes
      <4>1. answers[i] \in Answers /\ iterationResults[i] = Entry(answers[i]) /\ AllWell(answers[i])
        BY <1>3, <2>3
      <4>2. answers[i].throws = "none" /\ Single(answers[i]).pass
        BY <4>1, PassMeans DEF AllWell
      <4> QED
        BY <4>1, <4>2 DEF Entry
    <3>2. Cardinality(Judged) * ThresholdDen >= ThresholdNum * Cardinality(Judged)
      BY <1>2, <1>3, <1>6, Scales
    <3> QED
      BY <3>1, <3>2, <1>3, <2>3 DEF Passed
  <2> QED
    BY <2>1, <2>2, <2>3
<1> QED
  BY <1>7, <1>8 DEF VerdictEarned

-------------------------------------------------------------------------------
(* What the next parts need: recursion, counting, and one more element.                *)

\* The values up to n that begin with the first, each made by a step from the one before.
Walk(n, W, first, step, f) ==
  f \in [0..n -> W] /\ f[0] = first /\ \A i \in 1..n : f[i] = step[i][f[i - 1]]

\* What is defined of each number by the one before it.
LEMMA Recursion ==
  ASSUME NEW n \in Nat, NEW W, NEW first \in W, NEW step \in [1..n -> [W -> W]]
  PROVE  \E f : Walk(n, W, first, step, f)
<1> DEFINE T == {k \in Nat : k <= n => \E f : Walk(k, W, first, step, f)}
<1>1. 0 \in T
  <2>1. PICK f : f = [i \in 0..0 |-> first]
    OBVIOUS
  <2>2. Walk(0, W, first, step, f)
    BY <2>1 DEF Walk
  <2> QED
    BY <2>2
<1>2. ASSUME NEW k \in T PROVE k + 1 \in T
  <2> SUFFICES ASSUME k + 1 <= n PROVE \E f : Walk(k + 1, W, first, step, f)
    BY k + 1 \in Nat
  <2>1. PICK f : Walk(k, W, first, step, f)
    BY k <= n
  <2>2. PICK g : g = [i \in 0..(k + 1) |-> IF i = k + 1 THEN step[i][f[k]] ELSE f[i]]
    OBVIOUS
  <2>3. /\ k \in 0..k /\ k + 1 \in 1..n /\ \A i \in 0..(k + 1) : i # k + 1 => i \in 0..k
        /\ f \in [0..k -> W] /\ f[0] = first /\ \A i \in 1..k : f[i] = step[i][f[i - 1]]
    BY <2>1 DEF Walk
  <2>4. step[k + 1][f[k]] \in W
    BY <2>3
  <2>5. g \in [0..(k + 1) -> W]
    BY <2>2, <2>3, <2>4
  <2>6. (\A i \in 0..k : g[i] = f[i]) /\ g[k + 1] = step[k + 1][f[k]]
    BY <2>2
  <2>7. ASSUME NEW i \in 1..(k + 1) PROVE g[i] = step[i][g[i - 1]]
    <3>1. CASE i = k + 1
      BY <3>1, <2>6
    <3>2. CASE i \in 1..k
      <4>1. i \in 0..k /\ i - 1 \in 0..k
        BY <3>2
      <4> QED
        BY <3>2, <4>1, <2>3, <2>6
    <3> QED
      BY <3>1, <3>2
  <2>8. g[0] = first
    BY <2>3, <2>6
  <2>9. Walk(k + 1, W, first, step, g)
    BY <2>5, <2>7, <2>8 DEF Walk
  <2> QED
    BY <2>9
<1>3. T = Nat
  <2> HIDE DEF T
  <2>1. T \subseteq Nat
    BY DEF T
  <2> QED
    BY <1>1, <1>2, <2>1, Up
<1>4. n \in T
  <2> HIDE DEF T
  <2> QED
    BY <1>3
<1> QED
  BY <1>4, n <= n

\* As many names as things, if no two have the same.
LEMMA SameNumber ==
  ASSUME NEW T, IsFiniteSet(T), NEW name, T \subseteq DOMAIN name,
         \A i, j \in T : name[i] = name[j] => i = j
  PROVE  /\ IsFiniteSet({name[i] : i \in T})
         /\ Cardinality({name[i] : i \in T}) = Cardinality(T)
<1> DEFINE Image == {name[i] : i \in T}
<1>1. PICK f : f = [i \in T |-> name[i]]
  OBVIOUS
<1>2. f \in Bijection(T, Image)
  <2>1. f \in [T -> Image]
    BY <1>1
  <2>2. \A i, j \in T : f[i] = f[j] => i = j
    BY <1>1
  <2>3. \A y \in Image : \E i \in T : f[i] = y
    BY <1>1
  <2> HIDE DEF Image
  <2> QED
    BY <2>1, <2>2, <2>3, Fun_IsBij
<1>3. ExistsBijection(T, Image)
  BY <1>2 DEF ExistsBijection
<1> QED
  BY <1>3, FS_Bijection

\* Two sets that do not meet count as their union does.
LEMMA Apart ==
  ASSUME NEW T, IsFiniteSet(T), NEW U, IsFiniteSet(U), T \cap U = {}
  PROVE  /\ IsFiniteSet(T \cup U) /\ Cardinality(T \cup U) = Cardinality(T) + Cardinality(U)
         /\ Cardinality(T) \in Nat /\ Cardinality(U) \in Nat
<1>1. Cardinality(T) \in Nat /\ Cardinality(U) \in Nat
  BY FS_CardinalityType
<1>2. Cardinality(T \cap U) = 0
  BY FS_EmptySet
<1>3. IsFiniteSet(T \cup U) /\ Cardinality(T \cup U) = Cardinality(T) + Cardinality(U) - Cardinality(T \cap U)
  BY FS_Union
<1> QED
  BY <1>1, <1>2, <1>3

\* As many numbers as there are up to the last.
LEMMA Numbers ==
  ASSUME NEW n \in Nat
  PROVE  IsFiniteSet(1..n) /\ Cardinality(1..n) = n
<1>1. IsFiniteSet(1..n) /\ Cardinality(1..n) = IF 1 > n THEN 0 ELSE n - 1 + 1
  BY FS_Interval
<1> QED
  BY <1>1

\* A sequence that is no longer than the set of its elements repeats none.
LEMMA NoneTwice ==
  ASSUME NEW q, q \in Seq({q[i] : i \in DOMAIN q}),
         Len(q) = Cardinality({q[i] : i \in DOMAIN q})
  PROVE  Len(q) \in Nat /\ \A i, j \in 1..Len(q) : q[i] = q[j] => i = j
<1>1. Len(q) \in Nat /\ DOMAIN q = 1..Len(q)
  BY LenProperties
<1> DEFINE Image == {q[i] : i \in DOMAIN q}
<1>2. IsFiniteSet(1..Len(q)) /\ Cardinality(1..Len(q)) = Len(q)
  BY <1>1, Numbers
<1>3. PICK f : f = [k \in 1..Len(q) |-> q[k]]
  OBVIOUS
<1>4. f \in Surjection(1..Len(q), Image)
  <2>1. f \in [1..Len(q) -> Image]
    BY <1>1, <1>3
  <2>2. \A y \in Image : \E k \in 1..Len(q) : f[k] = y
    BY <1>1, <1>3
  <2> HIDE DEF Image
  <2> QED
    BY <2>1, <2>2, Fun_IsSurj
<1>5. f \in Injection(1..Len(q), Image)
  <2>1. Cardinality(Image) = Cardinality(1..Len(q))
    BY <1>2
  <2> HIDE DEF Image
  <2> QED
    BY <1>2, <1>4, <2>1, FS_Surjection
<1>6. \A i, j \in 1..Len(q) : f[i] = f[j] => i = j
  <2> HIDE DEF Image
  <2> QED
    BY <1>5 DEF Injection, IsInjective
<1> QED
  BY <1>1, <1>3, <1>6

\* A sequence with one more element.
LEMMA Extended ==
  ASSUME NEW q, IsSeq(q), NEW e
  PROVE  /\ IsSeq(Append(q, e)) /\ Len(Append(q, e)) = Len(q) + 1 /\ Len(q) \in Nat
         /\ DOMAIN q = 1..Len(q) /\ DOMAIN Append(q, e) = 1..(Len(q) + 1)
         /\ \A i \in 1..Len(q) : Append(q, e)[i] = q[i]
         /\ Append(q, e)[Len(q) + 1] = e
<1> DEFINE A == {q[i] : i \in DOMAIN q} \cup {e}
           new == Append(q, e)
<1>1. q \in Seq(A) /\ e \in A
  BY DEF IsSeq
<1> HIDE DEF A
<1>2. /\ new \in Seq(A) /\ Len(new) = Len(q) + 1 /\ Len(q) \in Nat
      /\ \A i \in 1..Len(q) : new[i] = q[i]
      /\ new[Len(q) + 1] = e
  BY <1>1, AppendProperties, LenProperties
<1>3. DOMAIN q = 1..Len(q) /\ DOMAIN new = 1..(Len(q) + 1)
  BY <1>1, <1>2, LenProperties
<1>4. IsSeq(new)
  <2>1. new \in [1..Len(new) -> {new[i] : i \in DOMAIN new}] /\ Len(new) \in Nat
    BY <1>2, LenProperties
  <2> HIDE DEF new
  <2> QED
    BY <2>1, SeqDef DEF IsSeq
<1> QED
  BY <1>2, <1>3, <1>4

-------------------------------------------------------------------------------
(* ServerComparison: two complete runs are compared, position by position.             *)

\* A run that is complete: a result for each id of the dataset, in their order.
Complete(run) ==
  /\ DOMAIN run = 1..Len(ids)
  /\ \A i \in 1..Len(ids) : run[i].id = ids[i] /\ run[i].pass \in BOOLEAN

Distinct == Len(ids) \in Nat /\ \A i, j \in 1..Len(ids) : ids[i] = ids[j] => i = j

\* Of ids that differ the map has every result.
LEMMA MapHasAll ==
  ASSUME Distinct, NEW run, Complete(run)
  PROVE  /\ C!Ids(run) = {ids[i] : i \in 1..Len(ids)}
         /\ \A i \in 1..Len(ids) : C!MapOf(run)[ids[i]] = run[i]
<1>1. C!Ids(run) = {ids[i] : i \in 1..Len(ids)}
  BY DEF C!Ids, Complete
<1>2. ASSUME NEW i \in 1..Len(ids) PROVE C!MapOf(run)[ids[i]] = run[i]
  <2> DEFINE At(j) == run[j].id = ids[i] /\ \A k \in DOMAIN run : run[k].id = ids[i] => k <= j
  <2>1. At(i) /\ \A j \in DOMAIN run : At(j) => j = i
    BY DEF Complete, Distinct
  <2>2. (CHOOSE j \in DOMAIN run : At(j)) = i
    BY <2>1 DEF Complete
  <2>3. ids[i] \in C!Ids(run)
    BY <1>1
  <2> QED
    BY <2>2, <2>3 DEF C!MapOf
<1> QED
  BY <1>1, <1>2

\* The positions at which two runs have these verdicts.
Both(a, b, x, y) == {i \in 1..Len(ids) : a[i].pass = x /\ b[i].pass = y}

LEMMA BothFinite ==
  ASSUME Distinct, NEW a, NEW b, NEW x, NEW y
  PROVE  IsFiniteSet(Both(a, b, x, y)) /\ Cardinality(Both(a, b, x, y)) \in Nat
<1>1. IsFiniteSet(1..Len(ids)) /\ Both(a, b, x, y) \subseteq 1..Len(ids)
  BY FS_Interval DEF Distinct, Both
<1> QED
  BY <1>1, FS_Subset, FS_CardinalityType

\* What is counted by id.
LEMMA ServersCounted ==
  ASSUME Distinct, NEW a, NEW b, Complete(a), Complete(b)
  PROVE  LET c == C!CompareServers(a, b)
         IN /\ c.bWins = Cardinality(Both(a, b, FALSE, TRUE))
            /\ c.aWins = Cardinality(Both(a, b, TRUE, FALSE))
            /\ c.ties = Cardinality(Both(a, b, TRUE, TRUE))
            /\ c.bothFail = Cardinality(Both(a, b, FALSE, FALSE))
            /\ c.total = Len(ids)
            /\ c.decided = c.aWins + c.bWins + c.ties
<1> DEFINE shared == C!Ids(a) \cap C!Ids(b)
           Where(x, y) == {id \in shared : C!MapOf(a)[id].pass = x /\ C!MapOf(b)[id].pass = y}
<1>1. PICK name : name = [i \in 1..Len(ids) |-> ids[i]]
  OBVIOUS
<1>2. shared = {name[i] : i \in 1..Len(ids)}
  BY <1>1, MapHasAll
<1>3. \A i, j \in 1..Len(ids) : name[i] = name[j] => i = j
  BY <1>1 DEF Distinct
<1>4. ASSUME NEW x, NEW y PROVE Cardinality(Where(x, y)) = Cardinality(Both(a, b, x, y))
  <2>1. \A i \in 1..Len(ids) : /\ C!MapOf(a)[name[i]] = a[i] /\ C!MapOf(b)[name[i]] = b[i]
    BY <1>1, MapHasAll
  <2>2. Where(x, y) = {name[i] : i \in Both(a, b, x, y)}
    BY <1>2, <2>1 DEF Both
  <2>3. Both(a, b, x, y) \subseteq DOMAIN name /\ \A i, j \in Both(a, b, x, y) : name[i] = name[j] => i = j
    BY <1>1, <1>3 DEF Both
  <2> QED
    BY <2>2, <2>3, BothFinite, SameNumber
<1>5. Cardinality(shared) = Len(ids)
  <2>1. IsFiniteSet(1..Len(ids)) /\ Cardinality(1..Len(ids)) = Len(ids)
    BY Numbers DEF Distinct
  <2>2. 1..Len(ids) \subseteq DOMAIN name
    BY <1>1
  <2> QED
    BY <1>2, <1>3, <2>1, <2>2, SameNumber
<1>6. C!CompareServers(a, b) =
        [total |-> Cardinality(shared), aWins |-> Cardinality(Where(TRUE, FALSE)),
         bWins |-> Cardinality(Where(FALSE, TRUE)), ties |-> Cardinality(Where(TRUE, TRUE)),
         bothFail |-> Cardinality(Where(FALSE, FALSE)),
         decided |-> Cardinality(Where(TRUE, FALSE)) + Cardinality(Where(FALSE, TRUE)) + Cardinality(Where(TRUE, TRUE))]
  BY SameCounts DEF C!CompareServers
<1>7. /\ Cardinality(Where(TRUE, FALSE)) = Cardinality(Both(a, b, TRUE, FALSE))
      /\ Cardinality(Where(FALSE, TRUE)) = Cardinality(Both(a, b, FALSE, TRUE))
      /\ Cardinality(Where(TRUE, TRUE)) = Cardinality(Both(a, b, TRUE, TRUE))
      /\ Cardinality(Where(FALSE, FALSE)) = Cardinality(Both(a, b, FALSE, FALSE))
  BY <1>4
<1> HIDE DEF shared, Where
<1>8. C!CompareServers(a, b) =
        [total |-> Len(ids), aWins |-> Cardinality(Both(a, b, TRUE, FALSE)),
         bWins |-> Cardinality(Both(a, b, FALSE, TRUE)), ties |-> Cardinality(Both(a, b, TRUE, TRUE)),
         bothFail |-> Cardinality(Both(a, b, FALSE, FALSE)),
         decided |-> Cardinality(Both(a, b, TRUE, FALSE)) + Cardinality(Both(a, b, FALSE, TRUE))
                     + Cardinality(Both(a, b, TRUE, TRUE))]
  BY <1>5, <1>6, <1>7
<1> QED
  BY <1>8

\* What is counted by position.
LEMMA RunsCounted ==
  ASSUME Distinct, NEW a, NEW b, Complete(a), Complete(b),
         NEW x \in BOOLEAN, NEW y \in BOOLEAN
  PROVE  Cardinality(C!Bucket(C!CompareEvalRuns(a, b), C!CompareCaseOutcome(x, y))) = Cardinality(Both(a, b, x, y))
<1> DEFINE outcome_ == C!CompareCaseOutcome(x, y)
           Entry_(i) == [of |-> "baseline", at |-> i, outcome |-> C!CompareCaseOutcome(a[i].pass, b[i].pass)]
<1>1. C!Ids(a) = {ids[i] : i \in 1..Len(ids)} /\ C!Ids(b) = C!Ids(a) /\ DOMAIN a = 1..Len(ids) /\ DOMAIN b = 1..Len(ids)
  BY MapHasAll DEF Complete
<1>2. \A i \in 1..Len(ids) : /\ a[i].id \in C!Ids(b) /\ b[i].id \in C!Ids(a)
                             /\ C!MapOf(b)[a[i].id] = b[i]
  BY <1>1, MapHasAll DEF Complete
<1>3. C!CompareEvalRuns(a, b) = {Entry_(i) : i \in 1..Len(ids)}
  BY <1>1, <1>2 DEF C!CompareEvalRuns
<1>4. \A i \in 1..Len(ids) : C!CompareCaseOutcome(a[i].pass, b[i].pass) = outcome_ <=> i \in Both(a, b, x, y)
  <2>1. \A i \in 1..Len(ids) : a[i].pass \in BOOLEAN /\ b[i].pass \in BOOLEAN
    BY DEF Complete
  <2>2. \A u, v \in BOOLEAN : C!CompareCaseOutcome(u, v) = C!CompareCaseOutcome(x, y) => u = x /\ v = y
    BY DEF C!CompareCaseOutcome
  <2> QED
    BY <2>1, <2>2 DEF Both
<1>5. PICK name : name = [i \in 1..Len(ids) |-> Entry_(i)]
  OBVIOUS
<1>6. C!Bucket(C!CompareEvalRuns(a, b), outcome_) = {name[i] : i \in Both(a, b, x, y)}
  BY <1>3, <1>4, <1>5 DEF C!Bucket, Both
<1>7. /\ Both(a, b, x, y) \subseteq DOMAIN name
      /\ \A i, j \in Both(a, b, x, y) : name[i] = name[j] => i = j
  BY <1>5 DEF Both
<1> QED
  BY <1>6, <1>7, BothFinite, SameNumber

\* The four kinds of positions are all of them.
LEMMA FourKinds ==
  ASSUME Distinct, NEW a, NEW b, Complete(a), Complete(b)
  PROVE  LET Count(x, y) == Cardinality(Both(a, b, x, y))
         IN /\ Len(ids) = Count(TRUE, TRUE) + Count(TRUE, FALSE) + Count(FALSE, TRUE) + Count(FALSE, FALSE)
            /\ C!Passed(a) = Count(TRUE, TRUE) + Count(TRUE, FALSE)
            /\ C!Passed(b) = Count(TRUE, TRUE) + Count(FALSE, TRUE)
<1> DEFINE tt == Both(a, b, TRUE, TRUE)
           tf == Both(a, b, TRUE, FALSE)
           ft == Both(a, b, FALSE, TRUE)
           ff == Both(a, b, FALSE, FALSE)
<1>1. /\ IsFiniteSet(tt) /\ IsFiniteSet(tf) /\ IsFiniteSet(ft) /\ IsFiniteSet(ff)
      /\ Cardinality(tt) \in Nat /\ Cardinality(tf) \in Nat /\ Cardinality(ft) \in Nat /\ Cardinality(ff) \in Nat
  BY BothFinite
<1>2. /\ tt \cap tf = {} /\ tt \cap ft = {} /\ ft \cap ff = {} /\ (tt \cup tf) \cap (ft \cup ff) = {}
      /\ {i \in DOMAIN a : a[i].pass} = tt \cup tf
      /\ {i \in DOMAIN b : b[i].pass} = tt \cup ft
      /\ 1..Len(ids) = (tt \cup tf) \cup (ft \cup ff)
  BY DEF Both, Complete
<1>3. Cardinality(1..Len(ids)) = Len(ids)
  BY Numbers DEF Distinct
<1> HIDE DEF tt, tf, ft, ff
<1>4. C!Passed(a) = Cardinality(tt) + Cardinality(tf)
  BY <1>1, <1>2, Apart, SameCounts DEF C!Passed
<1>5. C!Passed(b) = Cardinality(tt) + Cardinality(ft)
  BY <1>1, <1>2, Apart, SameCounts DEF C!Passed
<1>6. Len(ids) = Cardinality(tt \cup tf) + Cardinality(ft \cup ff)
  BY <1>1, <1>2, <1>3, Apart
<1>7. Len(ids) = Cardinality(tt) + Cardinality(tf) + Cardinality(ft) + Cardinality(ff)
  <2>1. tt \cap tf = {} /\ ft \cap ff = {}
    BY <1>2
  <2>2. Cardinality(tt \cup tf) = Cardinality(tt) + Cardinality(tf)
    BY <1>1, <2>1, Apart
  <2>3. Cardinality(ft \cup ff) = Cardinality(ft) + Cardinality(ff)
    BY <1>1, <2>1, Apart
  <2> QED
    BY <1>1, <1>6, <2>2, <2>3
<1> QED
  BY <1>4, <1>5, <1>7 DEF tt, tf, ft, ff

\* The runs of both sides follow the dataset, and what is compared are two complete ones.
Side(s) ==
  /\ runs[s] \in Seq({runs[s][i] : i \in DOMAIN runs[s]}) /\ Len(runs[s]) <= Len(ids)
  /\ \A i \in 1..Len(runs[s]) : runs[s][i].id = ids[i] /\ runs[s][i].pass \in BOOLEAN
  /\ outcome # "rejected" /\ s \notin running => Len(runs[s]) = Len(ids)

ComparisonInv ==
  /\ ids \in ComparedIds
  /\ \A s \in C!Sides : Side(s)
  /\ DOMAIN runs = C!Sides
  /\ outcome \in {"compared", "stored"} =>
       running = {} /\ comparison = <<C!CompareServers(runs["A"], runs["B"])>>

LEMMA ComparisonStart == C!Init => ComparisonInv
<1> SUFFICES ASSUME C!Init PROVE ComparisonInv
  OBVIOUS
<1>1. Len(ids) \in Nat
  BY ComparisonAssumption, LenProperties DEF C!Init, IsSeq
<1> QED
  BY <1>1 DEF C!Init, ComparisonInv, Side

\* A side that nothing happens to.
LEMMA SameSide ==
  ASSUME NEW s, Side(s), ids' = ids, runs'[s] = runs[s],
         outcome' # "rejected" /\ s \notin running' => Len(runs[s]) = Len(ids)
  PROVE  Side(s)'
BY DEF Side

LEMMA RunCaseStep ==
  ASSUME ComparisonInv, NEW s \in C!Sides, C!RunCase(s)
  PROVE  ComparisonInv'
<1>1. PICK pass \in BOOLEAN :
        runs' = [runs EXCEPT ![s] = Append(@, [id |-> ids[Len(@) + 1], pass |-> pass])]
  BY DEF C!RunCase
<1>2. /\ s \in running /\ Len(runs[s]) < Len(ids) /\ DOMAIN runs = C!Sides /\ Side(s)
      /\ UNCHANGED <<ids, running, outcome, comparison>>
  BY DEF C!RunCase, ComparisonInv
<1>3. ids \in Seq({ids[i] : i \in DOMAIN ids}) /\ Len(ids) \in Nat
  BY ComparisonAssumption, LenProperties DEF ComparisonInv, IsSeq
<1> DEFINE old == runs[s]
           e == [id |-> ids[Len(old) + 1], pass |-> pass]
           new == Append(old, e)
           A == {old[i] : i \in DOMAIN old} \cup {e}
<1>4. old \in Seq(A)
  BY <1>2 DEF Side
<1>5. new \in Seq(A) /\ Len(new) = Len(old) + 1 /\ \A i \in 1..Len(old) : new[i] = old[i]
  BY <1>4
<1>6. new[Len(old) + 1] = e /\ Len(old) \in Nat
  BY <1>4
<1>7. new \in Seq({new[i] : i \in DOMAIN new})
  <2>1. new \in [1..Len(new) -> {new[i] : i \in DOMAIN new}] /\ Len(new) \in Nat
    BY <1>5, LenProperties
  <2> QED
    BY <2>1, SeqDef
<1>8. \A i \in 1..Len(new) : new[i].id = ids[i] /\ new[i].pass \in BOOLEAN
  <2> SUFFICES ASSUME NEW i \in 1..Len(new) PROVE new[i].id = ids[i] /\ new[i].pass \in BOOLEAN
    OBVIOUS
  <2>1. CASE i \in 1..Len(old)
    BY <2>1, <1>2, <1>5 DEF Side
  <2>2. CASE i = Len(old) + 1
    BY <2>2, <1>6
  <2> QED
    BY <2>1, <2>2, <1>5, <1>6
<1>9. Side(s)'
  <2>1. runs'[s] = new
    BY <1>1, <1>2
  <2> HIDE DEF new
  <2> QED
    BY <2>1, <1>2, <1>3, <1>5, <1>6, <1>7, <1>8 DEF Side
<1>10. \A r \in C!Sides \ {s} : Side(r)'
  <2> SUFFICES ASSUME NEW r \in C!Sides \ {s} PROVE Side(r)'
    OBVIOUS
  <2>1. runs'[r] = runs[r] /\ Side(r)
    BY <1>1, <1>2 DEF ComparisonInv
  <2>2. outcome' # "rejected" /\ r \notin running' => Len(runs[r]) = Len(ids)
    BY <1>2, <2>1 DEF Side
  <2> QED
    BY <1>2, <2>1, <2>2, SameSide
<1>11. outcome \notin {"compared", "stored"}
  BY <1>2 DEF ComparisonInv
<1> QED
  BY <1>1, <1>2, <1>9, <1>10, <1>11 DEF ComparisonInv

LEMMA ComparisonStep == ComparisonInv /\ C!Next => ComparisonInv'
<1> SUFFICES ASSUME ComparisonInv, C!Next PROVE ComparisonInv'
  OBVIOUS
<1>1. ASSUME NEW s \in C!Sides, C!RunCase(s) PROVE ComparisonInv'
  BY <1>1, RunCaseStep
<1>2. ASSUME NEW s \in C!Sides, C!RunEnds(s) \/ C!RunThrows(s) PROVE ComparisonInv'
  <2>1. UNCHANGED <<ids, runs, comparison>> /\ running' = running \ {s} /\ s \in running
    BY <1>2 DEF C!RunEnds, C!RunThrows
  <2>2. \/ outcome' = outcome /\ Len(runs[s]) = Len(ids)
        \/ outcome' = "rejected"
    BY <1>2 DEF C!RunEnds, C!RunThrows
  <2>3. ASSUME NEW r \in C!Sides PROVE Side(r)'
    <3>1. Side(r) /\ runs'[r] = runs[r] /\ ids' = ids
      BY <2>1 DEF ComparisonInv
    <3>2. outcome' # "rejected" /\ r \notin running' => Len(runs[r]) = Len(ids)
      BY <2>1, <2>2, <3>1 DEF Side
    <3> QED
      BY <3>1, <3>2, SameSide
  <2>4. outcome' \notin {"compared", "stored"}
    BY <2>1, <2>2 DEF ComparisonInv
  <2> QED
    BY <2>1, <2>3, <2>4 DEF ComparisonInv
<1>3. CASE C!Compare
  <2>1. /\ UNCHANGED <<ids, runs, running>> /\ running = {} /\ outcome = "pending"
        /\ comparison' = <<C!CompareServers(runs["A"], runs["B"])>>
    BY <1>3 DEF C!Compare
  <2>2. ASSUME NEW r \in C!Sides PROVE Side(r)'
    <3>1. Side(r) /\ runs'[r] = runs[r] /\ ids' = ids
      BY <2>1 DEF ComparisonInv
    <3>2. outcome' # "rejected" /\ r \notin running' => Len(runs[r]) = Len(ids)
      BY <2>1, <3>1 DEF Side
    <3> QED
      BY <3>1, <3>2, SameSide
  <2> QED
    BY <2>1, <2>2 DEF ComparisonInv
<1>4. CASE C!Save
  <2>1. /\ UNCHANGED <<ids, runs, running, comparison>> /\ outcome = "compared"
    BY <1>4 DEF C!Save
  <2>2. ASSUME NEW r \in C!Sides PROVE Side(r)'
    <3>1. Side(r) /\ runs'[r] = runs[r] /\ ids' = ids
      BY <2>1 DEF ComparisonInv
    <3>2. outcome' # "rejected" /\ r \notin running' => Len(runs[r]) = Len(ids)
      BY <2>1, <3>1 DEF Side
    <3> QED
      BY <3>1, <3>2, SameSide
  <2> QED
    BY <2>1, <2>2 DEF ComparisonInv
<1> QED
  BY <1>1, <1>2, <1>3, <1>4 DEF C!Next

LEMMA StillComparison == UNCHANGED comparisonVars /\ ComparisonInv => ComparisonInv'
<1> SUFFICES ASSUME UNCHANGED comparisonVars, ComparisonInv PROVE ComparisonInv'
  OBVIOUS
<1>1. UNCHANGED <<ids, runs, running, outcome, comparison>>
  BY DEF comparisonVars
<1>2. ASSUME NEW s \in C!Sides PROVE Side(s)'
  <2>1. Side(s)
    BY DEF ComparisonInv
  <2>2. outcome' # "rejected" /\ s \notin running' => Len(runs[s]) = Len(ids)
    BY <1>1, <2>1 DEF Side
  <2> QED
    BY <1>1, <2>1, <2>2, SameSide
<1> QED
  BY <1>1, <1>2 DEF ComparisonInv

LEMMA ComparisonsTellTheSame == ComparisonInv => C!ComparisonsAgree
<1> SUFFICES ASSUME ComparisonInv, outcome \in {"compared", "stored"}, C!UniqueIds
             PROVE  LET c == comparison[1]
                        compared == C!CompareEvalRuns(runs["A"], runs["B"])
                    IN /\ c.bWins = Cardinality(C!Bucket(compared, "IMPROVED"))
                       /\ c.aWins = Cardinality(C!Bucket(compared, "REGRESSED"))
                       /\ c.ties = Cardinality(C!Bucket(compared, "UNCHANGED_PASS"))
                       /\ c.bothFail = Cardinality(C!Bucket(compared, "UNCHANGED_FAIL"))
                       /\ c.total = Len(ids) /\ c.decided = c.total - c.bothFail
                       /\ C!Passed(runs["B"]) - C!Passed(runs["A"]) = c.bWins - c.aWins
  BY SameCounts DEF C!ComparisonsAgree
<1>1. Distinct
  BY NoneTwice, ComparisonAssumption, SameCounts DEF ComparisonInv, Distinct, C!UniqueIds, IsSeq
<1> DEFINE a == runs["A"]
           b == runs["B"]
           c == comparison[1]
           compared == C!CompareEvalRuns(a, b)
<1>2. Complete(a) /\ Complete(b)
  <2>1. ASSUME NEW s \in C!Sides PROVE Complete(runs[s])
    <3>1. Side(s) /\ Len(runs[s]) = Len(ids)
      BY DEF ComparisonInv, Side
    <3>2. DOMAIN runs[s] = 1..Len(ids)
      BY <3>1, LenProperties DEF Side
    <3> QED
      BY <3>1, <3>2 DEF Complete, Side
  <2> QED
    BY <2>1 DEF C!Sides
<1>3. c = C!CompareServers(a, b)
  BY DEF ComparisonInv
<1> HIDE DEF a, b
<1>4. /\ Cardinality(C!Bucket(compared, C!CompareCaseOutcome(FALSE, TRUE))) = Cardinality(Both(a, b, FALSE, TRUE))
      /\ Cardinality(C!Bucket(compared, C!CompareCaseOutcome(TRUE, FALSE))) = Cardinality(Both(a, b, TRUE, FALSE))
      /\ Cardinality(C!Bucket(compared, C!CompareCaseOutcome(TRUE, TRUE))) = Cardinality(Both(a, b, TRUE, TRUE))
      /\ Cardinality(C!Bucket(compared, C!CompareCaseOutcome(FALSE, FALSE))) = Cardinality(Both(a, b, FALSE, FALSE))
  BY <1>1, <1>2, RunsCounted
<1>5. /\ C!CompareCaseOutcome(FALSE, TRUE) = "IMPROVED" /\ C!CompareCaseOutcome(TRUE, FALSE) = "REGRESSED"
      /\ C!CompareCaseOutcome(TRUE, TRUE) = "UNCHANGED_PASS" /\ C!CompareCaseOutcome(FALSE, FALSE) = "UNCHANGED_FAIL"
  BY DEF C!CompareCaseOutcome
<1>6. /\ c.bWins = Cardinality(Both(a, b, FALSE, TRUE)) /\ c.aWins = Cardinality(Both(a, b, TRUE, FALSE))
      /\ c.ties = Cardinality(Both(a, b, TRUE, TRUE)) /\ c.bothFail = Cardinality(Both(a, b, FALSE, FALSE))
      /\ c.total = Len(ids) /\ c.decided = c.aWins + c.bWins + c.ties
  BY <1>1, <1>2, <1>3, ServersCounted
<1>7. /\ Len(ids) = Cardinality(Both(a, b, TRUE, TRUE)) + Cardinality(Both(a, b, TRUE, FALSE))
                    + Cardinality(Both(a, b, FALSE, TRUE)) + Cardinality(Both(a, b, FALSE, FALSE))
      /\ C!Passed(a) = Cardinality(Both(a, b, TRUE, TRUE)) + Cardinality(Both(a, b, TRUE, FALSE))
      /\ C!Passed(b) = Cardinality(Both(a, b, TRUE, TRUE)) + Cardinality(Both(a, b, FALSE, TRUE))
  BY <1>1, <1>2, FourKinds
<1>8. /\ Cardinality(Both(a, b, TRUE, TRUE)) \in Nat /\ Cardinality(Both(a, b, TRUE, FALSE)) \in Nat
      /\ Cardinality(Both(a, b, FALSE, TRUE)) \in Nat /\ Cardinality(Both(a, b, FALSE, FALSE)) \in Nat
  BY <1>1, BothFinite
<1> HIDE DEF c, compared
<1>9. c.decided = c.total - c.bothFail /\ C!Passed(b) - C!Passed(a) = c.bWins - c.aWins
  <2>1. PICK tt \in Nat, tf \in Nat, ft \in Nat, ff \in Nat :
          /\ tt = Cardinality(Both(a, b, TRUE, TRUE)) /\ tf = Cardinality(Both(a, b, TRUE, FALSE))
          /\ ft = Cardinality(Both(a, b, FALSE, TRUE)) /\ ff = Cardinality(Both(a, b, FALSE, FALSE))
    BY <1>8
  <2>2. /\ c.bWins = ft /\ c.aWins = tf /\ c.ties = tt /\ c.bothFail = ff
        /\ c.decided = c.aWins + c.bWins + c.ties /\ c.total = Len(ids)
    BY <1>6, <2>1
  <2>3. /\ Len(ids) = tt + tf + ft + ff
        /\ C!Passed(a) = tt + tf /\ C!Passed(b) = tt + ft
    BY <1>7, <2>1
  <2> QED
    BY <2>2, <2>3
<1> QED
  BY <1>4, <1>5, <1>6, <1>9 DEF c, a, b, compared

-------------------------------------------------------------------------------
(* VariantExperiment: the best of what was tried in the finished rounds.               *)

\* What a run may be, and a candidate made of one.
Results == {[i \in DOMAIN DatasetIds |-> [id |-> DatasetIds[i], pass |-> p[i]]] :
              p \in [DOMAIN DatasetIds -> BOOLEAN]}
AllCandidates == [value : Int, results : Results, disqualified : BOOLEAN]
Options == {V!None} \cup {<<c>> : c \in AllCandidates}
Choices == [metric : {"passRate", "tool"}, maxRounds : Rounds, minImprovement : MinImprovements,
            allowRegressions : BOOLEAN, variants : {0, 1}, proposes : BOOLEAN]
Begun == status \in {"gather", "score", "done"}

ExperimentTypeOK ==
  /\ choice \in Choices
  /\ Begun => baseline \in V!Runs /\ V!ReadMetric(baseline, choice.metric) # V!None
  /\ candidates \in Seq(AllCandidates)
  /\ rounds \in Seq(Seq(AllCandidates))
  /\ bestSoFar \in Options /\ bestAttempted \in Options

Seen == V!Tried \cup V!ToSet(candidates)

\* Nothing is tried before the baseline.
NothingBefore == status = "baseline" => candidates = <<>> /\ rounds = <<>>

\* Who is eligible broke nothing.
Honest == Begun =>
  \A c \in Seen : ~choice.allowRegressions /\ V!UniqueIds /\ ~c.disqualified => ~V!Broke(c)

\* Between the rounds every candidate is in one.
Filed == status \in {"gather", "done"} => V!ToSet(candidates) \subseteq V!Tried

\* The best so far is the best of the finished rounds.
Best == /\ bestSoFar = V!None => \A c \in V!Tried : c.disqualified
        /\ bestSoFar # V!None =>
             /\ bestSoFar[1] \in V!Tried /\ ~bestSoFar[1].disqualified
             /\ \A c \in V!Tried : ~c.disqualified => c.value <= bestSoFar[1].value

\* Something is attempted with the first candidate.
Attempted == bestAttempted = V!None <=> Seen = {}

ExperimentInv == ExperimentTypeOK /\ NothingBefore /\ Honest /\ Filed /\ Best /\ Attempted

LEMMA ExperimentStart == V!Init => ExperimentInv
<1> SUFFICES ASSUME V!Init PROVE ExperimentInv
  OBVIOUS
<1>1. V!ToSet(candidates) = {} /\ V!Tried = {}
  BY DEF V!Init, V!ToSet, V!Tried
<1> QED
  BY <1>1 DEF V!Init, ExperimentInv, ExperimentTypeOK, NothingBefore, Honest, Filed, Best, Attempted, Seen,
              Options, Choices, Begun

\* A metric is a number.
LEMMA MetricIsNumber ==
  ASSUME NEW run \in V!Runs, NEW metric \in {"passRate", "tool"}, V!ReadMetric(run, metric) # V!None
  PROVE  V!ReadMetric(run, metric)[1] \in Int
<1>1. V!Passed(run.results) \in Nat
  <2>1. DOMAIN run.results = 1..Len(DatasetIds) /\ Len(DatasetIds) \in Nat
    BY ExperimentAssumption, LenProperties DEF V!Runs, IsSeq
  <2>2. {i \in DOMAIN run.results : run.results[i].pass} \subseteq 1..Len(DatasetIds)
    BY <2>1
  <2>3. IsFiniteSet(1..Len(DatasetIds))
    BY <2>1, FS_Interval
  <2> QED
    BY <2>2, <2>3, FS_Subset, FS_CardinalityType, SameCounts DEF V!Passed
<1>2. metric = "tool" => run.tool # V!None /\ run.tool \in {V!None} \cup {<<m>> : m \in 0..MaxToolMetric}
  BY DEF V!ReadMetric, V!Runs
<1> QED
  BY <1>1, <1>2, ExperimentAssumption DEF V!ReadMetric

\* A result by its id, where ids are unique.
LEMMA ById ==
  ASSUME V!UniqueIds, NEW these \in Results
  PROVE  /\ V!Ids(these) = {DatasetIds[i] : i \in DOMAIN DatasetIds}
         /\ \A i \in DOMAIN DatasetIds : V!MapOf(these)[DatasetIds[i]] = these[i]
<1>1. DOMAIN these = DOMAIN DatasetIds /\ \A i \in DOMAIN DatasetIds : these[i].id = DatasetIds[i]
  BY DEF Results
<1>2. DOMAIN DatasetIds \subseteq Nat
  BY ExperimentAssumption, LenProperties DEF IsSeq
<1>3. V!Ids(these) = {DatasetIds[i] : i \in DOMAIN DatasetIds}
  BY <1>1 DEF V!Ids
<1>4. ASSUME NEW i \in DOMAIN DatasetIds PROVE V!MapOf(these)[DatasetIds[i]] = these[i]
  <2> DEFINE At(j) == these[j].id = DatasetIds[i] /\ \A k \in DOMAIN these : these[k].id = DatasetIds[i] => k <= j
  <2>1. At(i) /\ \A j \in DOMAIN these : At(j) => j = i
    BY <1>1, <1>2 DEF V!UniqueIds
  <2>2. (CHOOSE j \in DOMAIN these : At(j)) = i
    BY <1>1, <2>1
  <2>3. DatasetIds[i] \in V!Ids(these)
    BY <1>3
  <2> QED
    BY <2>2, <2>3 DEF V!MapOf
<1> QED
  BY <1>3, <1>4

\* What is scored is a candidate, and an honest one.
LEMMA ScoredIsHonest ==
  ASSUME ExperimentTypeOK, Begun, NEW run \in V!Runs
  PROVE  LET c == V!Scored(run)
         IN /\ c \in AllCandidates
            /\ ~choice.allowRegressions /\ V!UniqueIds /\ ~c.disqualified => ~V!Broke(c)
<1> DEFINE c == V!Scored(run)
           regressed == V!Bucket(V!CompareEvalRuns(baseline.results, run.results), "REGRESSED")
<1>1. baseline \in V!Runs /\ V!ReadMetric(baseline, choice.metric) # V!None /\ choice.metric \in {"passRate", "tool"}
      /\ choice.allowRegressions \in BOOLEAN
  BY DEF ExperimentTypeOK, Choices
<1>2. baseline.results \in Results /\ run.results \in Results
  BY <1>1 DEF V!Runs, Results
<1>3. c.results = run.results /\ c.disqualified = (~choice.allowRegressions /\ regressed # {})
  BY DEF V!Scored, V!Candidate
<1>4. c \in AllCandidates
  <2>1. V!BaselineValue \in Int
    BY <1>1, MetricIsNumber DEF V!BaselineValue
  <2>2. V!ReadMetric(run, choice.metric) # V!None => V!ReadMetric(run, choice.metric)[1] \in Int
    BY <1>1, MetricIsNumber
  <2>3. c = [value |-> IF V!ReadMetric(run, choice.metric) = V!None THEN V!BaselineValue
                       ELSE V!ReadMetric(run, choice.metric)[1],
             results |-> run.results, disqualified |-> ~choice.allowRegressions /\ regressed # {}]
    BY DEF V!Scored, V!Candidate
  <2> HIDE DEF c, regressed
  <2> QED
    BY <1>1, <1>2, <2>1, <2>2, <2>3 DEF AllCandidates
<1>5. ASSUME V!UniqueIds, NEW i \in DOMAIN DatasetIds, baseline.results[i].pass, ~run.results[i].pass
      PROVE  regressed # {}
  <2>1. /\ DOMAIN baseline.results = DOMAIN DatasetIds /\ baseline.results[i].id = DatasetIds[i]
        /\ DatasetIds[i] \in V!Ids(run.results)
        /\ V!MapOf(run.results)[DatasetIds[i]] = run.results[i]
    <3>1. DOMAIN baseline.results = DOMAIN DatasetIds /\ baseline.results[i].id = DatasetIds[i]
      BY <1>2, <1>5 DEF Results
    <3>2. V!Ids(run.results) = {DatasetIds[j] : j \in DOMAIN DatasetIds}
          /\ V!MapOf(run.results)[DatasetIds[i]] = run.results[i]
      BY <1>2, <1>5, ById
    <3> QED
      BY <3>1, <3>2, <1>5
  <2>2. [of |-> "baseline", at |-> i, outcome |-> "REGRESSED"] \in V!CompareEvalRuns(baseline.results, run.results)
    BY <1>5, <2>1 DEF V!CompareEvalRuns, V!CompareCaseOutcome
  <2> QED
    BY <2>2 DEF V!Bucket
<1> HIDE DEF c, regressed
<1>6. ASSUME ~choice.allowRegressions, V!UniqueIds, ~c.disqualified PROVE ~V!Broke(c)
  BY <1>3, <1>5, <1>6 DEF V!Broke
<1> QED
  BY <1>4, <1>6 DEF c

\* The best of the round: the best that is eligible, if one is.
LEMMA BestOfRound ==
  ASSUME ExperimentTypeOK
  PROVE  LET best == V!RoundBest
         IN /\ best = V!None => \A c \in V!ToSet(candidates) : c.disqualified
            /\ best # V!None =>
                 /\ best \in Options /\ best[1] \in V!ToSet(candidates) /\ ~best[1].disqualified
                 /\ \A c \in V!ToSet(candidates) : ~c.disqualified => c.value <= best[1].value
<1> DEFINE n == Len(candidates)
           Equation(f) == f = [i \in 0..n |-> IF i = 0 THEN V!None ELSE V!PickBetter(f[i - 1], candidates[i], FALSE)]
<1>1. n \in Nat /\ DOMAIN candidates = 1..n /\ \A i \in 1..n : candidates[i] \in AllCandidates
  BY LenProperties DEF ExperimentTypeOK
<1>2. \E f : Equation(f)
  <2>1. PICK step : step = [i \in 1..n |-> [o \in Options |-> V!PickBetter(o, candidates[i], FALSE)]]
    OBVIOUS
  <2>2. step \in [1..n -> [Options -> Options]]
    <3>1. ASSUME NEW i \in 1..n, NEW o \in Options PROVE V!PickBetter(o, candidates[i], FALSE) \in Options
      BY <1>1 DEF V!PickBetter, Options
    <3> QED
      BY <2>1, <3>1
  <2>3. V!None \in Options
    BY DEF Options
  <2> HIDE DEF n
  <2>4. PICK f : f \in [0..n -> Options] /\ f[0] = V!None /\ \A i \in 1..n : f[i] = step[i][f[i - 1]]
    <3>1. PICK f : Walk(n, Options, V!None, step, f)
      BY <1>1, <2>2, <2>3, Recursion
    <3> QED
      BY <3>1 DEF Walk
  <2>5. ASSUME NEW i \in 1..n PROVE f[i] = V!PickBetter(f[i - 1], candidates[i], FALSE)
    <3>1. i - 1 \in 0..n
      BY <1>1
    <3> QED
      BY <2>1, <2>4, <3>1
  <2>6. ASSUME NEW i \in 0..n PROVE f[i] = IF i = 0 THEN V!None ELSE V!PickBetter(f[i - 1], candidates[i], FALSE)
    <3>1. CASE i = 0
      BY <2>4, <3>1
    <3>2. CASE i # 0
      <4>1. i \in 1..n
        BY <1>1, <3>2
      <4> QED
        BY <2>5, <3>2, <4>1
    <3> QED
      BY <3>1, <3>2
  <2>7. Equation(f)
    BY <2>4, <2>6
  <2> QED
    BY <2>7
<1>3. PICK f : Equation(f) /\ V!RoundBest = f[n]
  BY <1>2 DEF V!RoundBest
<1> DEFINE Top(i) ==
             /\ f[i] \in Options
             /\ f[i] = V!None => \A j \in 1..i : candidates[j].disqualified
             /\ f[i] # V!None =>
                  /\ f[i][1] \in V!ToSet(candidates) /\ ~f[i][1].disqualified
                  /\ \A j \in 1..i : ~candidates[j].disqualified => candidates[j].value <= f[i][1].value
           T == {i \in Nat : i <= n => Top(i)}
<1>4. 0 \in T
  <2>1. f[0] = V!None
    BY <1>1, <1>3
  <2> QED
    BY <2>1 DEF Options
<1>5. ASSUME NEW i \in T PROVE i + 1 \in T
  <2> SUFFICES ASSUME i + 1 <= n PROVE Top(i + 1)
    OBVIOUS
  <2>1. i + 1 \in 1..n /\ i \in 0..n /\ i + 1 \in 0..n /\ i + 1 # 0 /\ (i + 1) - 1 = i
    BY <1>1
  <2>2. f[i + 1] = V!PickBetter(f[i], candidates[i + 1], FALSE)
    BY <1>3, <2>1
  <2>3. Top(i)
    BY <2>1
  <2> DEFINE c == candidates[i + 1]
  <2>4. c \in AllCandidates /\ c \in V!ToSet(candidates) /\ \A j \in 1..(i + 1) : j \in 1..i \/ j = i + 1
    BY <1>1, <2>1 DEF V!ToSet
  <2>5. c.value \in Int
    BY <2>4 DEF AllCandidates
  <2>6. \A j \in 1..i : candidates[j].value \in Int
    BY <1>1, <2>1 DEF AllCandidates
  <2> HIDE DEF n
  <2>7. CASE c.disqualified
    <3>1. f[i + 1] = f[i]
      BY <2>2, <2>7 DEF V!PickBetter
    <3> QED
      BY <2>3, <2>4, <2>7, <3>1
  <2>8. CASE ~c.disqualified /\ f[i] = V!None
    <3>1. f[i + 1] = <<c>>
      BY <2>2, <2>8 DEF V!PickBetter, V!None
    <3> QED
      BY <2>3, <2>4, <2>5, <2>8, <3>1 DEF Options, V!None
  <2>9. CASE ~c.disqualified /\ f[i] # V!None
    <3>1. f[i + 1] = IF c.value > f[i][1].value THEN <<c>> ELSE f[i]
      BY <2>2, <2>9 DEF V!PickBetter, V!None
    <3>2. f[i][1].value \in Int
      BY <2>3, <2>9 DEF Options, AllCandidates
    <3>3. CASE c.value > f[i][1].value
      <4>1. f[i + 1] = <<c>>
        BY <3>1, <3>3
      <4>2. \A j \in 1..(i + 1) : ~candidates[j].disqualified => candidates[j].value <= c.value
        BY <2>3, <2>4, <2>5, <2>6, <2>9, <3>2, <3>3
      <4> QED
        BY <2>4, <2>9, <4>1, <4>2 DEF Options, V!None
    <3>4. CASE ~(c.value > f[i][1].value)
      <4>1. f[i + 1] = f[i] /\ c.value <= f[i][1].value
        BY <2>5, <3>1, <3>2, <3>4
      <4> QED
        BY <2>3, <2>4, <2>9, <4>1
    <3> QED
      BY <3>3, <3>4
  <2> QED
    BY <2>7, <2>8, <2>9
<1>6. T = Nat
  <2> HIDE DEF T
  <2>1. T \subseteq Nat
    BY DEF T
  <2> QED
    BY <1>4, <1>5, <2>1, Up
<1>7. Top(n)
  BY <1>1, <1>6
<1>8. V!ToSet(candidates) = {candidates[j] : j \in 1..n}
  BY <1>1 DEF V!ToSet
<1> HIDE DEF n
<1> QED
  BY <1>3, <1>7, <1>8

\* What is in a sequence with one more element.
LEMMA OneMoreElement ==
  ASSUME NEW A, NEW q \in Seq(A), NEW e \in A
  PROVE  /\ Append(q, e) \in Seq(A)
         /\ V!ToSet(Append(q, e)) = V!ToSet(q) \cup {e}
<1>1. /\ Append(q, e) \in Seq(A) /\ Len(Append(q, e)) = Len(q) + 1 /\ Len(q) \in Nat
      /\ \A i \in 1..Len(q) : Append(q, e)[i] = q[i]
      /\ Append(q, e)[Len(q) + 1] = e
  BY AppendProperties, LenProperties
<1>2. V!ToSet(q) = {q[i] : i \in 1..Len(q)} /\ V!ToSet(Append(q, e)) = {Append(q, e)[i] : i \in 1..(Len(q) + 1)}
  BY <1>1, LenProperties DEF V!ToSet
<1>3. 1..(Len(q) + 1) = (1..Len(q)) \cup {Len(q) + 1}
  BY <1>1
<1> QED
  BY <1>1, <1>2, <1>3

\* Nothing tried is lost or found while the rounds stay.
LEMMA SameRounds ==
  ASSUME UNCHANGED <<rounds, candidates>>
  PROVE  V!Tried' = V!Tried /\ V!ToSet(candidates)' = V!ToSet(candidates) /\ Seen' = Seen
<1>1. V!Tried' = V!Tried
  BY DEF V!Tried, V!ToSet
<1>2. V!ToSet(candidates)' = V!ToSet(candidates)
  BY DEF V!ToSet
<1> QED
  BY <1>1, <1>2 DEF Seen

\* A step that tries nothing.
LEMMA Idle ==
  ASSUME ExperimentInv, UNCHANGED <<choice, baseline, rounds, candidates, bestSoFar, bestAttempted>>,
         status' # "baseline" \/ status' = status,
         status' \in {"gather", "score", "done"} => Begun,
         status' = "done" => status \in {"gather", "done"},
         status' = "gather" => status = "gather"
  PROVE  ExperimentInv'
<1>1. V!Tried' = V!Tried /\ V!ToSet(candidates)' = V!ToSet(candidates) /\ Seen' = Seen
  BY SameRounds
<1>2. ExperimentTypeOK'
  BY DEF ExperimentInv, ExperimentTypeOK, Begun
<1>3. NothingBefore' /\ Filed' /\ Best' /\ Attempted'
  BY <1>1 DEF ExperimentInv, NothingBefore, Filed, Best, Attempted
<1>4. Honest'
  BY <1>1 DEF ExperimentInv, Honest, Begun, V!Broke, V!UniqueIds
<1> QED
  BY <1>2, <1>3, <1>4 DEF ExperimentInv

LEMMA BaselineStep ==
  ASSUME ExperimentInv, V!RunBaseline
  PROVE  ExperimentInv'
<1>1. PICK run \in V!Runs :
        baseline' = run /\ status' = IF V!ReadMetric(run, choice.metric) = V!None THEN "threw" ELSE "gather"
  BY DEF V!RunBaseline
<1>2. /\ UNCHANGED <<choice, rounds, candidates, bestSoFar, bestAttempted>>
      /\ candidates = <<>> /\ rounds = <<>>
  BY DEF V!RunBaseline, ExperimentInv, NothingBefore
<1>3. V!Tried' = V!Tried /\ V!ToSet(candidates)' = V!ToSet(candidates) /\ Seen' = Seen
  BY <1>2, SameRounds
<1>4. V!Tried = {} /\ V!ToSet(candidates) = {} /\ Seen = {}
  BY <1>2 DEF V!Tried, V!ToSet, Seen
<1>5. ExperimentTypeOK'
  BY <1>1, <1>2 DEF ExperimentInv, ExperimentTypeOK, Begun
<1>6. NothingBefore' /\ Filed' /\ Best' /\ Attempted' /\ Honest'
  BY <1>1, <1>2, <1>3, <1>4 DEF ExperimentInv, NothingBefore, Filed, Best, Attempted, Honest
<1> QED
  BY <1>5, <1>6 DEF ExperimentInv

LEMMA GatherStep ==
  ASSUME ExperimentInv, V!Gather
  PROVE  ExperimentInv'
<1>1. /\ status = "gather" /\ status' \in {"done", "score"} /\ candidates' = <<>>
      /\ UNCHANGED <<choice, baseline, rounds, bestSoFar, bestAttempted>>
  BY DEF V!Gather
<1>2. V!Tried' = V!Tried
  BY <1>1 DEF V!Tried, V!ToSet
<1>3. V!ToSet(candidates)' = {} /\ Seen = V!Tried
  BY <1>1 DEF V!ToSet, ExperimentInv, Filed, Seen
<1>4. Seen' = Seen
  BY <1>2, <1>3 DEF Seen
<1>5. ExperimentTypeOK'
  BY <1>1 DEF ExperimentInv, ExperimentTypeOK, Begun
<1>6. NothingBefore' /\ Filed' /\ Best' /\ Attempted'
  BY <1>1, <1>2, <1>3, <1>4 DEF ExperimentInv, NothingBefore, Filed, Best, Attempted
<1>7. Honest'
  BY <1>1, <1>4 DEF ExperimentInv, Honest, Begun, V!Broke, V!UniqueIds
<1> QED
  BY <1>5, <1>6, <1>7 DEF ExperimentInv

LEMMA ScoreStep ==
  ASSUME ExperimentInv, V!Score
  PROVE  ExperimentInv'
<1>1. PICK run \in V!Runs : /\ candidates' = Append(candidates, V!Scored(run))
                          /\ bestAttempted' = V!PickBetter(bestAttempted, V!Scored(run), TRUE)
  BY DEF V!Score
<1> DEFINE c == V!Scored(run)
<1>2. status = "score" /\ UNCHANGED <<choice, status, baseline, rounds, bestSoFar>>
  BY DEF V!Score
<1>3. c \in AllCandidates /\ (~choice.allowRegressions /\ V!UniqueIds /\ ~c.disqualified => ~V!Broke(c))
  BY <1>2, ScoredIsHonest DEF ExperimentInv, Begun
<1> HIDE DEF c
<1>4. candidates' \in Seq(AllCandidates) /\ V!ToSet(candidates') = V!ToSet(candidates) \cup {c}
  BY <1>1, <1>3, OneMoreElement DEF ExperimentInv, ExperimentTypeOK, c
<1>5. V!Tried' = V!Tried /\ Seen' = Seen \cup {c}
  <2>1. V!Tried' = V!Tried
    BY <1>2 DEF V!Tried, V!ToSet
  <2>2. V!ToSet(candidates)' = V!ToSet(candidates')
    BY DEF V!ToSet
  <2> QED
    BY <1>4, <2>1, <2>2 DEF Seen
<1>6. bestAttempted' \in Options /\ bestAttempted' # V!None
  BY <1>1, <1>3 DEF V!PickBetter, Options, V!None, ExperimentInv, ExperimentTypeOK, c
<1>7. ExperimentTypeOK'
  BY <1>2, <1>4, <1>6 DEF ExperimentInv, ExperimentTypeOK, Begun
<1>8. NothingBefore' /\ Filed' /\ Best' /\ Attempted'
  BY <1>2, <1>5, <1>6 DEF ExperimentInv, NothingBefore, Filed, Best, Attempted
<1>9. Honest'
  <2>1. UNCHANGED <<choice, baseline, status>> /\ Begun
    BY <1>2 DEF Begun
  <2>2. \A d \in Seen : ~choice.allowRegressions /\ V!UniqueIds /\ ~d.disqualified => ~V!Broke(d)
    BY <2>1 DEF ExperimentInv, Honest
  <2> QED
    BY <1>3, <1>5, <2>1, <2>2 DEF Honest, V!Broke, V!UniqueIds
<1> QED
  BY <1>7, <1>8, <1>9 DEF ExperimentInv

LEMMA EndRoundStep ==
  ASSUME ExperimentInv, V!EndRound
  PROVE  ExperimentInv'
<1> DEFINE best == V!RoundBest
<1>1. /\ status = "score" /\ status' \in {"done", "gather"}
      /\ UNCHANGED <<choice, baseline, candidates, bestAttempted>>
      /\ rounds' = Append(rounds, candidates)
      /\ bestSoFar' = IF best = V!None THEN bestSoFar ELSE V!PickBetter(bestSoFar, best[1], FALSE)
  BY DEF V!EndRound
<1>2. /\ best = V!None => \A c \in V!ToSet(candidates) : c.disqualified
      /\ best # V!None =>
           /\ best \in Options /\ best[1] \in V!ToSet(candidates) /\ ~best[1].disqualified
           /\ \A c \in V!ToSet(candidates) : ~c.disqualified => c.value <= best[1].value
  BY BestOfRound DEF ExperimentInv
<1> HIDE DEF best
<1>3. candidates \in Seq(AllCandidates) /\ rounds \in Seq(Seq(AllCandidates)) /\ bestSoFar \in Options
  BY DEF ExperimentInv, ExperimentTypeOK
<1>4. rounds' \in Seq(Seq(AllCandidates)) /\ V!ToSet(rounds') = V!ToSet(rounds) \cup {candidates}
  BY <1>1, <1>3, OneMoreElement
<1>5. V!Tried' = Seen /\ V!ToSet(candidates)' = V!ToSet(candidates) /\ Seen' = Seen
  <2>1. V!Tried = UNION {V!ToSet(r) : r \in V!ToSet(rounds)}
    BY DEF V!Tried, V!ToSet
  <2>2. V!Tried' = UNION {V!ToSet(r) : r \in V!ToSet(rounds')}
    BY DEF V!Tried, V!ToSet
  <2>3. V!Tried' = V!Tried \cup V!ToSet(candidates)
    BY <1>4, <2>1, <2>2
  <2>4. V!ToSet(candidates)' = V!ToSet(candidates)
    BY <1>1 DEF V!ToSet
  <2> QED
    BY <2>3, <2>4 DEF Seen
<1>6. \A c \in Seen : c \in AllCandidates /\ c.value \in Int
  <2>1. \A c \in V!ToSet(candidates) : c \in AllCandidates
    BY <1>3, LenProperties DEF V!ToSet
  <2>2. ASSUME NEW i \in DOMAIN rounds PROVE \A c \in V!ToSet(rounds[i]) : c \in AllCandidates
    <3>1. rounds[i] \in Seq(AllCandidates)
      BY <1>3, LenProperties
    <3> QED
      BY <3>1, LenProperties DEF V!ToSet
  <2> QED
    BY <2>1, <2>2 DEF Seen, V!Tried, AllCandidates
<1>7. Best' /\ bestSoFar' \in Options
  <2>1. Best /\ V!Tried \subseteq Seen /\ V!ToSet(candidates) \subseteq Seen /\ Seen = V!Tried \cup V!ToSet(candidates)
    BY DEF ExperimentInv, Seen
  <2>2. CASE best = V!None
    BY <1>1, <1>2, <1>3, <1>5, <2>1, <2>2 DEF Best
  <2>3. CASE best # V!None /\ bestSoFar = V!None
    <3>1. bestSoFar' = <<best[1]>>
      BY <1>1, <1>2, <2>3 DEF V!PickBetter
    <3>2. bestSoFar'[1] = best[1] /\ bestSoFar' # V!None
      BY <3>1 DEF V!None
    <3>3. best[1] \in AllCandidates
      BY <1>2, <1>6, <2>1, <2>3
    <3> QED
      BY <1>2, <1>5, <2>1, <2>3, <3>1, <3>2, <3>3 DEF Best, Options
  <2>4. CASE best # V!None /\ bestSoFar # V!None
    <3> DEFINE x == best[1]
               y == bestSoFar[1]
    <3>1. x \in Seen /\ y \in Seen /\ x.value \in Int /\ y.value \in Int /\ x \in AllCandidates
      BY <1>2, <1>6, <2>1, <2>4 DEF Best
    <3>2. bestSoFar' = IF x.value > y.value THEN <<x>> ELSE bestSoFar
      BY <1>1, <1>2, <2>4 DEF V!PickBetter
    <3>3. /\ \A c \in V!ToSet(candidates) : ~c.disqualified => c.value <= x.value
          /\ \A c \in V!Tried : ~c.disqualified => c.value <= y.value
          /\ ~x.disqualified /\ ~y.disqualified
      BY <1>2, <2>1, <2>4 DEF Best
    <3>4. CASE x.value > y.value
      <4>1. bestSoFar' = <<x>> /\ bestSoFar'[1] = x /\ bestSoFar' # V!None
        BY <3>2, <3>4 DEF V!None
      <4> HIDE DEF x, y
      <4>2. \A c \in Seen : ~c.disqualified => c.value <= x.value
        BY <1>6, <2>1, <3>1, <3>3, <3>4
      <4> QED
        BY <1>5, <3>1, <3>3, <4>1, <4>2 DEF Best, Options
    <3>5. CASE ~(x.value > y.value)
      <4>1. bestSoFar' = bestSoFar /\ bestSoFar'[1] = y /\ bestSoFar' # V!None
        BY <2>4, <3>2, <3>5
      <4> HIDE DEF x, y
      <4>2. \A c \in Seen : ~c.disqualified => c.value <= y.value
        BY <1>6, <2>1, <3>1, <3>3, <3>5
      <4> QED
        BY <1>3, <1>5, <3>1, <3>3, <4>1, <4>2 DEF Best
    <3> QED
      BY <3>4, <3>5
  <2> QED
    BY <2>2, <2>3, <2>4
<1>8. ExperimentTypeOK'
  BY <1>1, <1>4, <1>7 DEF ExperimentInv, ExperimentTypeOK, Begun
<1>9. NothingBefore' /\ Filed' /\ Attempted'
  BY <1>1, <1>5 DEF ExperimentInv, NothingBefore, Filed, Attempted, Seen
<1>10. Honest'
  BY <1>1, <1>5 DEF ExperimentInv, Honest, Begun, V!Broke, V!UniqueIds
<1> QED
  BY <1>7, <1>8, <1>9, <1>10 DEF ExperimentInv

LEMMA ExperimentStep == ExperimentInv /\ V!Next => ExperimentInv'
<1> SUFFICES ASSUME ExperimentInv, V!Next PROVE ExperimentInv'
  OBVIOUS
<1>1. CASE V!Throws
  BY <1>1, Idle DEF V!Throws
<1>2. CASE V!LastRound
  BY <1>2, Idle DEF V!LastRound, Begun
<1> QED
  BY <1>1, <1>2, BaselineStep, GatherStep, ScoreStep, EndRoundStep DEF V!Next

LEMMA StillExperiment == UNCHANGED experimentVars /\ ExperimentInv => ExperimentInv'
BY Idle DEF experimentVars, Begun

LEMMA BestIsApplied == ExperimentInv => V!ApplyIsBest
<1> SUFFICES ASSUME ExperimentInv, status = "done"
             PROVE  /\ V!Recommendation = "apply" =>
                         /\ bestSoFar[1].value > V!BaselineValue
                         /\ bestSoFar[1] \in V!Tried
                         /\ ~choice.allowRegressions /\ V!UniqueIds => ~V!Broke(bestSoFar[1])
                         /\ \A c \in V!Tried : ~c.disqualified => c.value <= bestSoFar[1].value
                    /\ V!Recommendation = "reject" => \A c \in V!Tried : c.disqualified
                    /\ V!Recommendation = "none" <=> V!Tried = {}
  BY DEF V!ApplyIsBest
<1>1. Seen = V!Tried
  BY DEF ExperimentInv, Filed, Seen
<1>2. V!Recommendation = "apply" => bestSoFar # V!None /\ bestSoFar[1].value > V!BaselineValue
  BY DEF V!Recommendation
<1>3. V!Recommendation = "reject" => bestSoFar = V!None
  BY DEF V!Recommendation
<1>4. V!Recommendation = "none" <=> bestSoFar = V!None /\ bestAttempted = V!None
  BY DEF V!Recommendation
<1>5. bestSoFar # V!None => V!Tried # {}
  BY DEF ExperimentInv, Best
<1>6. \A c \in Seen : ~choice.allowRegressions /\ V!UniqueIds /\ ~c.disqualified => ~V!Broke(c)
  BY DEF ExperimentInv, Honest, Begun
<1> QED
  BY <1>1, <1>2, <1>3, <1>4, <1>5, <1>6 DEF ExperimentInv, Best, Attempted

-------------------------------------------------------------------------------
(* Metrics: a row for each case so far, under a key of its own.                        *)

Cases == [id : CaseIds, dataset : DatasetNames, pass : BOOLEAN, judges : JudgeEntries]
CaseIdsUsed == {cases[i].id : i \in DOMAIN cases}
Sole(i) == \A j \in DOMAIN cases : cases[j].id = cases[i].id => j = i

MetricsTypeOK ==
  /\ specs \in Specs
  /\ \E n \in 0..MaxCases : cases \in [1..n -> Cases]
  /\ IsSeq(keys) /\ IsSeq(rows) /\ Len(keys) = Len(rows) /\ Len(rows) <= Len(cases)

\* There is a row for each case so far, under its key.
Rowed == /\ \A i \in DOMAIN rows : rows[i] = M!Row(cases[i]) /\ perCase[keys[i]] = rows[i]
         /\ DOMAIN perCase = {keys[i] : i \in DOMAIN keys}

\* Keys differ, and one that is not the id of its case is no id.
Keyed == /\ Differ(keys)
         /\ \A i \in DOMAIN keys : /\ keys[i] = cases[i].id \/ keys[i] \notin CaseIdsUsed
                                   /\ Sole(i) => keys[i] = cases[i].id

\* The keys in use are these, and no more than two for each case.
Used == /\ usedKeys = CaseIdsUsed \cup {keys[i] : i \in DOMAIN keys}
        /\ IsFiniteSet(usedKeys) /\ Cardinality(usedKeys) <= Len(cases) + Len(keys)

\* The aggregates are of all rows.
Summed == aggregated # M!None =>
  Len(rows) = Len(cases) /\ aggregated = <<M!Aggregates>>

MetricsInv == MetricsTypeOK /\ Rowed /\ Keyed /\ Used /\ Summed

LEMMA CasesAreSeq ==
  ASSUME MetricsTypeOK
  PROVE  /\ Len(cases) \in Nat /\ Len(cases) <= MaxCases /\ DOMAIN cases = 1..Len(cases)
         /\ \A i \in 1..Len(cases) : cases[i] \in Cases
         /\ Len(rows) \in Nat /\ Len(keys) = Len(rows) /\ Len(rows) <= Len(cases)
         /\ DOMAIN keys = 1..Len(rows) /\ DOMAIN rows = 1..Len(rows)
<1>1. PICK n \in 0..MaxCases : cases \in [1..n -> Cases]
  BY DEF MetricsTypeOK
<1>2. n \in Nat /\ n <= MaxCases
  BY MetricsAssumption
<1>3. cases \in Seq(Cases)
  BY <1>1, <1>2, SeqDef
<1>4. Len(cases) = n /\ DOMAIN cases = 1..Len(cases)
  BY <1>1, <1>2, <1>3, LenProperties
<1>5. DOMAIN rows = 1..Len(rows) /\ DOMAIN keys = 1..Len(keys) /\ Len(rows) \in Nat
  BY LenProperties DEF MetricsTypeOK, IsSeq
<1> QED
  BY <1>1, <1>2, <1>4, <1>5 DEF MetricsTypeOK

LEMMA MetricsStart == M!Init => MetricsInv
<1> SUFFICES ASSUME M!Init PROVE MetricsInv
  OBVIOUS
<1>1. PICK n \in 0..MaxCases : cases \in [1..n -> Cases]
  BY DEF M!Init, Cases
<1>2. n \in Nat /\ keys = <<>> /\ rows = <<>> /\ usedKeys = CaseIdsUsed /\ aggregated = M!None
      /\ perCase = [key \in {} |-> M!None] /\ specs \in Specs
  BY MetricsAssumption DEF M!Init, CaseIdsUsed
<1>3. cases \in Seq(Cases) /\ Len(cases) = n /\ DOMAIN cases = 1..n
  <2>1. cases \in Seq(Cases)
    BY <1>1, <1>2, SeqDef
  <2> QED
    BY <1>1, <1>2, <2>1, LenProperties
<1>4. MetricsTypeOK
  BY <1>1, <1>2, <1>3 DEF MetricsTypeOK, IsSeq
<1>5. Rowed /\ Keyed /\ Summed
  BY <1>2 DEF Rowed, Keyed, Summed, Differ
<1>6. Used
  <2>1. PICK f : f = [i \in 1..n |-> cases[i].id]
    OBVIOUS
  <2>2. f \in Surjection(1..n, CaseIdsUsed)
    <3>1. f \in [1..n -> CaseIdsUsed] /\ \A y \in CaseIdsUsed : \E i \in 1..n : f[i] = y
      BY <1>3, <2>1 DEF CaseIdsUsed
    <3> QED
      BY <3>1, Fun_IsSurj
  <2>3. IsFiniteSet(1..n) /\ Cardinality(1..n) = n
    BY <1>2, Numbers
  <2>4. IsFiniteSet(CaseIdsUsed) /\ Cardinality(CaseIdsUsed) <= n
    BY <2>2, <2>3, FS_Surjection
  <2> QED
    BY <1>2, <1>3, <2>4, FS_CardinalityType DEF Used
<1> QED
  BY <1>4, <1>5, <1>6 DEF MetricsInv

\* A qualified key ends in its occurrence.
LEMMA EndsIn ==
  ASSUME NEW case \in Cases, NEW m \in DOMAIN Digits, NEW n \in DOMAIN Digits,
         M!Qualified(case, m) = M!Qualified(case, n)
  PROVE  m = n
<1> DEFINE A == {"[", case.dataset} \cup {case.id[i] : i \in DOMAIN case.id}
           head == <<"[", case.dataset>> \o case.id
<1>1. case.id \in Seq({case.id[i] : i \in DOMAIN case.id})
  BY MetricsAssumption DEF Cases, IsSeq
<1>2. case.id \in Seq(A) /\ <<"[", case.dataset>> \in Seq(A)
  BY <1>1
<1>3. head \in Seq(A)
  BY <1>2, ConcatProperties
<1> HIDE DEF head, A
<1>4. ASSUME NEW x PROVE (head \o <<x>>)[Len(head) + 1] = x
  <2>1. head \in Seq(A \cup {x}) /\ <<x>> \in Seq(A \cup {x}) /\ Len(<<x>>) = 1 /\ Len(head) \in Nat
    BY <1>3
  <2>2. Len(head) + 1 \in (Len(head) + 1)..(Len(head) + Len(<<x>>))
    BY <2>1
  <2>3. (head \o <<x>>)[Len(head) + 1] = <<x>>[1]
    BY <2>1
  <2> QED
    BY <2>3
<1>5. M!Qualified(case, m) = head \o <<Digits[m]>> /\ M!Qualified(case, n) = head \o <<Digits[n]>>
  BY DEF M!Qualified, head
<1>6. Digits[m] = Digits[n]
  BY <1>4, <1>5
<1> QED
  BY <1>6, MetricsAssumption DEF Differ

\* There is a qualified key that is not in use.
LEMMA FreeKey ==
  ASSUME MetricsTypeOK, Used, Len(rows) < Len(cases), NEW case \in Cases
  PROVE  \E n \in DOMAIN Digits : /\ M!Qualified(case, n) \notin usedKeys
                                  /\ \A m \in 1..(n - 1) : M!Qualified(case, m) \in usedKeys
<1> DEFINE T == {n \in DOMAIN Digits : M!Qualified(case, n) \notin usedKeys}
           most == Len(Digits)
<1>1. most \in Nat /\ DOMAIN Digits = 1..most /\ 2 * MaxCases <= most /\ MaxCases \in Nat
  BY MetricsAssumption, LenProperties DEF IsSeq
<1>2. T # {}
  <2> SUFFICES ASSUME T = {} PROVE FALSE
    OBVIOUS
  <2>1. PICK f : f = [n \in 1..most |-> M!Qualified(case, n)]
    OBVIOUS
  <2>2. f \in [1..most -> usedKeys]
    BY <1>1, <2>1
  <2>3. IsFiniteSet(usedKeys) /\ Cardinality(usedKeys) < most
    <3>1. IsFiniteSet(usedKeys) /\ Cardinality(usedKeys) <= Len(cases) + Len(keys)
      BY DEF Used
    <3>2. Cardinality(usedKeys) \in Nat
      BY <3>1, FS_CardinalityType
    <3>3. Len(cases) \in Nat /\ Len(cases) <= MaxCases /\ Len(keys) = Len(rows) /\ Len(rows) \in Nat
      BY CasesAreSeq
    <3> QED
      BY <1>1, <3>1, <3>2, <3>3
  <2>4. IsFiniteSet(1..most) /\ Cardinality(1..most) = most
    BY <1>1, Numbers
  <2>5. PICK x, y \in 1..most : x # y /\ f[x] = f[y]
    BY <2>2, <2>3, <2>4, FS_PigeonHole
  <2> QED
    BY <1>1, <2>1, <2>5, EndsIn
<1>3. T \subseteq Nat
  BY <1>1
<1>4. PICK n \in T : \A m \in T : n <= m
  <2> HIDE DEF T
  <2> QED
    BY <1>2, <1>3, Least
<1>5. ASSUME NEW m \in 1..(n - 1) PROVE M!Qualified(case, m) \in usedKeys
  <2>1. m \in DOMAIN Digits /\ ~(n <= m)
    BY <1>1
  <2> QED
    BY <1>4, <2>1
<1> QED
  BY <1>4, <1>5

\* A key is the id of its case where it is unique, else it is not in use.
LEMMA KeyIsNew ==
  ASSUME MetricsTypeOK, Used, NEW i \in DOMAIN cases, Len(rows) < Len(cases)
  PROVE  \/ Sole(i) /\ M!Key(cases[i]) = cases[i].id
         \/ ~Sole(i) /\ M!Key(cases[i]) \notin usedKeys
<1> DEFINE case == cases[i]
           Same == {j \in DOMAIN cases : cases[j].id = case.id}
<1>1. Len(cases) \in Nat /\ DOMAIN cases = 1..Len(cases) /\ case \in Cases
  BY CasesAreSeq
<1>2. IsFiniteSet(Same)
  <2>1. IsFiniteSet(1..Len(cases)) /\ Same \subseteq 1..Len(cases)
    BY <1>1, Numbers
  <2> QED
    BY <2>1, FS_Subset
<1>3. Cardinality(Same) = 1 <=> Sole(i)
  <2>1. Cardinality(Same) = 1 <=> \E x : Same = {x}
    BY <1>2, FS_Singleton
  <2>2. i \in Same
    OBVIOUS
  <2>3. (\E x : Same = {x}) <=> Same = {i}
    BY <2>2
  <2>4. Same = {i} <=> Sole(i)
    BY DEF Sole
  <2> QED
    BY <2>1, <2>3, <2>4
<1>4. CASE Sole(i)
  BY <1>3, <1>4, SameCounts DEF M!Key
<1>5. CASE ~Sole(i)
  <2> DEFINE Good(n) == /\ M!Qualified(case, n) \notin usedKeys
                        /\ \A m \in 1..(n - 1) : M!Qualified(case, m) \in usedKeys
  <2>1. \E n \in DOMAIN Digits : Good(n)
    BY <1>1, FreeKey
  <2>2. Good(CHOOSE n \in DOMAIN Digits : Good(n))
    BY <2>1
  <2>3. M!Key(case) = M!Qualified(case, CHOOSE n \in DOMAIN Digits : Good(n))
    BY <1>3, <1>5, SameCounts DEF M!Key
  <2> QED
    BY <1>5, <2>2, <2>3
<1> QED
  BY <1>4, <1>5

LEMMA AddRowStep ==
  ASSUME MetricsInv, M!AddRow
  PROVE  MetricsInv'
<1> DEFINE n == Len(rows) + 1
           case == cases[n]
           key == M!Key(case)
           row == M!Row(case)
<1>1. /\ Len(rows) < Len(cases)
      /\ keys' = Append(keys, key) /\ usedKeys' = usedKeys \cup {key} /\ rows' = Append(rows, row)
      /\ perCase' = [k \in DOMAIN perCase \cup {key} |-> IF k = key THEN row ELSE perCase[k]]
      /\ UNCHANGED <<specs, cases, aggregated>>
  BY DEF M!AddRow
<1>2. MetricsTypeOK /\ Rowed /\ Keyed /\ Used /\ Summed
  BY DEF MetricsInv
<1>3. /\ Len(cases) \in Nat /\ DOMAIN cases = 1..Len(cases)
      /\ Len(rows) \in Nat /\ Len(keys) = Len(rows) /\ n \in Nat /\ n \in DOMAIN cases /\ n <= Len(cases)
      /\ DOMAIN keys = 1..Len(rows) /\ DOMAIN rows = 1..Len(rows)
  <2>1. /\ Len(cases) \in Nat /\ DOMAIN cases = 1..Len(cases) /\ Len(rows) \in Nat /\ Len(keys) = Len(rows)
        /\ DOMAIN keys = 1..Len(rows) /\ DOMAIN rows = 1..Len(rows)
    BY <1>2, CasesAreSeq
  <2> QED
    BY <1>1, <2>1
<1>4. \/ Sole(n) /\ key = case.id
      \/ ~Sole(n) /\ key \notin usedKeys
  BY <1>1, <1>2, <1>3, KeyIsNew
<1> HIDE DEF key, row, case
<1>5. /\ IsSeq(keys') /\ Len(keys') = n /\ DOMAIN keys' = 1..n
      /\ \A i \in 1..Len(rows) : keys'[i] = keys[i]
      /\ keys'[n] = key
  BY <1>1, <1>2, <1>3, Extended DEF MetricsTypeOK
<1>6. /\ IsSeq(rows') /\ Len(rows') = n /\ DOMAIN rows' = 1..n
      /\ \A i \in 1..Len(rows) : rows'[i] = rows[i]
      /\ rows'[n] = row
  BY <1>1, <1>2, <1>3, Extended DEF MetricsTypeOK
<1>7. \A i \in 1..n : i \in 1..Len(rows) \/ i = n
  BY <1>3
<1> HIDE DEF n
<1>8. CaseIdsUsed' = CaseIdsUsed /\ (\A i \in DOMAIN cases : Sole(i)' <=> Sole(i))
  BY <1>1 DEF CaseIdsUsed, Sole
<1>9. \A i \in 1..Len(rows) : keys[i] # key
  <2> SUFFICES ASSUME NEW i \in 1..Len(rows), keys[i] = key PROVE FALSE
    OBVIOUS
  <2>1. keys[i] \in usedKeys
    BY <1>2, <1>3 DEF Used
  <2>2. Sole(n) /\ key = case.id
    BY <1>4, <2>1
  <2>3. key \in CaseIdsUsed
    BY <1>3, <2>2 DEF CaseIdsUsed, case
  <2>4. keys[i] = cases[i].id /\ i \in DOMAIN cases
    BY <1>1, <1>2, <1>3, <2>3 DEF Keyed
  <2>5. i = n
    BY <2>2, <2>4 DEF Sole, case
  <2> QED
    BY <1>3, <2>5 DEF n
<1>10. MetricsTypeOK'
  <2>1. \E k \in 0..MaxCases : cases' \in [1..k -> Cases]
    BY <1>1, <1>2 DEF MetricsTypeOK
  <2>2. specs' \in Specs
    BY <1>1, <1>2 DEF MetricsTypeOK
  <2> QED
    BY <1>1, <1>3, <1>5, <1>6, <2>1, <2>2 DEF MetricsTypeOK
<1>11. Rowed'
  <2>1. \A i \in DOMAIN cases : M!Row(cases[i])' = M!Row(cases[i])
    BY <1>1 DEF M!Row, M!OutNames, M!Last
  <2>2. DOMAIN perCase = {keys[i] : i \in 1..Len(rows)}
    BY <1>2, <1>3 DEF Rowed
  <2>3. DOMAIN perCase' = {keys'[i] : i \in DOMAIN keys'}
    <3>1. {keys'[i] : i \in 1..n} = {keys[i] : i \in 1..Len(rows)} \cup {key}
      <4>1. 1..n = (1..Len(rows)) \cup {n}
        BY <1>3 DEF n
      <4> QED
        BY <1>5, <4>1
    <3> QED
      BY <1>1, <1>5, <2>2, <3>1
  <2>4. ASSUME NEW i \in 1..n PROVE rows'[i] = M!Row(cases[i])' /\ perCase'[keys'[i]] = rows'[i]
    <3>1. CASE i \in 1..Len(rows)
      <4>1. rows[i] = M!Row(cases[i]) /\ perCase[keys[i]] = rows[i] /\ keys[i] # key /\ keys[i] \in DOMAIN perCase
            /\ i \in DOMAIN cases
        BY <1>1, <1>2, <1>3, <1>9, <2>2, <3>1 DEF Rowed
      <4>2. perCase'[keys[i]] = perCase[keys[i]]
        BY <1>1, <4>1
      <4> QED
        BY <1>5, <1>6, <2>1, <3>1, <4>1, <4>2
    <3>2. CASE i = n
      <4>1. perCase'[key] = row /\ row = M!Row(cases[n])
        BY <1>1 DEF row, case
      <4> QED
        BY <1>3, <1>5, <1>6, <2>1, <3>2, <4>1
    <3> QED
      BY <1>7, <3>1, <3>2
  <2> QED
    BY <1>6, <2>3, <2>4 DEF Rowed
<1>12. Keyed'
  <2>1. \A i, j \in 1..n : keys'[i] = keys'[j] => i = j
    <3>1. \A i, j \in 1..Len(rows) : keys[i] = keys[j] => i = j
      BY <1>2, <1>3 DEF Keyed, Differ
    <3> QED
      BY <1>5, <1>7, <1>9, <3>1
  <2>2. ASSUME NEW i \in 1..n
        PROVE  /\ keys'[i] = cases[i].id \/ keys'[i] \notin CaseIdsUsed
               /\ Sole(i) => keys'[i] = cases[i].id
    <3>1. CASE i \in 1..Len(rows)
      BY <1>2, <1>3, <1>5, <3>1 DEF Keyed
    <3>2. CASE i = n
      <4>1. CaseIdsUsed \subseteq usedKeys
        BY <1>2 DEF Used
      <4> QED
        BY <1>4, <1>5, <3>2, <4>1 DEF case
    <3> QED
      BY <1>7, <3>1, <3>2
  <2>3. \A i \in 1..n : i \in DOMAIN cases
    BY <1>3
  <2> QED
    BY <1>1, <1>5, <1>8, <2>1, <2>2, <2>3 DEF Keyed, Differ
<1>13. Used'
  <2>1. {keys'[i] : i \in 1..n} = {keys[i] : i \in 1..Len(rows)} \cup {key}
    <3>1. 1..n = (1..Len(rows)) \cup {n}
      BY <1>3 DEF n
    <3> QED
      BY <1>5, <3>1
  <2>2. usedKeys' = CaseIdsUsed \cup {keys'[i] : i \in DOMAIN keys'}
    BY <1>1, <1>2, <1>3, <1>5, <2>1 DEF Used
  <2>3. IsFiniteSet(usedKeys') /\ Cardinality(usedKeys') <= Cardinality(usedKeys) + 1
    <3>1. IsFiniteSet(usedKeys)
      BY <1>2 DEF Used
    <3>2. Cardinality(usedKeys) \in Nat
      BY <3>1, FS_CardinalityType
    <3>3. /\ IsFiniteSet(usedKeys \cup {key})
          /\ Cardinality(usedKeys \cup {key}) = IF key \in usedKeys THEN Cardinality(usedKeys) ELSE Cardinality(usedKeys) + 1
      BY <3>1, FS_AddElement
    <3>4. Cardinality(usedKeys \cup {key}) <= Cardinality(usedKeys) + 1
      BY <3>2, <3>3
    <3> QED
      BY <1>1, <3>3, <3>4
  <2>4. Cardinality(usedKeys) <= Len(cases) + Len(rows) /\ Cardinality(usedKeys) \in Nat
        /\ Cardinality(usedKeys') \in Nat
    BY <1>2, <1>3, <2>3, FS_CardinalityType DEF Used
  <2>5. Cardinality(usedKeys') <= Len(cases) + n
    BY <1>3, <2>3, <2>4 DEF n
  <2> QED
    BY <1>1, <1>5, <1>8, <2>2, <2>3, <2>5 DEF Used
<1>14. Summed'
  <2>1. aggregated = M!None
    <3>1. Len(rows) # Len(cases)
      <4>1. Len(rows) < Len(cases) /\ Len(rows) \in Nat /\ Len(cases) \in Nat
        BY <1>1, <1>3
      <4> QED
        BY <4>1
    <3> QED
      BY <3>1, <1>2 DEF Summed
  <2> QED
    BY <1>1, <2>1 DEF Summed
<1> QED
  BY <1>10, <1>11, <1>12, <1>13, <1>14 DEF MetricsInv

LEMMA SameMetrics ==
  ASSUME MetricsInv, UNCHANGED <<specs, cases, keys, usedKeys, perCase, rows>>,
         aggregated' # M!None =>
           Len(rows) = Len(cases) /\ aggregated' = <<M!Aggregates>>
  PROVE  MetricsInv'
<1>1. MetricsTypeOK'
  BY DEF MetricsInv, MetricsTypeOK
<1>4. CaseIdsUsed' = CaseIdsUsed
  BY DEF CaseIdsUsed
<1>5. Keyed'
  BY <1>4 DEF MetricsInv, Keyed, Sole
<1>6. Used'
  BY <1>4 DEF MetricsInv, Used
<1>2. Rowed'
  <2>1. \A i \in DOMAIN rows : M!Row(cases[i])' = M!Row(cases[i])
    BY DEF M!Row, M!OutNames, M!Last
  <2> QED
    BY <2>1 DEF MetricsInv, Rowed
<1>3. Summed'
  <2>1. ASSUME NEW spec PROVE M!Aggregation(spec)' = M!Aggregation(spec)
    BY SameCounts DEF M!Aggregation, M!Last
  <2>2. ASSUME NEW key PROVE M!Writers(key)' = M!Writers(key)
    BY <2>1 DEF M!Writers
  <2>3. ASSUME NEW key PROVE M!Writer(key)' = M!Writer(key)
    BY <2>2 DEF M!Writer
  <2>4. M!AggregateKeys' = M!AggregateKeys
    BY <2>2 DEF M!AggregateKeys
  <2>5. M!Aggregates' = M!Aggregates
    BY <2>1, <2>3, <2>4 DEF M!Aggregates
  <2> QED
    BY <2>5 DEF Summed
<1> QED
  BY <1>1, <1>2, <1>3, <1>5, <1>6 DEF MetricsInv

LEMMA MetricsStep == MetricsInv /\ M!Next => MetricsInv'
<1>1. MetricsInv /\ M!Aggregate => MetricsInv'
  BY SameMetrics DEF M!Aggregate
<1> QED
  BY <1>1, AddRowStep DEF M!Next

LEMMA StillMetrics == UNCHANGED metricsVars /\ MetricsInv => MetricsInv'
BY SameMetrics DEF metricsVars, MetricsInv, Summed

\* The rate of passed cases is over all of them.
LEMMA PassedRate ==
  ASSUME MetricsInv, Len(rows) = Len(cases), NEW spec, M!Kind(spec) = "rate",
         NEW name, name = M!OutName(spec), name \in M!OutNames, M!Last(name).metric = "passed"
  PROVE  M!Aggregation(spec) =
           [sum |-> Cardinality({i \in DOMAIN cases : cases[i].pass}), of |-> Len(cases)]
<1> DEFINE n == Len(rows)
           HasValue(i) == rows[i][name] # M!None /\ M!Kind(spec) \in {M!Kind(M!Last(name)), "list"}
           Passing(k) == {i \in 1..k : cases[i].pass}
           Equation(f) == f = [i \in 0..n |-> IF i = 0 THEN 0 ELSE f[i - 1] + IF HasValue(i) THEN rows[i][name][1] ELSE 0]
<1>1. n \in Nat /\ n = Len(cases) /\ DOMAIN rows = 1..n /\ DOMAIN cases = 1..n /\ \A i \in 1..n : cases[i].pass \in BOOLEAN
  <2>1. MetricsTypeOK
    BY DEF MetricsInv
  <2> QED
    BY <2>1, CasesAreSeq DEF Cases
<1>2. ASSUME NEW i \in 1..n PROVE HasValue(i) /\ rows[i][name][1] = IF cases[i].pass THEN 1 ELSE 0
  <2>1. rows[i] = M!Row(cases[i])
    BY <1>1 DEF MetricsInv, Rowed
  <2>2. rows[i][name] = <<IF cases[i].pass THEN 1 ELSE 0>>
    BY <2>1 DEF M!Row, M!Compute, M!Flag
  <2>3. M!Kind(M!Last(name)) = "rate"
    BY DEF M!Kind
  <2> QED
    BY <2>2, <2>3 DEF M!None
<1> HIDE DEF n
<1>3. \E f : Equation(f)
  <2>1. PICK step : step = [i \in 1..n |-> [s \in Nat |-> s + IF HasValue(i) THEN rows[i][name][1] ELSE 0]]
    OBVIOUS
  <2>2. step \in [1..n -> [Nat -> Nat]]
    BY <1>2, <2>1
  <2>3. PICK f : Walk(n, Nat, 0, step, f)
    BY <1>1, <2>2, Recursion
  <2>4. f \in [0..n -> Nat] /\ f[0] = 0 /\ \A i \in 1..n : f[i] = step[i][f[i - 1]]
    BY <2>3 DEF Walk
  <2>5. ASSUME NEW i \in 0..n
        PROVE  f[i] = IF i = 0 THEN 0 ELSE f[i - 1] + IF HasValue(i) THEN rows[i][name][1] ELSE 0
    <3>1. CASE i = 0
      BY <2>4, <3>1
    <3>2. CASE i # 0
      <4>1. i \in 1..n /\ i - 1 \in 0..n
        BY <1>1, <3>2
      <4>2. f[i - 1] \in Nat /\ f[i] = step[i][f[i - 1]]
        BY <2>4, <4>1
      <4> QED
        BY <2>1, <3>2, <4>1, <4>2
    <3> QED
      BY <3>1, <3>2
  <2>6. Equation(f)
    BY <2>4, <2>5
  <2> QED
    BY <2>6
<1>4. PICK f : Equation(f) /\ M!Aggregation(spec) = [sum |-> f[n], of |-> Cardinality({i \in DOMAIN rows : HasValue(i)})]
  BY <1>3, SameCounts DEF M!Aggregation, n
<1>5. \A k \in Nat : IsFiniteSet(Passing(k)) /\ Cardinality(Passing(k)) \in Nat
  <2> SUFFICES ASSUME NEW k \in Nat PROVE IsFiniteSet(Passing(k)) /\ Cardinality(Passing(k)) \in Nat
    OBVIOUS
  <2>1. IsFiniteSet(1..k) /\ Passing(k) \subseteq 1..k
    BY Numbers
  <2> QED
    BY <2>1, FS_Subset, FS_CardinalityType
<1> DEFINE T == {k \in Nat : k <= n => f[k] = Cardinality(Passing(k))}
<1>6. 0 \in T
  <2>1. Passing(0) = {}
    OBVIOUS
  <2>2. f[0] = 0
    BY <1>1, <1>4
  <2> QED
    BY <2>1, <2>2, FS_EmptySet
<1>7. ASSUME NEW k \in T PROVE k + 1 \in T
  <2> SUFFICES ASSUME k + 1 <= n PROVE f[k + 1] = Cardinality(Passing(k + 1))
    BY k + 1 \in Nat
  <2>1. k + 1 \in 1..n /\ k + 1 \in 0..n /\ (k + 1) - 1 = k /\ k + 1 # 0 /\ k \in Nat
    BY <1>1
  <2>2. f[k + 1] = f[k] + IF cases[k + 1].pass THEN 1 ELSE 0
    <3>1. f[k + 1] = f[k] + IF HasValue(k + 1) THEN rows[k + 1][name][1] ELSE 0
      BY <1>4, <2>1
    <3> QED
      BY <1>2, <2>1, <3>1
  <2>3. f[k] = Cardinality(Passing(k)) /\ f[k] \in Nat
    <3>1. k <= n
      BY <1>1
    <3> QED
      BY <1>5, <3>1
  <2>4. 1..(k + 1) = (1..k) \cup {k + 1} /\ k + 1 \notin 1..k
    OBVIOUS
  <2>5. CASE cases[k + 1].pass
    <3>1. Passing(k + 1) = Passing(k) \cup {k + 1} /\ k + 1 \notin Passing(k)
      BY <2>4, <2>5
    <3>2. Cardinality(Passing(k + 1)) = Cardinality(Passing(k)) + 1
      BY <1>5, <2>1, <3>1, FS_AddElement
    <3> QED
      BY <2>2, <2>3, <2>5, <3>2
  <2>6. CASE ~cases[k + 1].pass
    <3>1. Passing(k + 1) = Passing(k)
      BY <2>4, <2>6
    <3> HIDE DEF Passing
    <3> QED
      BY <2>2, <2>3, <2>6, <3>1
  <2> QED
    BY <2>5, <2>6
<1>8. f[n] = Cardinality(Passing(n))
  <2>1. T = Nat
    <3> HIDE DEF T
    <3>1. T \subseteq Nat
      BY DEF T
    <3> QED
      BY <1>6, <1>7, <3>1, Up
  <2>2. n \in T
    <3> HIDE DEF T
    <3> QED
      BY <1>1, <2>1
  <2>3. n <= n
    BY <1>1
  <2> HIDE DEF Passing
  <2> QED
    BY <2>2, <2>3
<1>9. Cardinality({i \in DOMAIN rows : HasValue(i)}) = n
  <2>1. {i \in DOMAIN rows : HasValue(i)} = 1..n
    BY <1>1, <1>2
  <2> QED
    BY <1>1, <2>1, Numbers
<1>10. Passing(n) = {i \in DOMAIN cases : cases[i].pass}
  BY <1>1
<1> QED
  BY <1>1, <1>4, <1>8, <1>9, <1>10

\* The last of the metrics that write a key is one of them.
LEMMA WriterThere ==
  ASSUME MetricsInv, NEW key \in M!AggregateKeys
  PROVE  \E i \in DOMAIN specs : M!Writer(key) = specs[i]
<1> DEFINE T == M!Writers(key)
           n == Len(specs)
           below == {n - i : i \in T}
<1>1. IsSeq(specs)
  BY MetricsAssumption DEF MetricsInv, MetricsTypeOK
<1>2. n \in Nat /\ DOMAIN specs = 1..n
  BY <1>1, LenProperties DEF IsSeq
<1>3. T \subseteq 1..n /\ T # {}
  BY <1>2 DEF M!Writers, M!AggregateKeys
<1> HIDE DEF T, n
<1>4. below \subseteq Nat /\ below # {}
  BY <1>2, <1>3
<1> HIDE DEF below
<1>5. PICK d \in below : \A e \in below : d <= e
  BY <1>4, Least
<1>6. PICK i \in T : d = n - i
  BY DEF below
<1>7. \A j \in T : j <= i
  <2> TAKE j \in T
  <2>1. n - i <= n - j
    BY <1>5, <1>6 DEF below
  <2> QED
    BY <1>2, <1>3, <2>1
<1>8. (CHOOSE k \in T : \A j \in T : j <= k) \in T
  BY <1>7
<1> QED
  BY <1>2, <1>3, <1>8 DEF M!Writer, T

LEMMA CasesCount == MetricsInv => M!EveryCaseCounts
<1> SUFFICES ASSUME MetricsInv, aggregated # M!None
             PROVE  /\ Cardinality(DOMAIN perCase) = Len(cases)
                    /\ \A i \in DOMAIN cases :
                         /\ perCase[keys[i]] = M!Row(cases[i])
                         /\ (\A j \in DOMAIN cases : cases[j].id = cases[i].id => j = i) => keys[i] = cases[i].id
                    /\ \A key \in DOMAIN aggregated[1] :
                         M!Writer(key).metric = "passed" /\ M!Last(M!OutName(M!Writer(key))).metric = "passed" =>
                           aggregated[1][key] =
                             [sum |-> Cardinality({i \in DOMAIN cases : cases[i].pass}), of |-> Len(cases)]
  BY SameCounts DEF M!EveryCaseCounts
<1>1. Len(rows) = Len(cases) /\ aggregated = <<M!Aggregates>>
  BY DEF MetricsInv, Summed
<1>2. /\ Len(cases) \in Nat /\ DOMAIN cases = 1..Len(cases) /\ DOMAIN keys = DOMAIN cases /\ DOMAIN rows = DOMAIN cases
  BY <1>1, CasesAreSeq DEF MetricsInv
<1>3. Cardinality(DOMAIN perCase) = Len(cases)
  <2>1. DOMAIN perCase = {keys[i] : i \in 1..Len(cases)}
    BY <1>2 DEF MetricsInv, Rowed
  <2>2. \A i, j \in 1..Len(cases) : keys[i] = keys[j] => i = j
    BY <1>2 DEF MetricsInv, Keyed, Differ
  <2>3. IsFiniteSet(1..Len(cases)) /\ Cardinality(1..Len(cases)) = Len(cases) /\ 1..Len(cases) \subseteq DOMAIN keys
    BY <1>2, Numbers
  <2> QED
    BY <2>1, <2>2, <2>3, SameNumber
<1>4. ASSUME NEW i \in DOMAIN cases
      PROVE  perCase[keys[i]] = M!Row(cases[i]) /\ (Sole(i) => keys[i] = cases[i].id)
  BY <1>2 DEF MetricsInv, Rowed, Keyed
<1>5. ASSUME NEW key \in DOMAIN aggregated[1], M!Writer(key).metric = "passed",
             M!Last(M!OutName(M!Writer(key))).metric = "passed"
      PROVE  aggregated[1][key] =
               [sum |-> Cardinality({i \in DOMAIN cases : cases[i].pass}), of |-> Len(cases)]
  <2>1. key \in M!AggregateKeys /\ aggregated[1][key] = M!Aggregation(M!Writer(key))
    BY <1>1 DEF M!Aggregates
  <2>2. M!OutName(M!Writer(key)) \in M!OutNames
    BY <2>1, WriterThere DEF M!OutNames
  <2>3. M!Kind(M!Writer(key)) = "rate"
    BY <1>5 DEF M!Kind
  <2> QED
    BY <1>1, <1>5, <2>1, <2>2, <2>3, PassedRate
<1> QED
  BY <1>3, <1>4, <1>5 DEF Sole

-------------------------------------------------------------------------------
(* Datasets: the files as they are, and the selection of a selection.                  *)

\* All the cases of a directory, or those the manifest selects.
AllCases == D!Concatenated([i \in D!Collected |-> tree[i].cases])
Loadings == {<<AllCases>>, <<D!Selected(AllCases)>>}

\* The files are read as they are, and the manifest is through the schemas once.
DatasetsInv ==
  /\ manifest \in Manifests /\ tree \in Trees
  /\ DOMAIN reads = DOMAIN tree
  /\ \A i \in DOMAIN tree : reads[i] # D!None => reads[i][1] = tree[i].cases
  /\ effective # D!None => effective = <<D!Effective(manifest)>>
  /\ progress = "loaded" => dataset \in Loadings

LEMMA DatasetsStart == D!Init => DatasetsInv
BY DEF D!Init, DatasetsInv

\* Who reads nothing keeps it.
LEMMA SameDatasets ==
  ASSUME DatasetsInv, UNCHANGED <<manifest, recursive, tree, reads, dataset>>,
         effective' = effective \/ effective' = <<D!Effective(manifest)>>,
         progress' = "loaded" => progress = "loaded"
  PROVE  DatasetsInv'
<1>1. /\ (manifest \in Manifests)' /\ (tree \in Trees)' /\ (DOMAIN reads = DOMAIN tree)'
      /\ (\A i \in DOMAIN tree : reads[i] # D!None => reads[i][1] = tree[i].cases)'
  BY DEF DatasetsInv
<1>2. D!Effective(manifest)' = D!Effective(manifest)
  BY DEF D!Effective, D!EffectiveArm, D!ArmHost, D!Patched
<1>3. (effective # D!None => effective = <<D!Effective(manifest)>>)'
  BY <1>2 DEF DatasetsInv
<1>4. Loadings' = Loadings
  BY DEF Loadings, AllCases, D!Selected, D!Concatenated, D!Collected
<1>5. (progress = "loaded" => dataset \in Loadings)'
  BY <1>4 DEF DatasetsInv
<1> QED
  BY <1>1, <1>3, <1>5 DEF DatasetsInv

\* A file of the directory has no controls.
LEMMA AllOfThem ==
  ASSUME NEW list
  PROVE  D!SelectEvalCases(list, D!None, D!None) = list
BY DEF D!SelectEvalCases

LEMMA DatasetsStep == DatasetsInv /\ D!Next => DatasetsInv'
<1> SUFFICES ASSUME DatasetsInv, D!Next PROVE DatasetsInv'
  OBVIOUS
<1>1. CASE D!LoadEvalManifest
  BY <1>1, SameDatasets DEF D!LoadEvalManifest, D!Rejected
<1>2. CASE D!ValidateManifestRegistrations
  BY <1>2, SameDatasets DEF D!ValidateManifestRegistrations, D!Rejected
<1>3. CASE D!NoFiles
  BY <1>3, SameDatasets DEF D!NoFiles, D!Rejected
<1>4. ASSUME NEW i \in DOMAIN tree, D!ReadFails(i) PROVE DatasetsInv'
  BY <1>4, SameDatasets DEF D!ReadFails, D!Rejected
<1>5. ASSUME NEW i \in DOMAIN tree, D!ReadFile(i) PROVE DatasetsInv'
  <2>1. /\ reads' = [reads EXCEPT ![i] = <<tree[i].cases>>] /\ progress = "reading"
        /\ UNCHANGED <<manifest, recursive, tree, effective, dataset, progress>>
    BY <1>5, AllOfThem DEF D!ReadFile
  <2>2. D!Effective(manifest)' = D!Effective(manifest)
    BY <2>1 DEF D!Effective, D!EffectiveArm, D!ArmHost, D!Patched
  <2>3. /\ manifest' \in Manifests /\ tree' \in Trees /\ DOMAIN reads' = DOMAIN tree'
        /\ \A j \in DOMAIN tree' : reads'[j] # D!None => reads'[j][1] = tree'[j].cases
    BY <2>1 DEF DatasetsInv
  <2>4. progress' # "loaded" /\ (effective' # D!None => effective' = <<D!Effective(manifest)'>>)
    BY <2>1, <2>2 DEF DatasetsInv
  <2> QED
    BY <2>3, <2>4 DEF DatasetsInv
<1>6. CASE D!Joined
  <2> DEFINE all == D!Concatenated([i \in D!Collected |-> reads[i][1]])
  <2>1. /\ \A i \in D!Collected : reads[i] # D!None
        /\ dataset' \in {<<D!SelectEvalCases(all, D!None, D!None)>>, <<D!Selected(all)>>}
        /\ UNCHANGED <<manifest, recursive, tree, effective, reads>>
    BY <1>6 DEF D!Joined
  <2>2. [i \in D!Collected |-> reads[i][1]] = [i \in D!Collected |-> tree[i].cases]
    <3>1. \A i \in D!Collected : i \in DOMAIN tree
      BY DEF D!Collected
    <3>2. \A i \in D!Collected : reads[i][1] = tree[i].cases
      BY <2>1, <3>1 DEF DatasetsInv
    <3> QED
      BY <3>2
  <2>3. dataset' \in Loadings
    <3>1. all = AllCases
      BY <2>2 DEF AllCases
    <3> QED
      BY <2>1, <3>1, AllOfThem DEF Loadings
  <2>4. Loadings' = Loadings
    BY <2>1 DEF Loadings, AllCases, D!Selected, D!Concatenated, D!Collected
  <2>5. D!Effective(manifest)' = D!Effective(manifest)
    BY <2>1 DEF D!Effective, D!EffectiveArm, D!ArmHost, D!Patched
  <2>6. /\ manifest' \in Manifests /\ tree' \in Trees /\ DOMAIN reads' = DOMAIN tree'
        /\ \A j \in DOMAIN tree' : reads'[j] # D!None => reads'[j][1] = tree'[j].cases
    BY <2>1 DEF DatasetsInv
  <2>7. effective' # D!None => effective' = <<D!Effective(manifest)'>>
    BY <2>1, <2>5 DEF DatasetsInv
  <2> QED
    BY <2>3, <2>4, <2>6, <2>7 DEF DatasetsInv
<1> QED
  BY <1>1, <1>2, <1>3, <1>4, <1>5, <1>6 DEF D!Next

LEMMA StillDatasets == UNCHANGED datasetsVars /\ DatasetsInv => DatasetsInv'
BY SameDatasets DEF datasetsVars

\* What the filter leaves.
LEMMA Filtered ==
  ASSUME NEW A, NEW list \in Seq(A), NEW tags, tags \notin {D!None, <<{}>>}
  PROVE  LET left == D!SelectEvalCases(list, tags, D!None)
         IN /\ left \in Seq(A)
            /\ \A i \in 1..Len(left) : left[i].tags \cap tags[1] # {}
            /\ (\A i \in 1..Len(list) : list[i].tags \cap tags[1] # {}) => left = list
<1> DEFINE n == Len(list)
           Fails(i) == list[i].tags \cap tags[1] = {}
           Equation(f) == f = [i \in 0..n |-> IF i = 0 THEN <<>>
                                       ELSE IF Fails(i) THEN f[i - 1] ELSE Append(f[i - 1], list[i])]
<1>1. n \in Nat /\ \A i \in 1..n : list[i] \in A
  BY LenProperties
<1> HIDE DEF n
<1>2. \E f : Equation(f)
  <2>1. PICK step : step = [i \in 1..n |-> [s \in Seq(A) |-> IF Fails(i) THEN s ELSE Append(s, list[i])]]
    OBVIOUS
  <2>2. step \in [1..n -> [Seq(A) -> Seq(A)]]
    <3>1. \A i \in 1..n : \A s \in Seq(A) : Append(s, list[i]) \in Seq(A)
      BY <1>1, AppendProperties
    <3> QED
      BY <2>1, <3>1
  <2>3. <<>> \in Seq(A)
    OBVIOUS
  <2>4. PICK f : Walk(n, Seq(A), <<>>, step, f)
    BY <1>1, <2>2, <2>3, Recursion
  <2>5. f \in [0..n -> Seq(A)] /\ f[0] = <<>> /\ \A i \in 1..n : f[i] = step[i][f[i - 1]]
    BY <2>4 DEF Walk
  <2>6. ASSUME NEW i \in 0..n
        PROVE  f[i] = IF i = 0 THEN <<>> ELSE IF Fails(i) THEN f[i - 1] ELSE Append(f[i - 1], list[i])
    <3>1. CASE i = 0
      BY <2>5, <3>1
    <3>2. CASE i # 0
      <4>1. i \in 1..n /\ i - 1 \in 0..n
        BY <1>1, <3>2
      <4>2. f[i - 1] \in Seq(A) /\ f[i] = step[i][f[i - 1]]
        BY <2>5, <4>1
      <4>3. step[i][f[i - 1]] = IF Fails(i) THEN f[i - 1] ELSE Append(f[i - 1], list[i])
        BY <2>1, <4>1, <4>2
      <4> QED
        BY <3>2, <4>2, <4>3
    <3> QED
      BY <3>1, <3>2
  <2>7. Equation(f)
    BY <2>5, <2>6
  <2> QED
    BY <2>7
<1>3. PICK f : Equation(f) /\ D!SelectEvalCases(list, tags, D!None) = f[n]
  BY <1>2 DEF D!SelectEvalCases, n
<1> DEFINE Good(k) == /\ f[k] \in Seq(A)
                      /\ \A i \in 1..Len(f[k]) : f[k][i].tags \cap tags[1] # {}
                      /\ (\A i \in 1..k : ~Fails(i)) => Len(f[k]) = k /\ \A i \in 1..k : f[k][i] = list[i]
           T == {k \in Nat : k <= n => Good(k)}
<1>4. 0 \in T
  <2>1. f[0] = <<>>
    BY <1>1, <1>3
  <2>2. f[0] \in Seq(A) /\ Len(f[0]) = 0
    BY <2>1
  <2>3. Good(0)
    BY <2>2
  <2> HIDE DEF Good
  <2> QED
    BY <2>3
<1>5. ASSUME NEW k \in T PROVE k + 1 \in T
  <2> SUFFICES ASSUME k + 1 <= n PROVE Good(k + 1)
    BY k + 1 \in Nat
  <2>1. k + 1 \in 1..n /\ k + 1 \in 0..n /\ (k + 1) - 1 = k /\ k + 1 # 0 /\ k \in Nat /\ k <= n
    BY <1>1
  <2>2. f[k + 1] = IF Fails(k + 1) THEN f[k] ELSE Append(f[k], list[k + 1])
    BY <1>3, <2>1
  <2>3. Good(k)
    BY <2>1
  <2>4. CASE Fails(k + 1)
    <3>1. ~(\A i \in 1..(k + 1) : ~Fails(i))
      BY <2>1, <2>4
    <3>2. f[k + 1] = f[k]
      BY <2>2, <2>4
    <3> HIDE DEF Fails
    <3> QED
      BY <2>3, <3>1, <3>2
  <2>5. CASE ~Fails(k + 1)
    <3>1. f[k + 1] = Append(f[k], list[k + 1]) /\ list[k + 1] \in A /\ f[k] \in Seq(A)
      BY <1>1, <2>1, <2>2, <2>3, <2>5
    <3>2. /\ f[k + 1] \in Seq(A) /\ Len(f[k + 1]) = Len(f[k]) + 1 /\ Len(f[k]) \in Nat
          /\ \A i \in 1..Len(f[k]) : f[k + 1][i] = f[k][i]
          /\ f[k + 1][Len(f[k]) + 1] = list[k + 1]
      BY <3>1, AppendProperties, LenProperties
    <3>3. \A i \in 1..Len(f[k + 1]) : i \in 1..Len(f[k]) \/ i = Len(f[k]) + 1
      BY <3>2
    <3>4. \A i \in 1..Len(f[k + 1]) : f[k + 1][i].tags \cap tags[1] # {}
      BY <2>3, <2>5, <3>2, <3>3
    <3>5. ASSUME \A i \in 1..(k + 1) : ~Fails(i)
          PROVE  Len(f[k + 1]) = k + 1 /\ \A i \in 1..(k + 1) : f[k + 1][i] = list[i]
      <4>1. Len(f[k]) = k /\ \A i \in 1..k : f[k][i] = list[i]
        BY <2>1, <2>3, <3>5
      <4>2. \A i \in 1..(k + 1) : i \in 1..k \/ i = k + 1
        BY <2>1
      <4> QED
        BY <3>2, <4>1, <4>2
    <3> QED
      BY <3>2, <3>4, <3>5
  <2> QED
    BY <2>4, <2>5
<1>6. T = Nat
  <2> HIDE DEF T
  <2>1. T \subseteq Nat
    BY DEF T
  <2> QED
    BY <1>4, <1>5, <2>1, Up
<1>7. Good(n)
  BY <1>1, <1>6
<1>8. ASSUME \A i \in 1..n : ~Fails(i) PROVE f[n] = list
  <2>1. f[n] \in Seq(A) /\ Len(f[n]) = n /\ \A i \in 1..n : f[n][i] = list[i]
    BY <1>7, <1>8
  <2> QED
    BY <2>1, SeqEqual DEF n
<1> HIDE DEF Equation
<1> QED
  BY <1>3, <1>7, <1>8 DEF n

\* What was selected is selected again.
LEMMA SelectedAgain ==
  ASSUME NEW A, NEW list \in Seq(A), NEW tags, NEW max, max # D!None => max[1] \in Nat
  PROVE  LET left == D!SelectEvalCases(list, tags, max) IN D!SelectEvalCases(left, tags, max) = left
<1> DEFINE tagged == D!SelectEvalCases(list, tags, D!None)
           left == D!SelectEvalCases(list, tags, max)
           All(s) == tags \in {D!None, <<{}>>} \/ \A i \in 1..Len(s) : s[i].tags \cap tags[1] # {}
           Cut(s) == IF max = D!None \/ Len(s) <= max[1] THEN s ELSE SubSeq(s, 1, max[1])
<1>1. ASSUME NEW s PROVE D!SelectEvalCases(s, tags, max) = Cut(D!SelectEvalCases(s, tags, D!None))
  BY DEF D!SelectEvalCases
<1>2. tagged \in Seq(A) /\ All(tagged)
  <2>1. CASE tags \in {D!None, <<{}>>}
    BY <2>1 DEF D!SelectEvalCases
  <2>2. CASE tags \notin {D!None, <<{}>>}
    BY <2>2, Filtered
  <2> QED
    BY <2>1, <2>2
<1>3. ASSUME NEW s \in Seq(A), All(s) PROVE D!SelectEvalCases(s, tags, D!None) = s
  <2>1. CASE tags \in {D!None, <<{}>>}
    BY <2>1 DEF D!SelectEvalCases
  <2>2. CASE tags \notin {D!None, <<{}>>}
    BY <1>3, <2>2, Filtered
  <2> QED
    BY <2>1, <2>2
<1>4. left = Cut(tagged)
  BY <1>1
<1> HIDE DEF tagged, left
<1>5. left \in Seq(A) /\ All(left) /\ (max # D!None => Len(left) <= max[1])
  <2>1. CASE max = D!None \/ Len(tagged) <= max[1]
    BY <1>2, <1>4, <2>1
  <2>2. CASE ~(max = D!None \/ Len(tagged) <= max[1])
    <3>1. left = SubSeq(tagged, 1, max[1]) /\ max[1] \in Nat /\ max[1] <= Len(tagged) /\ Len(tagged) \in Nat
      BY <1>2, <1>4, <2>2, LenProperties
    <3>2. left \in Seq(A) /\ Len(left) = max[1] /\ \A i \in 1..max[1] : left[i] = tagged[i]
      BY <1>2, <3>1, SubSeqProperties
    <3>3. All(left)
      BY <1>2, <3>1, <3>2
    <3> QED
      BY <3>1, <3>2, <3>3
  <2> QED
    BY <2>1, <2>2
<1>6. Cut(left) = left
  BY <1>5
<1>7. D!SelectEvalCases(left, tags, D!None) = left
  BY <1>3, <1>5
<1>8. D!SelectEvalCases(left, tags, max) = left
  BY <1>1, <1>6, <1>7
<1> QED
  BY <1>8 DEF left

\* The sequences one after the other are a sequence.
LEMMA Flat ==
  ASSUME NEW A, NEW seqs \in Seq(Seq(A))
  PROVE  D!FlattenSeq(seqs) \in Seq(A)
<1> DEFINE n == Len(seqs)
           Equation(f) == f = [i \in 1..n |-> IF i = 1 THEN seqs[i] ELSE f[i - 1] \o seqs[i]]
<1>1. n \in Nat /\ \A i \in 1..n : seqs[i] \in Seq(A)
  BY LenProperties
<1>2. CASE n = 0
  <2>1. seqs = <<>>
    BY <1>2, EmptySeq
  <2> QED
    BY <1>2, <2>1 DEF D!FlattenSeq
<1>3. CASE n # 0
  <2> HIDE DEF n
  <2>1. \E f : Equation(f)
    <3>1. PICK step : step = [i \in 1..n |-> [s \in Seq(A) |-> s \o seqs[i]]]
      OBVIOUS
    <3>2. step \in [1..n -> [Seq(A) -> Seq(A)]]
      <4>1. \A i \in 1..n : \A s \in Seq(A) : s \o seqs[i] \in Seq(A)
        BY <1>1, ConcatProperties
      <4> QED
        BY <3>1, <4>1
    <3>3. <<>> \in Seq(A)
      OBVIOUS
    <3>4. PICK f : Walk(n, Seq(A), <<>>, step, f)
      BY <1>1, <3>2, <3>3, Recursion
    <3>5. f \in [0..n -> Seq(A)] /\ f[0] = <<>> /\ \A i \in 1..n : f[i] = step[i][f[i - 1]]
      BY <3>4 DEF Walk
    <3>6. ASSUME NEW i \in 1..n PROVE i - 1 \in 0..n /\ f[i] = f[i - 1] \o seqs[i]
      <4>1. i - 1 \in 0..n
        BY <1>1
      <4>2. f[i - 1] \in Seq(A)
        BY <3>5, <4>1
      <4> QED
        BY <3>1, <3>5, <4>1, <4>2
    <3>7. PICK g : g = [i \in 1..n |-> f[i]]
      OBVIOUS
    <3>8. ASSUME NEW i \in 1..n PROVE g[i] = IF i = 1 THEN seqs[i] ELSE g[i - 1] \o seqs[i]
      <4>1. CASE i = 1
        <5>1. f[1] = <<>> \o seqs[1] /\ seqs[1] \in Seq(A)
          <6>1. i - 1 = 0
            BY <4>1
          <6>2. f[i] = f[i - 1] \o seqs[i]
            BY <3>6
          <6>3. seqs[i] \in Seq(A)
            BY <1>1
          <6> QED
            BY <3>5, <4>1, <6>1, <6>2, <6>3
        <5> QED
          BY <3>7, <4>1, <5>1
      <4>2. CASE i # 1
        <5>1. i - 1 \in 1..n
          BY <1>1, <4>2
        <5> QED
          BY <3>6, <3>7, <4>2, <5>1
      <4> QED
        BY <4>1, <4>2
    <3>9. Equation(g)
      BY <3>7, <3>8
    <3> QED
      BY <3>9
  <2>2. PICK f : Equation(f) /\ D!FlattenSeq(seqs) = f[n]
    BY <1>3, <2>1 DEF D!FlattenSeq, n
  <2> DEFINE T == {k \in Nat : k \in 1..n => f[k] \in Seq(A)}
  <2>3. 0 \in T
    OBVIOUS
  <2>4. ASSUME NEW k \in T PROVE k + 1 \in T
    <3> SUFFICES ASSUME k + 1 \in 1..n PROVE f[k + 1] \in Seq(A)
      BY k + 1 \in Nat
    <3>1. k \in Nat /\ (k + 1) - 1 = k /\ seqs[k + 1] \in Seq(A)
      BY <1>1
    <3>2. CASE k = 0
      BY <2>2, <3>1, <3>2
    <3>3. CASE k # 0
      <4>1. k \in 1..n
        BY <1>1, <3>1, <3>3
      <4>2. f[k + 1] = f[k] \o seqs[k + 1] /\ f[k] \in Seq(A)
        <5>1. k + 1 # 1
          BY <3>1, <3>3
        <5>2. f[k + 1] = f[(k + 1) - 1] \o seqs[k + 1]
          BY <2>2, <5>1
        <5>3. f[k] \in Seq(A)
          BY <4>1
        <5> QED
          BY <3>1, <5>2, <5>3
      <4> QED
        BY <3>1, <4>2, ConcatProperties
    <3> QED
      BY <3>2, <3>3
  <2>5. T = Nat
    <3> HIDE DEF T
    <3>1. T \subseteq Nat
      BY DEF T
    <3> QED
      BY <2>3, <2>4, <3>1, Up
  <2>6. n \in 1..n
    BY <1>1, <1>3
  <2> QED
    BY <1>1, <2>2, <2>5, <2>6
<1> QED
  BY <1>2, <1>3

\* What the directory has is a sequence of cases.
LEMMA TreeIsSeq ==
  ASSUME DatasetsInv
  PROVE  \E A : D!Concatenated([i \in D!Collected |-> tree[i].cases]) \in Seq(A)
<1> DEFINE A == UNION {{tree[i].cases[j] : j \in DOMAIN tree[i].cases} : i \in DOMAIN tree}
           seqs == [i \in DOMAIN tree |-> IF i \in D!Collected THEN [k \in D!Collected |-> tree[k].cases][i] ELSE <<>>]
<1>1. IsSeq(tree) /\ \A i \in DOMAIN tree : IsSeq(tree[i].cases)
  BY DatasetsAssumption DEF DatasetsInv
<1>2. DOMAIN tree = 1..Len(tree) /\ Len(tree) \in Nat
  BY <1>1, LenProperties DEF IsSeq
<1>3. ASSUME NEW i \in DOMAIN tree PROVE tree[i].cases \in Seq(A)
  <2>1. tree[i].cases \in Seq({tree[i].cases[j] : j \in DOMAIN tree[i].cases})
    BY <1>1 DEF IsSeq
  <2>2. {tree[i].cases[j] : j \in DOMAIN tree[i].cases} \subseteq A
    OBVIOUS
  <2> HIDE DEF A
  <2> QED
    BY <2>1, <2>2
<1>4. D!Concatenated([i \in D!Collected |-> tree[i].cases]) = D!FlattenSeq(seqs)
  BY DEF D!Concatenated
<1> HIDE DEF A
<1>5. \A i \in DOMAIN tree : seqs[i] \in Seq(A)
  BY <1>3
<1>6. seqs \in [1..Len(tree) -> Seq(A)]
  BY <1>2, <1>5
<1> HIDE DEF seqs
<1>7. seqs \in Seq(Seq(A))
  BY <1>2, <1>6, SeqDef
<1> QED
  BY <1>4, <1>7, Flat

\* A config as it is written.
Raw(config) == {"type", "label", "parsed", "asserted"} \subseteq DOMAIN config /\ config.parsed = 0
Written(configs) == configs # D!None => IsSeq(configs[1]) /\ \A i \in DOMAIN configs[1] : Raw(configs[1][i])

LEMMA ManifestsWritten ==
  ASSUME NEW m \in Manifests
  PROVE  /\ (m.host # D!None => Raw(m.host[1])) /\ (m.store # D!None => Raw(m.store[1]))
         /\ Written(<<m.datasets>>) /\ Written(m.metrics) /\ Written(m.judges) /\ IsSeq(m.arms)
         /\ \A i \in DOMAIN m.arms : Written(m.arms[i].metrics) /\ Written(m.arms[i].judges)
BY DatasetsAssumption DEF Raw, Written, D!None

\* A schema is applied once to what is written; a judge keeps what it asserts, its type and name.
LEMMA ParsedConfig ==
  ASSUME NEW config, Raw(config)
  PROVE  /\ D!ParseConfig(config).parsed = 1 /\ D!ParseJudge(config).parsed = 1
         /\ "asserted" \in DOMAIN D!ParseConfig(config)
         /\ D!ParseJudge(config).asserted = config.asserted
         /\ D!ParseJudge(config).type = config.type /\ D!ParseJudge(config).label = config.label
<1>1. {"type", "label", "parsed", "asserted"} \subseteq DOMAIN config /\ config.parsed = 0
  BY DEF Raw
<1> DEFINE parsed == D!ParseConfig(config)
<1>2. /\ parsed.parsed = 1 /\ DOMAIN parsed = DOMAIN config
      /\ parsed.type = config.type /\ parsed.label = config.label
  BY <1>1 DEF D!ParseConfig
<1> HIDE DEF parsed
<1>3. D!ParseJudge(config) = [parsed EXCEPT !.asserted = config.asserted]
  BY DEF D!ParseJudge, parsed
<1>4. /\ D!ParseJudge(config).parsed = 1 /\ D!ParseJudge(config).asserted = config.asserted
      /\ D!ParseJudge(config).type = config.type /\ D!ParseJudge(config).label = config.label
  BY <1>1, <1>2, <1>3
<1> QED
  BY <1>1, <1>2, <1>4 DEF parsed

\* So are the options of a manifest and its lists.
LEMMA ParsedOnce ==
  /\ \A config : (config # D!None => Raw(config[1])) => D!OneOnce(D!ParseOne(config))
  /\ \A configs : Written(configs) => D!Once(D!ParseAll(configs)) /\ D!Once(D!ParseJudges(configs))
<1>1. ASSUME NEW config, config # D!None => Raw(config[1])
      PROVE  D!OneOnce(D!ParseOne(config))
  <2>1. CASE config = D!None
    BY <2>1 DEF D!ParseOne, D!OneOnce
  <2>2. CASE config # D!None
    <3>1. D!ParseOne(config)[1].parsed = 1
      BY <1>1, <2>2, ParsedConfig DEF D!ParseOne
    <3> QED
      BY <3>1 DEF D!OneOnce
  <2> QED
    BY <2>1, <2>2
<1>2. ASSUME NEW configs, Written(configs)
      PROVE  D!Once(D!ParseAll(configs)) /\ D!Once(D!ParseJudges(configs))
  <2>1. CASE configs = D!None
    BY <2>1 DEF D!ParseAll, D!ParseJudges, D!Once
  <2>2. CASE configs # D!None
    <3>1. /\ D!ParseAll(configs)[1] = [i \in DOMAIN configs[1] |-> D!ParseConfig(configs[1][i])]
          /\ D!ParseJudges(configs)[1] = [i \in DOMAIN configs[1] |-> D!ParseJudge(configs[1][i])]
      BY <2>2 DEF D!ParseAll, D!ParseJudges
    <3>2. \A i \in DOMAIN configs[1] :
            D!ParseConfig(configs[1][i]).parsed = 1 /\ D!ParseJudge(configs[1][i]).parsed = 1
      BY <1>2, <2>2, ParsedConfig DEF Written
    <3> QED
      BY <3>1, <3>2 DEF D!Once
  <2> QED
    BY <2>1, <2>2
<1> QED
  BY <1>1, <1>2

\* A patch is written, and so is what it patches.
LEMMA PatchedRaw ==
  ASSUME NEW host, host # D!None => Raw(host[1]), NEW patch
  PROVE  D!Patched(host, patch) # D!None => Raw(D!Patched(host, patch)[1])
<1>1. CASE patch = D!None
  BY <1>1 DEF D!Patched
<1>2. CASE patch # D!None
  <2>1. PICK t, l, p, f : /\ D!Patched(host, patch)
                               = <<[type |-> t, label |-> l, parsed |-> p, fits |-> f, asserted |-> D!None]>>
                          /\ p = IF host # D!None THEN host[1].parsed ELSE 0
    BY <1>2 DEF D!Patched
  <2>2. p = 0
    BY <2>1 DEF Raw
  <2>3. Raw([type |-> t, label |-> l, parsed |-> p, fits |-> f, asserted |-> D!None])
    BY <2>2 DEF Raw
  <2> QED
    BY <2>1, <2>3
<1> QED
  BY <1>1, <1>2

\* The policy of a judge comes from one that was written.
LEMMA PolicyOnce ==
  ASSUME NEW raws, IsSeq(raws), \A k \in DOMAIN raws : Raw(raws[k]), NEW i \in DOMAIN raws
  PROVE  LET policy == D!Policy(D!ParseJudge(raws[i]), raws)
         IN policy.parsed = 1 /\ policy.asserted = raws[i].asserted
<1> DEFINE judge == D!ParseJudge(raws[i])
           same == {k \in DOMAIN raws : raws[k].type = judge.type /\ raws[k].label = judge.label}
           first == CHOOSE k \in same : \A n \in same : k <= n
<1>1. i \in same /\ judge.asserted = raws[i].asserted
  BY ParsedConfig
<1>2. same \subseteq Nat /\ same # {}
  <2>1. DOMAIN raws = 1..Len(raws)
    BY LenProperties DEF IsSeq
  <2>2. DOMAIN raws \subseteq Nat
    BY <2>1
  <2> QED
    BY <1>1, <2>2
<1> HIDE DEF same
<1>3. \E k \in same : \A n \in same : k <= n
  BY <1>2, Least
<1>4. first \in same
  BY <1>3
<1>5. D!RawOf(judge, raws) = raws[first] /\ first \in DOMAIN raws
  BY <1>1, <1>4 DEF D!RawOf, same
<1> HIDE DEF first, judge
<1> DEFINE parsed == D!ParseConfig(raws[first])
<1>6. parsed.parsed = 1 /\ "asserted" \in DOMAIN parsed
  BY <1>5, ParsedConfig
<1>7. D!Policy(judge, raws) = [parsed EXCEPT !.asserted = judge.asserted]
  BY <1>5 DEF D!Policy
<1> HIDE DEF parsed
<1>8. D!Policy(judge, raws).parsed = 1 /\ D!Policy(judge, raws).asserted = raws[i].asserted
  BY <1>1, <1>6, <1>7
<1> QED
  BY <1>8 DEF judge

\* The judges of an arm, its own or those of the manifest.
LEMMA ArmJudges ==
  ASSUME NEW m \in Manifests, NEW arm, Written(arm.judges)
  PROVE  D!JudgedOnce(m, arm)
<1> DEFINE written == IF arm.judges # D!None THEN arm.judges ELSE m.judges
<1>1. Written(written) /\ D!EffectiveArm(m, arm).judges = D!ParseJudges(written)
  BY ManifestsWritten DEF D!EffectiveArm
<1>2. written # D!None => D!RawJudges(m, arm) = written[1]
  BY DEF D!RawJudges
<1> HIDE DEF written
<1>3. ASSUME D!ParseJudges(written) # D!None
      PROVE  /\ written # D!None
             /\ D!ParseJudges(written)[1] = [i \in DOMAIN written[1] |-> D!ParseJudge(written[1][i])]
  BY <1>3 DEF D!ParseJudges
<1>4. ASSUME D!ParseJudges(written) # D!None, NEW i \in DOMAIN written[1]
      PROVE  LET judge == D!ParseJudge(written[1][i])
             IN /\ judge.parsed = 1 /\ judge.asserted = written[1][i].asserted
                /\ D!Policy(judge, written[1]).parsed = 1
                /\ D!Policy(judge, written[1]).asserted = written[1][i].asserted
  BY <1>1, <1>3, <1>4, ParsedConfig, PolicyOnce DEF Written
<1> QED
  BY <1>1, <1>2, <1>3, <1>4 DEF D!JudgedOnce

\* A manifest as it is written goes through its schemas once.
LEMMA ManifestParsedOnce ==
  ASSUME NEW m \in Manifests
  PROVE  LET e == D!Effective(m)
         IN /\ D!Once(e.datasets) /\ D!OneOnce(e.host) /\ D!Once(e.metrics) /\ D!Once(e.judges)
            /\ D!OneOnce(e.store)
            /\ \A i \in DOMAIN e.arms :
                 D!OneOnce(e.arms[i].host) /\ D!Once(e.arms[i].metrics) /\ D!Once(e.arms[i].judges)
            /\ \A arm \in {D!DefaultArm} \cup D!ToSet(m.arms) :
                 /\ D!JudgedOnce(m, arm)
                 /\ \A type \in Types :
                      D!OneOnce(D!CaseHost(m, arm, [type |-> <<type>>, label |-> D!None, fits |-> TRUE]))
<1> DEFINE e == D!Effective(m)
<1>1. /\ D!Once(e.datasets) /\ D!OneOnce(e.host) /\ D!Once(e.metrics) /\ D!Once(e.judges)
      /\ D!OneOnce(e.store)
  BY ManifestsWritten, ParsedOnce DEF D!Effective
<1>2. ASSUME NEW i \in DOMAIN m.arms
      PROVE  LET arm == D!EffectiveArm(m, m.arms[i])
             IN D!OneOnce(arm.host) /\ D!Once(arm.metrics) /\ D!Once(arm.judges)
  <2>1. /\ Written(IF m.arms[i].metrics # D!None THEN m.arms[i].metrics ELSE m.metrics)
        /\ Written(IF m.arms[i].judges # D!None THEN m.arms[i].judges ELSE m.judges)
    BY ManifestsWritten
  <2>2. D!OneOnce(D!ArmHost(m, m.arms[i]))
    BY ManifestsWritten, PatchedRaw, ParsedOnce DEF D!ArmHost
  <2> QED
    BY <2>1, <2>2, ParsedOnce DEF D!EffectiveArm
<1>3. ASSUME NEW arm \in {D!DefaultArm} \cup D!ToSet(m.arms) PROVE D!JudgedOnce(m, arm)
  <2>1. Written(arm.judges)
    <3>1. CASE arm = D!DefaultArm
      BY <3>1 DEF D!DefaultArm, Written
    <3>2. CASE arm \in D!ToSet(m.arms)
      BY <3>2, ManifestsWritten DEF D!ToSet
    <3> QED
      BY <3>1, <3>2
  <2> QED
    BY <2>1, ArmJudges
<1>4. ASSUME NEW arm, NEW host PROVE D!OneOnce(D!CaseHost(m, arm, host))
  <2> DEFINE under == D!Patched(m.host, arm.host)
  <2>1. under # D!None => Raw(under[1])
    BY ManifestsWritten, PatchedRaw
  <2> HIDE DEF under
  <2>2. D!Patched(under, <<host>>) # D!None => Raw(D!Patched(under, <<host>>)[1])
    BY <2>1, PatchedRaw
  <2> QED
    BY <2>2, ParsedOnce DEF D!CaseHost, under
<1>5. DOMAIN e.arms = DOMAIN m.arms /\ \A i \in DOMAIN m.arms : e.arms[i] = D!EffectiveArm(m, m.arms[i])
  BY DEF D!Effective
<1> HIDE DEF e
<1>6. \A i \in DOMAIN e.arms : D!OneOnce(e.arms[i].host) /\ D!Once(e.arms[i].metrics) /\ D!Once(e.arms[i].judges)
  BY <1>2, <1>5
<1> QED
  BY <1>1, <1>3, <1>4, <1>6 DEF e

LEMMA ManifestAppliesOnce == DatasetsInv => D!AppliedOnce
<1> SUFFICES ASSUME DatasetsInv PROVE D!AppliedOnce
  OBVIOUS
<1> DEFINE list == AllCases
           tags == D!Control(manifest, "filterTags")
           max == D!Control(manifest, "maxCases")
<1>1. ASSUME progress = "loaded" PROVE D!Selected(dataset[1]) = D!Selected(list)
  <2>1. dataset[1] = list \/ dataset[1] = D!Selected(list)
    BY <1>1 DEF DatasetsInv, Loadings
  <2>2. PICK A : list \in Seq(A)
    BY TreeIsSeq DEF AllCases
  <2>3. max # D!None => max[1] \in Nat
    BY DatasetsAssumption DEF DatasetsInv, D!Control, D!None
  <2>4. \A s : D!Selected(s) = D!SelectEvalCases(s, tags, max)
    BY DEF D!Selected
  <2> HIDE DEF list, tags, max
  <2>5. LET left == D!SelectEvalCases(list, tags, max) IN D!SelectEvalCases(left, tags, max) = left
    BY <2>2, <2>3, SelectedAgain
  <2> QED
    BY <2>1, <2>4, <2>5
<1>2. effective # D!None => effective[1] = D!Effective(manifest) /\ manifest \in Manifests
  BY DEF DatasetsInv
<1> HIDE DEF list
<1> QED
  BY <1>1, <1>2, ManifestParsedOnce DEF D!AppliedOnce, list, AllCases

-------------------------------------------------------------------------------
(* The run: a part that has not begun stays so. *)

EvaluationsInv ==
  /\ CaseInv
  /\ part = "plugins" => PluginsInv
  /\ part = "store" => StoreInv
  /\ part = "judging" => JudgingInv /\ TraceInv
  /\ part = "comparison" => ComparisonInv
  /\ part = "experiment" => ExperimentInv
  /\ part = "metrics" => MetricsInv
  /\ part = "datasets" => DatasetsInv

\* A part that nothing changes stays so.
LEMMA StillPlugins == UNCHANGED pluginsVars /\ PluginsInv => PluginsInv'
<1> SUFFICES ASSUME UNCHANGED pluginsVars, PluginsInv PROVE PluginsInv'
  OBVIOUS
<1>1. /\ registry' = registry /\ modules' = modules /\ pluginLoads' = pluginLoads
      /\ loads' = loads /\ callers' = callers
  BY DEF pluginsVars
<1>2. PluginsTypeOK' /\ Points' /\ Known' /\ Awaits' /\ QueuedAtStart'
  BY <1>1 DEF PluginsInv, PluginsTypeOK, Points, Known, Awaits, QueuedAtStart
<1>3. Remains' /\ Told'
  BY <1>1 DEF PluginsInv, Remains, Told, L!Done
<1>4. HookRegistered'
  BY <1>1 DEF PluginsInv, HookRegistered, OwnedBy
<1> QED
  BY <1>2, <1>3, <1>4 DEF PluginsInv

\* Nor does a store change that nobody touches.
LEMMA StillStore == UNCHANGED storeVars /\ StoreInv => StoreInv'
<1> SUFFICES ASSUME UNCHANGED storeVars, StoreInv PROVE StoreInv'
  OBVIOUS
<1>1. provider' = provider /\ stored' = stored /\ saves' = saves /\ overlaps' = overlaps /\ reader' = reader
  BY DEF storeVars
<1>2. StoreTypeOK' /\ InPlace' /\ Left' /\ BeforeSaved'
  BY <1>1 DEF StoreInv, StoreTypeOK, InPlace, Left, BeforeSaved
<1>3. Torn'
  BY <1>1 DEF StoreInv, Torn, Tears, S!Target, S!Files
<1>4. Reading'
  BY <1>1 DEF StoreInv, Reading, Finds, S!Twins
<1>5. Returned'
  BY <1>1 DEF StoreInv, Returned, S!Twins
<1>6. Refused'
  BY <1>1 DEF StoreInv, Refused, S!Files
<1> QED
  BY <1>2, <1>3, <1>4, <1>5, <1>6 DEF StoreInv

\* Nor a judgement.
LEMMA StillJudging == UNCHANGED judging /\ JudgingInv => JudgingInv'
<1> SUFFICES ASSUME UNCHANGED judging, JudgingInv PROVE JudgingInv'
  OBVIOUS
<1>1. block' = block /\ pc' = pc /\ results' = results /\ judges' = judges
  BY DEF judging
<1>2. JudgesTypeOK'
  BY <1>1 DEF JudgingInv, JudgesTypeOK, Judges
<1>3. AllGiven' /\ Joined'
  BY <1>1 DEF JudgingInv, AllGiven, Joined, Judges
<1> QED
  BY <1>2, <1>3 DEF JudgingInv

LEMMA StillTrace == UNCHANGED judging /\ TraceInv => TraceInv'
BY VerdictStays DEF judging

\* Nor a case.
LEMMA StillCase == UNCHANGED vars /\ CaseInv => CaseInv'
<1> SUFFICES ASSUME UNCHANGED vars, CaseInv PROVE CaseInv'
  OBVIOUS
<1>1. /\ iterations' = iterations /\ phase' = phase /\ answers' = answers
      /\ iterationResults' = iterationResults /\ caseResult' = caseResult
  BY DEF vars
<1>2. CaseTypeOK' /\ Kept'
  BY <1>1 DEF CaseInv, CaseTypeOK, Kept
<1>3. Decided'
  BY <1>1 DEF CaseInv, Decided, Passed, Passes, Judged
<1> QED
  BY <1>2, <1>3 DEF CaseInv

\* EvaluationsInv holds in every state.
THEOREM EvaluationsCorrect == MCSpec => []EvaluationsInv
<1>1. MCInit => EvaluationsInv
  BY CaseStart, PluginsStart, StoreStart, JudgingStart, TraceStart, ComparisonStart,
     ExperimentStart, MetricsStart, DatasetsStart DEF MCInit, EvaluationsInv
<1>2. EvaluationsInv /\ [MCNext]_allVars => EvaluationsInv'
  <2> SUFFICES ASSUME EvaluationsInv, [MCNext]_allVars PROVE EvaluationsInv'
    OBVIOUS
  <2>1. part' = part /\ (UNCHANGED vars \/ Next)
    BY DEF MCNext, allVars
  <2>2. CaseInv'
    BY <2>1, CaseStep, StillCase DEF EvaluationsInv
  <2>3. ASSUME part = "plugins" PROVE PluginsInv'
    <3>1. L!Next \/ UNCHANGED pluginsVars
      BY <2>3 DEF MCNext, allVars, others
    <3> QED
      BY <2>3, <3>1, PluginsStep, StillPlugins DEF EvaluationsInv
  <2>4. ASSUME part = "store" PROVE StoreInv'
    <3>1. S!Next \/ UNCHANGED storeVars
      BY <2>4 DEF MCNext, allVars, others
    <3> QED
      BY <2>4, <3>1, StoreStep, StillStore DEF EvaluationsInv
  <2>5. ASSUME part = "judging" PROVE JudgingInv' /\ TraceInv'
    <3>1. E!Next \/ UNCHANGED judging
      BY <2>5 DEF MCNext, allVars
    <3> QED
      BY <2>5, <3>1, JudgingStep, StillJudging, TraceStep, StillTrace DEF EvaluationsInv
  <2>6. ASSUME part = "comparison" PROVE ComparisonInv'
    <3>1. C!Next \/ UNCHANGED comparisonVars
      BY <2>6 DEF MCNext, allVars, others
    <3> QED
      BY <2>6, <3>1, ComparisonStep, StillComparison DEF EvaluationsInv
  <2>7. ASSUME part = "experiment" PROVE ExperimentInv'
    <3>1. V!Next \/ UNCHANGED experimentVars
      BY <2>7 DEF MCNext, allVars, others
    <3> QED
      BY <2>7, <3>1, ExperimentStep, StillExperiment DEF EvaluationsInv
  <2>8. ASSUME part = "metrics" PROVE MetricsInv'
    <3>1. M!Next \/ UNCHANGED metricsVars
      BY <2>8 DEF MCNext, allVars, others
    <3> QED
      BY <2>8, <3>1, MetricsStep, StillMetrics DEF EvaluationsInv
  <2>9. ASSUME part = "datasets" PROVE DatasetsInv'
    <3>1. D!Next \/ UNCHANGED datasetsVars
      BY <2>9 DEF MCNext, allVars, others
    <3> QED
      BY <2>9, <3>1, DatasetsStep, StillDatasets DEF EvaluationsInv
  <2> QED
    BY <2>1, <2>2, <2>3, <2>4, <2>5, <2>6, <2>7, <2>8, <2>9 DEF EvaluationsInv
<1> QED
  BY <1>1, <1>2, PTL DEF MCSpec

\* CaseRun: a case with an expectation on tool calls passes only on calls that the host can
\* prove, and iterations lost to the infrastructure decide nothing (runEvalCase), for any
\* number of iterations and any threshold.
THEOREM VerdictsAreEarned == MCSpec => []VerdictEarned
<1>1. EvaluationsInv => VerdictEarned
  BY CaseVerdict DEF EvaluationsInv
<1> QED
  BY <1>1, EvaluationsCorrect, PTL

\* Plugins: however the callers overlap, retry and fail, a plugin's hook never runs twice at
\* once nor again after it succeeded, and who was told finds everything registered
\* (loadPlugins), for all plans, hooks and numbers of loads.
THEOREM PluginsAreLoadedOnce == MCSpec => []PluginsLoadOnce
<1>1. EvaluationsInv => PluginsLoadOnce
  BY PluginsOnce DEF EvaluationsInv, PluginsLoadOnce
<1> QED
  BY <1>1, EvaluationsCorrect, PTL

\* ResultStore: a save that returned is found by every call that begins later and returns,
\* and a call is refused only for what was never saved, or around a save of a file that was
\* not through (resultStore.ts), for any number of saves.
THEOREM SavesAreFound == MCSpec => []StoredIsFound
<1>1. EvaluationsInv => StoredIsFound
  BY StoreFinds DEF EvaluationsInv, StoredIsFound
<1> QED
  BY <1>1, EvaluationsCorrect, PTL

\* Expectations: a case passes its judges only when each gave every repetition and reaches
\* its threshold (runExpectBlockValidations, validateJudge), whatever the blocks.
THEOREM CasesPassAllJudges == MCSpec => []JudgesUnanimous
<1>1. EvaluationsInv => JudgesUnanimous
  BY JudgesAgree DEF EvaluationsInv, JudgesUnanimous
<1> QED
  BY <1>1, EvaluationsCorrect, PTL

\* Expectations: the greedy search for tool calls in strict order passes no trace without the
\* required calls one after the other, and misses none when no call is optional
\* (validateToolCalls), for traces and expectations of any length.
THEOREM StrictOrderIsExact == MCSpec => []StrictOrderExact
<1>1. EvaluationsInv => StrictOrderExact
  BY OrderIsExact DEF EvaluationsInv, StrictOrderExact
<1> QED
  BY <1>1, EvaluationsCorrect, PTL

\* ServerComparison: of a dataset with unique ids the buckets of runServerComparison and those of
\* compareEvalRuns count the same, no case is left out, and wins explain the difference of the
\* passed cases, for datasets of any length.
THEOREM ComparisonsTell == MCSpec => []ComparisonsAgree
<1>1. EvaluationsInv => ComparisonsAgree
  BY ComparisonsTellTheSame DEF EvaluationsInv, ComparisonsAgree
<1> QED
  BY <1>1, EvaluationsCorrect, PTL

\* VariantExperiment: a variant is recommended only if it is better than the baseline, broke
\* nothing, and no eligible one that was tried is better (runVariantExperiment, buildProposal),
\* for any dataset, numbers of rounds and variants, and thresholds.
THEOREM TheBestIsApplied == MCSpec => []ApplyIsBest
<1>1. EvaluationsInv => ApplyIsBest
  BY BestIsApplied DEF EvaluationsInv, ApplyIsBest
<1> QED
  BY <1>1, EvaluationsCorrect, PTL

\* Metrics: every case result has a row under a key of its own and counts once, though ids
\* repeat or look like keys (computeMetrics), for all ids, metrics and numbers of cases.
THEOREM EveryCaseIsCounted == MCSpec => []EveryCaseCounts
<1>1. EvaluationsInv => EveryCaseCounts
  BY CasesCount DEF EvaluationsInv, EveryCaseCounts
<1> QED
  BY <1>1, EvaluationsCorrect, PTL

\* Datasets: the controls of a manifest select the same whatever the order in which the files
\* are read and however often they are applied, and each config is parsed once
\* (validateManifestRegistrations, loadDirectoryDataset), for all manifests and directories.
THEOREM ManifestsApplyOnce == MCSpec => []AppliedOnce
<1>1. EvaluationsInv => AppliedOnce
  BY ManifestAppliesOnce DEF EvaluationsInv, AppliedOnce
<1> QED
  BY <1>1, EvaluationsCorrect, PTL
================================================================================
