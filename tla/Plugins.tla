-------------------------------- MODULE Plugins --------------------------------
(***************************************************************************)
(* Plugins and the registries they fill: loadPlugins                       *)
(* (src/src/plugins/loadPlugins.ts), the registries of                     *)
(* src/src/evals/frameworkRegistries.ts, and the built-in dataset sources  *)
(* that register like a plugin.  All of it is one process-wide state; an   *)
(* action is the code between two awaits.                                  *)
(***************************************************************************)
EXTENDS Integers, Sequences, FiniteSets

CONSTANTS
  Plans,       \* caller |-> the plugin paths it loads, in order
  Hooks,       \* entry |-> the names its hook registers; <<>>: it exports no function
  Fresh,       \* the entries whose hook creates the objects it registers at every call
  MaxLoads     \* bound on the loads

Callers == DOMAIN Plans
Entries == DOMAIN Hooks
BuiltinSources == <<"file", "dir", "gcs">>
Registered == {BuiltinSources[i] : i \in DOMAIN BuiltinSources}
              \cup UNION {{Hooks[e][i] : i \in DOMAIN Hooks[e]} : e \in Entries}
None == <<>>

VARIABLES
  registry,     \* name |-> the object that is registered, as an option
  modules,      \* entry |-> "new", "loaded", "failed": what import() has cached
  pluginLoads,  \* entry |-> the index of its promise in loads, as an option
  loads,        \* the promises: [entry, state, next]
  callers,      \* caller |-> [at, load, rest]
  builtins      \* [registered, tries, threw]

vars == <<registry, modules, pluginLoads, loads, callers, builtins>>

Init ==
  /\ registry = [n \in Registered |-> None]
  /\ modules = [e \in Entries |-> "new"]
  /\ pluginLoads = [e \in Entries |-> None]
  /\ loads = <<>>
  /\ callers = [c \in Callers |-> [at |-> "next", load |-> 0, rest |-> Plans[c]]]
  /\ builtins = [registered |-> FALSE, tries |-> 0, threw |-> FALSE]

\* createRegistry: a name keeps its object; the same object may be registered again.
Conflicts(name, object) == registry[name] \notin {None, <<object>>}
Object(owner, run) == [owner |-> owner, run |-> IF owner \in Fresh THEN run ELSE 0]

-------------------------------------------------------------------------------
(* Callers. *)

\* resolvePluginEntry finds no file.
NotFound(c) ==
  /\ callers[c].at = "next" /\ callers[c].rest # <<>>
  /\ callers' = [callers EXCEPT ![c].at = "failed"]
  /\ UNCHANGED <<registry, modules, pluginLoads, loads, builtins>>

\* loadPluginModule up to its first await.
Load(c) ==
  /\ callers[c].at = "next" /\ callers[c].rest # <<>>
  /\ LET entry == Head(callers[c].rest)
     IN IF pluginLoads[entry] # None
          THEN /\ callers' = [callers EXCEPT ![c].at = "joined", ![c].load = pluginLoads[entry][1]]
               /\ UNCHANGED <<pluginLoads, loads>>
          ELSE /\ Len(loads) < MaxLoads
               /\ loads' = Append(loads, [entry |-> entry, state |-> "queued", next |-> 1])
               /\ pluginLoads' = [pluginLoads EXCEPT ![entry] = <<Len(loads) + 1>>]
               /\ callers' = [callers EXCEPT ![c].at = "created", ![c].load = Len(loads) + 1]
  /\ UNCHANGED <<registry, modules, builtins>>

Settled(i) == loads[i].state \in {"resolved", "rejected"}
Created(i) == \E c \in Callers : callers[c].at = "created" /\ callers[c].load = i

Continue(c) ==
  LET caller == callers[c]
  IN callers' = [callers EXCEPT ![c] =
       IF loads[caller.load].state = "resolved"
         THEN [at |-> "next", load |-> 0, rest |-> Tail(caller.rest)]
         ELSE [caller EXCEPT !.at = "failed"]]

\* Mutant: the load is forgotten whether it failed or not.
CreatorForgets(c) ==
  /\ callers[c].at = "created" /\ Settled(callers[c].load)
  /\ pluginLoads' = [pluginLoads EXCEPT ![loads[callers[c].load].entry] = None]
  /\ Continue(c)
  /\ UNCHANGED <<registry, modules, loads, builtins>>

\* The caller that created the promise: a load that failed is forgotten.
CreatorContinues(c) ==
  /\ callers[c].at = "created" /\ Settled(callers[c].load)
  /\ LET load == callers[c].load
         entry == loads[load].entry
     IN pluginLoads' = IF loads[load].state = "rejected" /\ pluginLoads[entry] = <<load>>
                         THEN [pluginLoads EXCEPT ![entry] = None] ELSE pluginLoads
  /\ Continue(c)
  /\ UNCHANGED <<registry, modules, loads, builtins>>

\* Those who joined continue after it: their reactions were added later.
JoinedContinues(c) ==
  /\ callers[c].at = "joined"
  /\ Settled(callers[c].load) /\ ~Created(callers[c].load)
  /\ Continue(c)
  /\ UNCHANGED <<registry, modules, pluginLoads, loads, builtins>>

\* A caller that failed may call again, for all its plugins.
CallsAgain(c) ==
  /\ callers[c].at = "failed" /\ Len(loads) < MaxLoads
  /\ callers' = [callers EXCEPT ![c] = [at |-> "next", load |-> 0, rest |-> Plans[c]]]
  /\ UNCHANGED <<registry, modules, pluginLoads, loads, builtins>>

-------------------------------------------------------------------------------
(* The promise: registerPlugin. *)

SetState(i, state) == loads' = [loads EXCEPT ![i].state = state]

\* A module is evaluated once; the outcome, an error too, is kept by the runtime.
Import(i) ==
  /\ loads[i].state = "queued"
  /\ LET entry == loads[i].entry
     IN \E outcome \in IF modules[entry] = "new" THEN {"loaded", "failed"} ELSE {modules[entry]} :
          /\ modules' = [modules EXCEPT ![entry] = outcome]
          /\ SetState(i, IF outcome = "loaded" /\ Hooks[entry] # <<>> THEN "hook" ELSE "rejected")
  /\ UNCHANGED <<registry, pluginLoads, callers, builtins>>

\* One step of the hook: it registers the next name, or returns.
Hook(i) ==
  /\ loads[i].state = "hook"
  /\ LET load == loads[i]
         names == Hooks[load.entry]
     IN IF load.next > Len(names) THEN SetState(i, "resolved") /\ UNCHANGED registry
        ELSE LET name == names[load.next]
                 object == Object(load.entry, i)
             IN IF Conflicts(name, object) THEN SetState(i, "rejected") /\ UNCHANGED registry
                ELSE /\ loads' = [loads EXCEPT ![i].next = @ + 1]
                     /\ registry' = [registry EXCEPT ![name] = <<object>>]
  /\ UNCHANGED <<modules, pluginLoads, callers, builtins>>

HookThrows(i) ==
  /\ loads[i].state = "hook"
  /\ SetState(i, "rejected")
  /\ UNCHANGED <<registry, modules, pluginLoads, callers, builtins>>

\* registerBuiltinDatasetSources: three new objects each time, until all of them went in.
RegisterBuiltins ==
  /\ ~builtins.registered /\ builtins.tries < 2
  /\ LET run == builtins.tries + 1
         Mine(n) == [owner |-> "builtin", run |-> run]
         blocked == {i \in DOMAIN BuiltinSources : registry[BuiltinSources[i]] # None}
         upTo == IF blocked = {} THEN Len(BuiltinSources)
                 ELSE (CHOOSE i \in blocked : \A j \in blocked : i <= j) - 1
         mine == {BuiltinSources[i] : i \in 1..upTo}
     IN /\ registry' = [n \in Registered |-> IF n \in mine THEN <<Mine(n)>> ELSE registry[n]]
        /\ builtins' = [registered |-> blocked = {}, tries |-> run, threw |-> blocked # {}]
  /\ UNCHANGED <<modules, pluginLoads, loads, callers>>

Next ==
  \/ \E c \in Callers : NotFound(c) \/ Load(c) \/ CreatorContinues(c) \/ JoinedContinues(c) \/ CallsAgain(c)
  \/ \E i \in DOMAIN loads : Import(i) \/ Hook(i) \/ HookThrows(i)
  \/ RegisterBuiltins

-------------------------------------------------------------------------------
(* Properties. *)

Running(e) == {i \in DOMAIN loads : loads[i].entry = e /\ loads[i].state \in {"queued", "hook"}}
Succeeded(e) == {i \in DOMAIN loads : loads[i].entry = e /\ loads[i].state = "resolved"}
Done(c) == {Plans[c][i] : i \in 1..(Len(Plans[c]) - Len(callers[c].rest))}

\* However the callers overlap, retry and fail, a plugin's hook never runs twice at once nor
\* again after it succeeded, and a caller that was told that a plugin is loaded finds
\* everything registered.
PluginsLoadOnce ==
  /\ \A e \in Entries :
       /\ Cardinality(Running(e)) <= 1 /\ Cardinality(Succeeded(e)) <= 1
       /\ Running(e) = {} \/ Succeeded(e) = {}
  /\ \A c \in Callers : \A e \in Done(c) :
       /\ Succeeded(e) # {}
       /\ \A i \in DOMAIN Hooks[e] :
            registry[Hooks[e][i]] # None /\ registry[Hooks[e][i]][1].owner = e
===============================================================================
