---------------------------- MODULE CodecRegistry ----------------------------
(***************************************************************************)
(* CodecRegistry (src/codec/codec_registry.cpp), the plugin that owns it   *)
(* and the codec plugins that fill it (modules/).  The host loads and      *)
(* unloads plugins one at a time; an onLoad() or onUnload() of a codec     *)
(* plugin calls the registry once per factory, and the application's       *)
(* threads register factories of their own, look codecs up and create them *)
(* in between.  A call of the registry is one step, as its mutex makes it, *)
(* but createEncoder() and createDecoder(), which use the factory they     *)
(* found after unlocking: a factory may call the registry itself.          *)
(*                                                                         *)
(* IoraService is not part of the repository.  It is taken to export an    *)
(* API for as long as its plugin is loaded, to throw when an API that is   *)
(* not exported is called, and to make a new plugin object at each load.   *)
(***************************************************************************)
EXTENDS Naturals, Sequences, FiniteSets

CONSTANTS
  Infos,          \* the codecs: CodecInfo by name
  Modules,        \* the codec plugins: what each registers and withdraws
  Clients,        \* threads that look up and create codecs
  Requests,       \* what they ask for: a name, a clock rate and channels
  AppNames,       \* names under which the application registers factories
  App, Nobody,    \* the application as the owner of a factory; no thread, no plugin
  NoFactory,      \* there is no factory under this name
  MaxRegistries,  \* bound: registries created, one per load of its plugin
  MaxLoaded       \* bound: codec plugins loaded at once

Names == DOMAIN Infos
Plugins == DOMAIN Modules
Registers(p) == Modules[p].registers
Withdraws(p) == Modules[p].withdraws
NamesOf(p) == {Registers(p)[i] : i \in DOMAIN Registers(p)}

\* Each plugin takes back what it registers; no name is registered twice.
ASSUME CatalogAssumption ==
  /\ \A p \in Plugins : Registers(p) \in Seq(Names) /\ Withdraws(p) = Registers(p)
  /\ \A p \in Plugins : \A i, j \in DOMAIN Registers(p) :
       Registers(p)[i] = Registers(p)[j] => i = j
  /\ \A p, q \in Plugins : p # q => NamesOf(p) \cap NamesOf(q) = {}
ASSUME OwnersAssumption ==
  App \notin Plugins /\ NoFactory \notin Plugins \cup {App} /\ Nobody \notin Plugins \cup Clients
ASSUME AppNamesAssumption == AppNames \subseteq Names
ASSUME BoundsAssumption == MaxRegistries \in Nat /\ MaxLoaded \in Nat

VARIABLES
  registry,       \* which registry is exported, 0 for none
  factories,      \* its _factories: the owner of the factory under each name
  mutex,          \* the client in a critical section of createEncoder()
  loaded,         \* codec plugins that are loaded
  registered,     \* those with _registeredWithRegistry
  hpc,            \* what the host is doing
  current,        \* the plugin it is loading or unloading
  done,           \* registry calls this has made
  pc, want, held, \* each client: where it is, its request, the factory it uses
  found,          \* the answer to the last findByPayloadType()
  \* The rest records history that the code does not keep.
  made,           \* registries created so far
  joined,         \* the registry each registered plugin registered with
  byApp,          \* names that the application registered
  failed          \* plugins whose last registration was refused half-way or at once

hostVars == <<hpc, current, done>>
pluginVars == <<loaded, registered, joined, failed>>
clientVars == <<mutex, pc, want, held, found>>
vars == <<registry, made, factories, byApp, hostVars, pluginVars, clientVars>>

Exported == registry # 0
\* A call that takes the mutex and gives it back in one step.
Free == Exported /\ mutex = Nobody

Init ==
  /\ registry = 0 /\ made = 0
  /\ factories = [n \in Names |-> NoFactory] /\ byApp = {}
  /\ hpc = "idle" /\ current = Nobody /\ done = 0
  /\ loaded = {} /\ registered = {} /\ failed = {}
  /\ joined = [p \in Plugins |-> 0]
  /\ mutex = Nobody
  /\ pc = [t \in Clients |-> "idle"]
  /\ want = [t \in Clients |-> Nobody]
  /\ held = [t \in Clients |-> NoFactory]
  /\ found = NoFactory

-----------------------------------------------------------------------------
\* registerFactory() throws when the name is taken; unregisterFactory() takes
\* whatever is there.
registerFactoryOver(n, f) == factories' = [factories EXCEPT ![n] = f]

registerFactory(n, f) ==
  /\ factories[n] = NoFactory
  /\ factories' = [factories EXCEPT ![n] = f]

unregisterFactory(n) == factories' = [factories EXCEPT ![n] = NoFactory]

HostRests == hpc' = "idle" /\ current' = Nobody /\ done' = 0

\* CodecRegistryPlugin::onLoad() and onUnload().  The host unloads the registry
\* only when no thread is inside a call of it.
loadRegistry ==
  /\ hpc = "idle" /\ ~Exported /\ made < MaxRegistries
  /\ made' = made + 1 /\ registry' = made + 1
  /\ UNCHANGED <<factories, byApp, hostVars, pluginVars, clientVars>>

unloadRegistry ==
  /\ hpc = "idle" /\ Exported
  /\ \A t \in Clients : pc[t] \notin {"waiting", "searching", "calling"}
  /\ registry' = 0
  /\ factories' = [n \in Names |-> NoFactory] /\ byApp' = {}
  /\ failed' = {}
  /\ UNCHANGED <<made, hostVars, loaded, registered, joined, clientVars>>

\* onLoad() of a codec plugin: without a registry it is left to the caller ...
onLoad(p) ==
  /\ hpc = "idle" /\ p \notin loaded /\ Cardinality(loaded) < MaxLoaded
  /\ loaded' = loaded \cup {p}
  /\ IF Exported THEN hpc' = "registering" /\ current' = p /\ done' = 0
     ELSE UNCHANGED hostVars
  /\ UNCHANGED <<registry, made, factories, byApp, registered, joined, failed, clientVars>>

\* ... with one, the factories are registered in turn, until one is refused,
registerNext ==
  /\ hpc = "registering" /\ Free /\ done < Len(Registers(current))
  /\ LET n == Registers(current)[done + 1]
     IN  \/ /\ registerFactory(n, current)
            /\ done' = done + 1
            /\ UNCHANGED <<hpc, current, failed>>
         \/ /\ factories[n] # NoFactory
            /\ failed' = failed \cup {current}
            /\ HostRests
            /\ UNCHANGED factories
  /\ UNCHANGED <<registry, made, byApp, loaded, registered, joined, clientVars>>

\* and once all are in, the plugin remembers to withdraw them.
registrationDoneEarly ==
  /\ hpc = "registering"
  /\ registered' = registered \cup {current}
  /\ joined' = [joined EXCEPT ![current] = registry]
  /\ failed' = failed \ {current}
  /\ IF done = Len(Registers(current)) THEN HostRests ELSE UNCHANGED hostVars
  /\ UNCHANGED <<registry, made, factories, byApp, loaded, clientVars>>

registrationDone ==
  /\ hpc = "registering" /\ done = Len(Registers(current))
  /\ registered' = registered \cup {current}
  /\ joined' = [joined EXCEPT ![current] = registry]
  /\ failed' = failed \ {current}
  /\ HostRests
  /\ UNCHANGED <<registry, made, factories, byApp, loaded, clientVars>>

UnloadedStillFlagged(p) ==
  /\ loaded' = loaded \ {p} /\ joined' = [joined EXCEPT ![p] = 0]
  /\ UNCHANGED registered

\* The plugin object is gone, with _registeredWithRegistry.
Unloaded(p) ==
  /\ loaded' = loaded \ {p} /\ registered' = registered \ {p}
  /\ joined' = [joined EXCEPT ![p] = 0]

\* onUnload() of a codec plugin, by name, from whatever registry is exported.
onUnload(p) ==
  /\ hpc = "idle" /\ p \in loaded
  /\ IF p \in registered /\ Exported
     THEN /\ hpc' = "withdrawing" /\ current' = p /\ done' = 0
          /\ UNCHANGED <<loaded, registered, joined>>
     ELSE /\ Unloaded(p)
          /\ UNCHANGED hostVars
  /\ UNCHANGED <<registry, made, factories, byApp, failed, clientVars>>

withdrawNext ==
  /\ hpc = "withdrawing" /\ Free /\ done < Len(Withdraws(current))
  /\ unregisterFactory(Withdraws(current)[done + 1])
  /\ byApp' = byApp \ {Withdraws(current)[done + 1]}
  /\ done' = done + 1
  /\ UNCHANGED <<registry, made, hpc, current, pluginVars, clientVars>>

withdrawalDoneEarly ==
  /\ hpc = "withdrawing" /\ done = 1
  /\ Unloaded(current)
  /\ HostRests
  /\ UNCHANGED <<registry, made, factories, byApp, failed, clientVars>>

withdrawalDone ==
  /\ hpc = "withdrawing" /\ done = Len(Withdraws(current))
  /\ Unloaded(current)
  /\ HostRests
  /\ UNCHANGED <<registry, made, factories, byApp, failed, clientVars>>

\* The application registers a factory, its own or one that a plugin exports,
\* and withdraws what it registered itself.
appRegister(n, f) ==
  /\ Free
  /\ f = App \/ (f \in loaded /\ n \in NamesOf(f))
  /\ registerFactory(n, f)
  /\ byApp' = byApp \cup {n}
  /\ UNCHANGED <<registry, made, hostVars, pluginVars, clientVars>>

appUnregister(n) ==
  /\ Free /\ n \in byApp
  /\ unregisterFactory(n)
  /\ byApp' = byApp \ {n}
  /\ UNCHANGED <<registry, made, hostVars, pluginVars, clientVars>>

-----------------------------------------------------------------------------
\* createEncoder() and createDecoder(): lock, search, unlock, and only then
\* have the factory make the codec.
createCodec(t, request) ==
  /\ pc[t] = "idle" /\ Exported
  /\ pc' = [pc EXCEPT ![t] = "waiting"]
  /\ want' = [want EXCEPT ![t] = request]
  /\ UNCHANGED <<registry, made, factories, byApp, hostVars, pluginVars, mutex, held, found>>

lockRegistry(t) ==
  /\ pc[t] = "waiting" /\ Free
  /\ mutex' = t
  /\ pc' = [pc EXCEPT ![t] = "searching"]
  /\ UNCHANGED <<registry, made, factories, byApp, hostVars, pluginVars, want, held, found>>

\* A factory supports a request for its codec at its clock rate and channels.
supports(n, request) ==
  /\ n = request.name
  /\ Infos[n].clockRate = request.clockRate /\ Infos[n].channels = request.channels

Supporting(request) == {n \in Names : factories[n] # NoFactory /\ supports(n, request)}

makeUnderLock(t) == UNCHANGED mutex
unlockFirst(t) == mutex' = Nobody

searchFactories(t) ==
  /\ pc[t] = "searching"
  /\ unlockFirst(t)
  /\ \/ \E n \in Supporting(want[t]) :
          /\ held' = [held EXCEPT ![t] = factories[n]]
          /\ pc' = [pc EXCEPT ![t] = "making"]
          /\ UNCHANGED want
     \/ /\ Supporting(want[t]) = {}
        /\ pc' = [pc EXCEPT ![t] = "idle"]
        /\ want' = [want EXCEPT ![t] = Nobody]
        /\ UNCHANGED held
  /\ UNCHANGED <<registry, made, factories, byApp, hostVars, pluginVars, found>>

\* The factory makes a codec or throws; the client lets go of it either way.
makeCodec(t) ==
  /\ pc[t] = "making"
  /\ pc' = [pc EXCEPT ![t] = "idle"]
  /\ want' = [want EXCEPT ![t] = Nobody]
  /\ held' = [held EXCEPT ![t] = NoFactory]
  /\ UNCHANGED <<registry, made, factories, byApp, hostVars, pluginVars, mutex, found>>

\* It may look something up in the registry meanwhile, which takes the mutex.
factoryCalls(t) ==
  /\ pc[t] = "making" /\ Exported
  /\ pc' = [pc EXCEPT ![t] = "calling"]
  /\ UNCHANGED <<registry, made, factories, byApp, hostVars, pluginVars, mutex, want, held, found>>

factoryResumes(t) ==
  /\ pc[t] = "calling" /\ Free
  /\ pc' = [pc EXCEPT ![t] = "making"]
  /\ UNCHANGED <<registry, made, factories, byApp, hostVars, pluginVars, mutex, want, held, found>>

CallStep(t) ==
  lockRegistry(t) \/ searchFactories(t) \/ makeCodec(t) \/ factoryCalls(t) \/ factoryResumes(t)

\* The first factory, in the order of the hash table, with the payload type.
findByPayloadType(pt) ==
  LET Matching == {n \in Names : factories[n] # NoFactory /\ Infos[n].defaultPayloadType = pt}
  IN  /\ Free
      /\ found' \in IF Matching = {} THEN {NoFactory} ELSE Matching
      /\ UNCHANGED <<registry, made, factories, byApp, hostVars, pluginVars, mutex, pc, want, held>>

PayloadTypes == {Infos[n].defaultPayloadType : n \in Names}

Next ==
  \/ loadRegistry \/ unloadRegistry
  \/ \E p \in Plugins : onLoad(p) \/ onUnload(p)
  \/ registerNext \/ registrationDone \/ withdrawNext \/ withdrawalDone
  \/ \E n \in AppNames : appUnregister(n) \/ \E f \in Plugins \cup {App} : appRegister(n, f)
  \/ \E t \in Clients :
       \/ \E request \in Requests : createCodec(t, request)
       \/ CallStep(t)
  \/ \E pt \in PayloadTypes : findByPayloadType(pt)

Spec == Init /\ [][Next]_vars

\* Threads inside a call of the registry run.
FairSpec == Spec /\ \A t \in Clients : WF_vars(CallStep(t))

-----------------------------------------------------------------------------
\* Every variable has its type.
TypeOK ==
  /\ registry \in 0 .. made /\ made \in 0 .. MaxRegistries
  /\ factories \in [Names -> Plugins \cup {App, NoFactory}]
  /\ byApp \subseteq Names
  /\ hpc \in {"idle", "registering", "withdrawing"}
  /\ IF hpc = "idle" THEN current = Nobody /\ done = 0
     ELSE current \in Plugins /\ done \in 0 .. Len(Registers(current))
  /\ loaded \subseteq Plugins /\ registered \subseteq loaded /\ failed \subseteq Plugins
  /\ joined \in [Plugins -> 0 .. made]
  /\ mutex \in Clients \cup {Nobody}
  /\ pc \in [Clients -> {"idle", "waiting", "searching", "making", "calling"}]
  /\ want \in [Clients -> Requests \cup {Nobody}]
  /\ held \in [Clients -> Plugins \cup {App, NoFactory}]
  /\ found \in Names \cup {NoFactory}

\* A plugin that has registered itself is found under each of its names for as
\* long as it is loaded and that registry lives, whatever the application and
\* the other plugins register and withdraw meanwhile.
RegisteredPluginServes ==
  \A p \in registered :
    joined[p] = registry /\ ~(hpc = "withdrawing" /\ current = p) =>
      \A n \in NamesOf(p) : factories[n] = p

\* The registry keeps a factory of a plugin that has been unloaded only where
\* nobody undertook to withdraw it: the application registered it, or the
\* plugin's registration had been refused half-way.
LeftBehindOnlyByFailure ==
  \A n \in Names : factories[n] \in Plugins \ loaded => n \in byApp \/ factories[n] \in failed

\* A plugin that is unloaded withdraws no factory but those it registered, unless
\* the registry it registered with has been replaced by another.
UnloadTakesBackOwn ==
  [][withdrawNext /\ joined[current] = registry =>
       \A n \in Names : factories'[n] # factories[n] => factories[n] = current /\ n \notin byApp]_vars

\* The registry is locked for the search alone: no factory is called, and so
\* none calls back, with the mutex held.
FactoriesRunUnlocked == \A t \in Clients : mutex = t <=> pc[t] = "searching"

\* The registry can always be used again, whatever the factories call.
RegistryFreed == []<>(mutex = Nobody)

\* Documented, but not what the code does.

\* "The codec plugin MUST: (1) unregister its ICodecFactory from CodecRegistry": when
\* a plugin has been unloaded, nothing that it registered itself is left ...
UnloadedPluginLeavesNothing ==
  \A n \in Names : factories[n] \in Plugins \ loaded => n \in byApp

\* ... and it was its own factories that it withdrew.
UnloadTakesOnlyOwn ==
  [][withdrawNext =>
       \A n \in Names : factories'[n] # factories[n] => factories[n] = current /\ n \notin byApp]_vars

\* "PCMU owns static PT 0": whoever looks it up while PCMU is registered gets it.
PayloadZeroIsPcmu ==
  [][findByPayloadType(0) /\ factories["PCMU"] # NoFactory => found' = "PCMU"]_vars

=============================================================================
