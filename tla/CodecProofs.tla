----------------------------- MODULE CodecProofs -----------------------------
(***************************************************************************)
(* The codec registry, for any plugins whose names are disjoint, any       *)
(* number of clients and any number of registries.                         *)
(*                                                                         *)
(* The legs of a call, for any codecs, parameters, packets and clocks.     *)
(* They share nothing, so that each has an invariant of its own: a key     *)
(* frame that was asked for is on its way (VideoInv), the codecs of an     *)
(* audio leg and its buffer belong together (TransInv), and no clock       *)
(* begins later than now (ClockInv).                                       *)
(***************************************************************************)
EXTENDS CodecRegistry, CallLegs, NatRecursion

\* What the registry holds, as far as a plugin is concerned.
Mine(p, n) == factories[n] = p /\ n \notin byApp

\* The host works on a loaded plugin, against an exported registry, and what it
\* has registered or has still to withdraw is there.
HostInv ==
  /\ registry = 0 => \A n \in Names : factories[n] = NoFactory
  /\ \A n \in byApp : factories[n] # NoFactory
  /\ hpc # "idle" => registry # 0 /\ current \in loaded
  /\ hpc = "registering" =>
       /\ current \notin registered
       /\ \A i \in 1 .. done : Mine(current, Registers(current)[i])
  /\ hpc = "withdrawing" =>
       /\ current \in registered
       /\ joined[current] = registry =>
            \A i \in 1 .. Len(Registers(current)) : i > done => Mine(current, Registers(current)[i])

\* RegisteredPluginServes, and nobody else has the plugin's names.
Serving ==
  \A p \in registered :
    /\ joined[p] # 0
    /\ joined[p] = registry /\ ~(hpc = "withdrawing" /\ current = p) =>
         \A n \in NamesOf(p) : Mine(p, n)

\* Why a plugin's factory is in the registry: somebody else takes care of it,
\* the plugin has registered it and has yet to withdraw it, or is registering.
Owned ==
  \A n \in Names : factories[n] \in Plugins =>
    LET p == factories[n]
    IN  /\ n \in NamesOf(p)
        /\ \/ n \in byApp
           \/ p \in failed
           \/ hpc = "registering" /\ current = p
           \/ /\ p \in registered /\ joined[p] = registry
              /\ hpc = "withdrawing" /\ current = p =>
                   \E i \in 1 .. Len(Registers(p)) : i > done /\ n = Registers(p)[i]

RegistryInv == HostInv /\ Serving /\ Owned
IInv == TypeOK /\ FactoriesRunUnlocked /\ RegistryInv

\* What the registry's part of the invariant is about.
registryVars == <<registry, made, factories, byApp, hostVars, pluginVars>>

-----------------------------------------------------------------------------
\* The names of a plugin: its own, each once.
LEMMA PluginNames ==
  ASSUME NEW p \in Plugins
  PROVE  /\ Withdraws(p) = Registers(p) /\ Len(Registers(p)) \in Nat
         /\ \A i \in 1 .. Len(Registers(p)) :
              /\ Registers(p)[i] \in Names /\ Registers(p)[i] \in NamesOf(p)
              /\ \A j \in 1 .. Len(Registers(p)) : Registers(p)[i] = Registers(p)[j] => i = j
         /\ \A n \in NamesOf(p) :
              n \in Names /\ \E i \in 1 .. Len(Registers(p)) : n = Registers(p)[i]
<1>1. Registers(p) \in Seq(Names) /\ Withdraws(p) = Registers(p)
  BY CatalogAssumption
<1>2. DOMAIN Registers(p) = 1 .. Len(Registers(p)) /\ Len(Registers(p)) \in Nat
  BY <1>1
<1>3. \A i \in 1 .. Len(Registers(p)) : Registers(p)[i] \in Names
  BY <1>1, <1>2
<1>4. \A i, j \in 1 .. Len(Registers(p)) : Registers(p)[i] = Registers(p)[j] => i = j
  BY <1>2, CatalogAssumption
<1>. QED
  BY <1>1, <1>2, <1>3, <1>4 DEF NamesOf

LEMMA NamesDisjoint ==
  ASSUME NEW p \in Plugins, NEW q \in Plugins, p # q
  PROVE  \A n \in NamesOf(p) : n \notin NamesOf(q)
BY CatalogAssumption

\* No step but the host's and the application's touches the registry.
LEMMA ClientsReadOnly ==
  ASSUME NEW t \in Clients,
         \/ \E request \in Requests : createCodec(t, request)
         \/ CallStep(t)
  PROVE  UNCHANGED registryVars
BY DEF createCodec, CallStep, lockRegistry, searchFactories, makeCodec, factoryCalls, factoryResumes,
       registryVars

\* Who owns what stays true as long as the registry and the plugins do not change.
LEMMA RegistryUnchanged ==
  RegistryInv /\ UNCHANGED registryVars => RegistryInv'
<1>1. SUFFICES ASSUME RegistryInv, UNCHANGED registryVars PROVE RegistryInv'
  OBVIOUS
<1>2. UNCHANGED <<registry, factories, byApp, hpc, current, done, loaded, registered, joined, failed>>
  BY <1>1 DEF registryVars, hostVars, pluginVars
<1>3. HostInv'
  BY <1>1, <1>2 DEF RegistryInv, HostInv, Mine
<1>4. Serving'
  BY <1>1, <1>2 DEF RegistryInv, Serving, Mine
<1>5. Owned'
  BY <1>1, <1>2 DEF RegistryInv, Owned
<1>. QED
  BY <1>3, <1>4, <1>5 DEF RegistryInv

-----------------------------------------------------------------------------
LEMMA InitInv == Init => IInv
<1>1. SUFFICES ASSUME Init PROVE IInv
  OBVIOUS
<1>2. TypeOK
  BY <1>1, BoundsAssumption DEF Init, TypeOK
<1>3. FactoriesRunUnlocked
  BY <1>1, OwnersAssumption DEF Init, FactoriesRunUnlocked
<1>4. HostInv /\ Serving
  BY <1>1 DEF Init, HostInv, Serving
<1>5. Owned
  BY <1>1, OwnersAssumption DEF Init, Owned
<1>. QED
  BY <1>2, <1>3, <1>4, <1>5 DEF IInv, RegistryInv

LEMMA TypeStep == TypeOK /\ HostInv /\ [Next]_vars => TypeOK'
<1>1. SUFFICES ASSUME TypeOK, HostInv, [Next]_vars PROVE TypeOK'
  OBVIOUS
<1>. USE OwnersAssumption, BoundsAssumption DEF TypeOK
<1>2. CASE loadRegistry
  BY <1>1, <1>2 DEF loadRegistry, Exported, hostVars, pluginVars, clientVars
<1>3. CASE unloadRegistry
  BY <1>1, <1>3 DEF unloadRegistry, hostVars, clientVars
<1>4. ASSUME NEW p \in Plugins, onLoad(p)
      PROVE  TypeOK'
  BY <1>1, <1>4, PluginNames DEF onLoad, hostVars, clientVars
<1>5. ASSUME NEW p \in Plugins, onUnload(p)
      PROVE  TypeOK'
  BY <1>1, <1>5, PluginNames DEF onUnload, Unloaded, hostVars, clientVars
<1>6. CASE registerNext
  <2>1. current \in Plugins
    BY <1>1, <1>6 DEF registerNext
  <2>2. Len(Registers(current)) \in Nat
    BY <2>1, PluginNames
  <2>3. CASE registerFactory(Registers(current)[done + 1], current) /\ done' = done + 1
             /\ UNCHANGED <<hpc, current, failed>>
    <3>1. done' \in 0 .. Len(Registers(current))
      BY <1>1, <1>6, <2>2, <2>3 DEF registerNext
    <3>2. factories' \in [Names -> Plugins \cup {App, NoFactory}]
      BY <1>1, <2>1, <2>3 DEF registerFactory
    <3>. QED
      BY <1>1, <1>6, <2>1, <2>3, <3>1, <3>2 DEF registerNext, clientVars
  <2>4. CASE failed' = failed \cup {current} /\ HostRests /\ UNCHANGED factories
    BY <1>1, <1>6, <2>1, <2>4 DEF registerNext, HostRests, clientVars
  <2>. QED
    BY <1>6, <2>3, <2>4 DEF registerNext
<1>7. CASE registrationDone
  BY <1>1, <1>7 DEF registrationDone, HostRests, HostInv, clientVars
<1>8. CASE withdrawNext
  <2>1. current \in Plugins
    BY <1>1, <1>8 DEF withdrawNext
  <2>. QED
    BY <1>1, <1>8, <2>1, PluginNames DEF withdrawNext, unregisterFactory, pluginVars, clientVars
<1>9. CASE withdrawalDone
  BY <1>1, <1>9 DEF withdrawalDone, Unloaded, HostRests, clientVars
<1>10. ASSUME NEW n \in AppNames, appUnregister(n)
       PROVE  TypeOK'
  BY <1>1, <1>10 DEF appUnregister, unregisterFactory, hostVars, pluginVars, clientVars
<1>11. ASSUME NEW n \in AppNames, NEW f \in Plugins \cup {App}, appRegister(n, f)
       PROVE  TypeOK'
  BY <1>1, <1>11, AppNamesAssumption
     DEF appRegister, registerFactory, hostVars, pluginVars, clientVars
<1>12. ASSUME NEW t \in Clients, NEW request \in Requests, createCodec(t, request)
       PROVE  TypeOK'
  BY <1>1, <1>12 DEF createCodec, hostVars, pluginVars
<1>15. ASSUME NEW t \in Clients, CallStep(t)
       PROVE  TypeOK'
  <2>1. CASE lockRegistry(t) \/ makeCodec(t) \/ factoryCalls(t) \/ factoryResumes(t)
    BY <1>1, <2>1
       DEF lockRegistry, makeCodec, factoryCalls, factoryResumes, hostVars, pluginVars
  <2>2. CASE searchFactories(t)
    BY <1>1, <2>2 DEF searchFactories, unlockFirst, Supporting, hostVars, pluginVars
  <2>. QED
    BY <1>15, <2>1, <2>2 DEF CallStep
<1>13. ASSUME NEW pt \in PayloadTypes, findByPayloadType(pt)
       PROVE  TypeOK'
  BY <1>1, <1>13 DEF findByPayloadType, hostVars, pluginVars
<1>14. CASE UNCHANGED vars
  BY <1>1, <1>14 DEF vars, hostVars, pluginVars, clientVars
<1>. QED
  BY <1>1, <1>2, <1>3, <1>4, <1>5, <1>6, <1>7, <1>8, <1>9, <1>10, <1>11, <1>12, <1>13, <1>14, <1>15 DEF Next

LEMMA LockStep == TypeOK /\ FactoriesRunUnlocked /\ [Next]_vars => FactoriesRunUnlocked'
<1>1. SUFFICES ASSUME TypeOK, FactoriesRunUnlocked, [Next]_vars PROVE FactoriesRunUnlocked'
  OBVIOUS
<1>2. CASE UNCHANGED <<mutex, pc>>
  BY <1>1, <1>2 DEF FactoriesRunUnlocked
<1>3. ASSUME NEW t \in Clients, NEW request \in Requests, createCodec(t, request)
      PROVE  FactoriesRunUnlocked'
  BY <1>1, <1>3 DEF TypeOK, FactoriesRunUnlocked, createCodec
<1>4. ASSUME NEW t \in Clients, CallStep(t)
      PROVE  FactoriesRunUnlocked'
  <2>1. CASE lockRegistry(t) \/ searchFactories(t)
    BY <1>1, <2>1, OwnersAssumption
       DEF TypeOK, FactoriesRunUnlocked, lockRegistry, searchFactories, unlockFirst, Free
  <2>2. CASE makeCodec(t) \/ factoryCalls(t) \/ factoryResumes(t)
    BY <1>1, <2>2 DEF TypeOK, FactoriesRunUnlocked, makeCodec, factoryCalls, factoryResumes
  <2>. QED
    BY <1>4, <2>1, <2>2 DEF CallStep
<1>. QED
  BY <1>1, <1>2, <1>3, <1>4
     DEF Next, vars, clientVars, loadRegistry, unloadRegistry, onLoad, onUnload, registerNext,
         registrationDone, withdrawNext, withdrawalDone, appUnregister, appRegister, findByPayloadType

-----------------------------------------------------------------------------
\* The registry comes and goes with nobody in it: the plugins that registered
\* with an earlier one have an older number.
LEMMA PluginOfRegistrySteps ==
  ASSUME TypeOK, RegistryInv, loadRegistry \/ unloadRegistry
  PROVE  RegistryInv'
<1>1. CASE loadRegistry
  <2>1. \A n \in Names : factories'[n] = NoFactory
    BY <1>1 DEF RegistryInv, HostInv, loadRegistry, Exported
  <2>2. registry' # 0 /\ \A p \in Plugins : joined[p] # registry'
    BY <1>1, BoundsAssumption DEF TypeOK, loadRegistry
  <2>3. HostInv'
    BY <1>1, <2>1, <2>2 DEF RegistryInv, HostInv, TypeOK, loadRegistry, hostVars
  <2>4. Serving'
    BY <1>1, <2>2 DEF RegistryInv, Serving, TypeOK, loadRegistry, pluginVars
  <2>5. Owned'
    BY <2>1, OwnersAssumption DEF Owned
  <2>. QED
    BY <2>3, <2>4, <2>5 DEF RegistryInv
<1>2. CASE unloadRegistry
  <2>1. \A n \in Names : factories'[n] = NoFactory
    BY <1>2 DEF unloadRegistry
  <2>2. HostInv'
    BY <1>2, <2>1 DEF HostInv, TypeOK, unloadRegistry, hostVars
  <2>3. Serving'
    BY <1>2 DEF RegistryInv, Serving, unloadRegistry
  <2>4. Owned'
    BY <2>1, OwnersAssumption DEF Owned
  <2>. QED
    BY <2>2, <2>3, <2>4 DEF RegistryInv
<1>. QED
  BY <1>1, <1>2

\* A plugin is loaded and its factories go in one by one, under free names.
LEMMA RegistrationSteps ==
  ASSUME TypeOK, RegistryInv,
         \/ \E p \in Plugins : onLoad(p)
         \/ registerNext \/ registrationDone
  PROVE  RegistryInv'
<1>1. ASSUME NEW p \in Plugins, onLoad(p)
      PROVE  RegistryInv'
  <2>1. UNCHANGED <<registry, factories, byApp, registered, joined, failed>>
    BY <1>1 DEF onLoad
  <2>2. hpc' # "withdrawing"
    BY <1>1 DEF onLoad, hostVars
  <2>3. HostInv'
    BY <1>1, <2>1 DEF RegistryInv, HostInv, Mine, TypeOK, onLoad, hostVars, Exported
  <2>4. Serving'
    BY <1>1, <2>1, <2>2 DEF RegistryInv, Serving, Mine, onLoad
  <2>5. Owned'
    BY <1>1, <2>1, <2>2 DEF RegistryInv, Owned, onLoad
  <2>. QED
    BY <2>3, <2>4, <2>5 DEF RegistryInv
<1>2. CASE registerNext
  <2>1. PICK n \in NamesOf(current) : n = Registers(current)[done + 1]
    BY <1>2, PluginNames DEF TypeOK, registerNext
  <2>2. /\ current \in Plugins \cap loaded /\ done \in Nat
        /\ registry # 0 /\ current \notin registered
        /\ \A i \in 1 .. done : Mine(current, Registers(current)[i])
        /\ UNCHANGED <<registry, byApp, loaded, registered, joined>>
    BY <1>2 DEF RegistryInv, HostInv, TypeOK, registerNext
  <2>3. n \in Names /\ \A i \in 1 .. done : Registers(current)[i] \in Names
    BY <1>2, <2>1, <2>2, PluginNames DEF TypeOK, registerNext
  <2>4. CASE registerFactory(n, current) /\ done' = done + 1 /\ UNCHANGED <<hpc, current, failed>>
    <3>1. factories[n] = NoFactory /\ n \notin byApp
      BY <2>4 DEF RegistryInv, HostInv, registerFactory
    <3>2. factories'[n] = current /\ \A m \in Names : m # n => factories'[m] = factories[m]
      BY <2>2, <2>3, <2>4 DEF TypeOK, registerFactory
    <3>3. \A m \in Names : \A p \in Plugins : Mine(p, m) => Mine(p, m)'
      BY <2>2, <3>1, <3>2, OwnersAssumption DEF Mine
    <3>4. Mine(current, n)'
      BY <2>2, <2>4, <3>1, <3>2 DEF Mine
    <3>5. \A i \in 1 .. done' : Mine(current, Registers(current)[i])'
      BY <2>1, <2>2, <2>3, <2>4, <3>3, <3>4
    <3>6. HostInv'
      <4>1. \A m \in byApp' : factories'[m] # NoFactory
        BY <2>2, <3>1, <3>2 DEF RegistryInv, HostInv, TypeOK
      <4>2. (\A i \in 1 .. done : Mine(current, Registers(current)[i]))'
        BY <2>4, <3>5 DEF Mine
      <4>. QED
        BY <1>2, <2>2, <2>4, <4>1, <4>2 DEF HostInv, registerNext
    <3>7. Serving'
      <4>1. \A p \in registered : p \in Plugins /\ \A m \in NamesOf(p) : m \in Names
        BY PluginNames DEF TypeOK
      <4>. QED
        BY <1>2, <2>2, <2>4, <3>3, <4>1 DEF RegistryInv, Serving, registerNext
    <3>8. Owned'
      <4>1. SUFFICES ASSUME NEW m \in Names, factories'[m] \in Plugins
                     PROVE  LET p == factories'[m]
                            IN  /\ m \in NamesOf(p)
                                /\ \/ m \in byApp
                                   \/ p \in failed
                                   \/ current = p
                                   \/ p \in registered /\ joined[p] = registry
        BY <1>2, <2>2, <2>4 DEF Owned, registerNext
      <4>2. CASE m = n
        BY <2>1, <3>2, <4>2
      <4>3. CASE m # n
        BY <3>2, <4>1, <4>3 DEF RegistryInv, Owned
      <4>. QED
        BY <4>2, <4>3
    <3>. QED
      BY <3>6, <3>7, <3>8 DEF RegistryInv
  <2>5. CASE failed' = failed \cup {current} /\ HostRests /\ UNCHANGED factories
    <3>1. HostInv'
      BY <2>2, <2>5 DEF RegistryInv, HostInv, HostRests
    <3>2. Serving'
      BY <1>2, <2>2, <2>5 DEF RegistryInv, Serving, Mine, HostRests, registerNext
    <3>3. Owned'
      BY <1>2, <2>2, <2>5 DEF RegistryInv, Owned, HostRests, registerNext
    <3>. QED
      BY <3>1, <3>2, <3>3 DEF RegistryInv
  <2>. QED
    BY <1>2, <2>1, <2>4, <2>5 DEF registerNext
<1>3. CASE registrationDone
  <2>1. /\ current \in Plugins /\ done = Len(Registers(current)) /\ registry # 0
        /\ \A i \in 1 .. done : Mine(current, Registers(current)[i])
    BY <1>3 DEF RegistryInv, HostInv, TypeOK, registrationDone
  <2>2. \A n \in NamesOf(current) : Mine(current, n)
    BY <2>1, PluginNames
  <2>3. HostInv'
    BY <1>3 DEF RegistryInv, HostInv, registrationDone, HostRests
  <2>4. Serving'
    BY <1>3, <2>1, <2>2 DEF RegistryInv, Serving, Mine, TypeOK, registrationDone, HostRests
  <2>5. Owned'
    BY <1>3, <2>1 DEF RegistryInv, Owned, TypeOK, registrationDone, HostRests
  <2>. QED
    BY <2>3, <2>4, <2>5 DEF RegistryInv
<1>. QED
  BY <1>1, <1>2, <1>3

\* A plugin is unloaded: its names are taken out one by one, and they are still
\* the plugin's if the registry is.
LEMMA WithdrawalSteps ==
  ASSUME TypeOK, RegistryInv,
         \/ \E p \in Plugins : onUnload(p)
         \/ withdrawNext \/ withdrawalDone
  PROVE  RegistryInv'
<1>1. ASSUME NEW p \in Plugins, onUnload(p)
      PROVE  RegistryInv'
  <2>1. hpc = "idle" /\ p \in loaded /\ UNCHANGED <<registry, factories, byApp, failed>>
    BY <1>1 DEF onUnload
  <2>2. CASE p \in registered /\ Exported
    <3>1. hpc' = "withdrawing" /\ current' = p /\ done' = 0 /\ UNCHANGED <<loaded, registered, joined>>
      BY <1>1, <2>2 DEF onUnload
    <3>2. HostInv'
      <4>1. joined[p] = registry =>
              \A i \in 1 .. Len(Registers(p)) : Mine(p, Registers(p)[i])
        BY <2>1, <2>2, PluginNames DEF RegistryInv, Serving
      <4>. QED
        BY <2>1, <2>2, <3>1, <4>1 DEF RegistryInv, HostInv, Mine, Exported
    <3>3. Serving'
      BY <2>1, <3>1 DEF RegistryInv, Serving, Mine
    <3>4. Owned'
      <4>1. \A n \in NamesOf(p) : \E i \in 1 .. Len(Registers(p)) : i > 0 /\ n = Registers(p)[i]
        BY PluginNames
      <4>. QED
        BY <2>1, <3>1, <4>1 DEF RegistryInv, Owned
    <3>. QED
      BY <3>2, <3>3, <3>4 DEF RegistryInv
  <2>3. CASE ~(p \in registered /\ Exported)
    <3>1. Unloaded(p) /\ UNCHANGED hostVars
      BY <1>1, <2>3 DEF onUnload
    <3>2. HostInv'
      BY <2>1, <3>1 DEF RegistryInv, HostInv, hostVars
    <3>3. Serving'
      BY <2>1, <3>1 DEF RegistryInv, Serving, Mine, TypeOK, Unloaded, hostVars
    <3>4. Owned'
      <4>1. p \in registered => \A n \in Names : factories[n] = NoFactory
        BY <2>3 DEF RegistryInv, HostInv, Exported
      <4>. QED
        BY <2>1, <3>1, <4>1, OwnersAssumption DEF RegistryInv, Owned, TypeOK, Unloaded, hostVars
    <3>. QED
      BY <3>2, <3>3, <3>4 DEF RegistryInv
  <2>. QED
    BY <2>2, <2>3
<1>2. CASE withdrawNext
  <2>1. /\ hpc = "withdrawing" /\ current \in Plugins \cap loaded /\ current \in registered
        /\ registry # 0 /\ done \in Nat /\ done < Len(Registers(current)) /\ done' = done + 1
        /\ UNCHANGED <<registry, hpc, current, loaded, registered, joined, failed>>
    BY <1>2, PluginNames DEF RegistryInv, HostInv, TypeOK, withdrawNext, pluginVars
  <2>2. PICK n \in NamesOf(current) :
          /\ n \in Names /\ n = Registers(current)[done + 1]
          /\ factories' = [factories EXCEPT ![n] = NoFactory] /\ byApp' = byApp \ {n}
    <3>1. done + 1 \in 1 .. Len(Registers(current)) /\ Withdraws(current) = Registers(current)
      BY <2>1, PluginNames
    <3>2. Registers(current)[done + 1] \in NamesOf(current) \cap Names
      BY <2>1, <3>1, PluginNames
    <3>. QED
      BY <1>2, <3>1, <3>2 DEF withdrawNext, unregisterFactory
  <2>3. factories'[n] = NoFactory /\ \A m \in Names : m # n => factories'[m] = factories[m]
    BY <2>2 DEF TypeOK
  <2>4. \A m \in Names : \A p \in Plugins : m # n /\ Mine(p, m) => Mine(p, m)'
    BY <2>2, <2>3 DEF Mine
  <2>5. \A i \in 1 .. Len(Registers(current)) :
          Registers(current)[i] \in Names /\ (i > done + 1 => Registers(current)[i] # n)
    BY <2>1, <2>2, PluginNames
  <2>6. HostInv'
    <3>1. \A m \in byApp' : factories'[m] # NoFactory
      BY <2>2, <2>3 DEF RegistryInv, HostInv, TypeOK
    <3>2. joined[current] = registry =>
            \A i \in 1 .. Len(Registers(current)) :
              i > done + 1 => Mine(current, Registers(current)[i])'
      <4>1. SUFFICES ASSUME joined[current] = registry, NEW i \in 1 .. Len(Registers(current)),
                            i > done + 1
                     PROVE  Mine(current, Registers(current)[i])'
        OBVIOUS
      <4>2. i > done
        BY <2>1, <4>1, PluginNames
      <4>3. Mine(current, Registers(current)[i])
        BY <2>1, <4>1, <4>2 DEF RegistryInv, HostInv
      <4>. QED
        BY <2>1, <2>4, <2>5, <4>1, <4>3
    <3>3. (joined[current] = registry =>
             \A i \in 1 .. Len(Registers(current)) : i > done => Mine(current, Registers(current)[i]))'
      BY <2>1, <3>2
    <3>. QED
      BY <2>1, <3>1, <3>3 DEF HostInv
  <2>7. Serving'
    <3>1. \A p \in registered : p # current => \A m \in NamesOf(p) : m \in Names /\ m # n
      BY <2>1, <2>2, PluginNames, NamesDisjoint DEF TypeOK
    <3>2. registered \subseteq Plugins
      BY DEF TypeOK
    <3>. QED
      BY <2>1, <2>4, <3>1, <3>2 DEF RegistryInv, Serving
  <2>8. Owned'
    <3>1. SUFFICES ASSUME NEW m \in Names, factories'[m] \in Plugins
                   PROVE  LET p == factories'[m]
                          IN  /\ m \in NamesOf(p)
                              /\ \/ m \in byApp'
                                 \/ p \in failed
                                 \/ /\ p \in registered /\ joined[p] = registry
                                    /\ current = p =>
                                         \E i \in 1 .. Len(Registers(p)) :
                                           i > done + 1 /\ m = Registers(p)[i]
      BY <2>1 DEF Owned
    <3>2. m # n /\ factories'[m] = factories[m]
      BY <2>3, <3>1, OwnersAssumption
    <3>3. m \in byApp => m \in byApp'
      BY <2>2, <3>2
    <3>4. \A i \in 1 .. Len(Registers(current)) : i > done /\ m = Registers(current)[i] => i > done + 1
      BY <2>1, <2>2, <3>2, PluginNames
    <3>. QED
      BY <2>1, <3>1, <3>2, <3>3, <3>4 DEF RegistryInv, Owned
  <2>. QED
    BY <2>6, <2>7, <2>8 DEF RegistryInv
<1>3. CASE withdrawalDone
  <2>1. /\ hpc = "withdrawing" /\ current \in Plugins /\ done = Len(Registers(current))
        /\ Unloaded(current) /\ HostRests /\ UNCHANGED <<registry, factories, byApp, failed>>
    BY <1>3, PluginNames DEF TypeOK, withdrawalDone
  <2>2. HostInv'
    BY <2>1 DEF RegistryInv, HostInv, HostRests
  <2>3. Serving'
    BY <2>1 DEF RegistryInv, Serving, Mine, TypeOK, Unloaded, HostRests
  <2>4. Owned'
    <3>1. \A i \in 1 .. Len(Registers(current)) : ~(i > done)
      BY <2>1, PluginNames
    <3>. QED
      BY <2>1, <3>1 DEF RegistryInv, Owned, TypeOK, Unloaded, HostRests
  <2>. QED
    BY <2>2, <2>3, <2>4 DEF RegistryInv
<1>. QED
  BY <1>1, <1>2, <1>3

\* The application only fills free names, and takes out what it put in.
LEMMA ApplicationSteps ==
  ASSUME TypeOK, RegistryInv,
         NEW n \in AppNames,
         appUnregister(n) \/ \E f \in Plugins \cup {App} : appRegister(n, f)
  PROVE  RegistryInv'
<1>1. n \in Names /\ UNCHANGED <<registry, hpc, current, done, loaded, registered, joined, failed>>
  BY AppNamesAssumption DEF appUnregister, appRegister, hostVars, pluginVars
<1>2. registry # 0
  BY DEF appUnregister, appRegister, Free, Exported
<1>3. \A m \in Names : m # n => factories'[m] = factories[m] /\ (m \in byApp' <=> m \in byApp)
  BY DEF TypeOK, appUnregister, appRegister, registerFactory, unregisterFactory
<1>4. byApp' \subseteq Names /\ (n \in byApp' => factories'[n] # NoFactory)
  BY <1>1, OwnersAssumption
     DEF TypeOK, appUnregister, appRegister, registerFactory, unregisterFactory
<1>5. \A p \in Plugins : ~Mine(p, n)
  BY OwnersAssumption DEF Mine, appUnregister, appRegister, registerFactory
<1>6. \A m \in Names : \A p \in Plugins : Mine(p, m) => Mine(p, m)'
  BY <1>3, <1>5 DEF Mine
<1>7. HostInv'
  <2>1. \A m \in byApp' : factories'[m] # NoFactory
    BY <1>3, <1>4 DEF RegistryInv, HostInv
  <2>2. hpc # "idle" => \A i \in 1 .. Len(Registers(current)) : Registers(current)[i] \in Names
    BY PluginNames DEF TypeOK
  <2>3. hpc # "idle" => /\ current \in Plugins /\ done \in 0 .. Len(Registers(current))
                        /\ Len(Registers(current)) \in Nat
    BY PluginNames DEF TypeOK
  <2>4. ASSUME hpc = "registering", NEW i \in 1 .. done
        PROVE  Mine(current, Registers(current)[i])'
    <3>1. Mine(current, Registers(current)[i])
      BY <2>4 DEF RegistryInv, HostInv
    <3>2. current \in Plugins /\ Registers(current)[i] \in Names
      BY <2>2, <2>3, <2>4
    <3>. QED
      BY <1>1, <1>6, <3>1, <3>2 DEF Mine
  <2>5. ASSUME hpc = "withdrawing", joined[current] = registry,
               NEW i \in 1 .. Len(Registers(current)), i > done
        PROVE  Mine(current, Registers(current)[i])'
    <3>1. Mine(current, Registers(current)[i])
      BY <2>5 DEF RegistryInv, HostInv
    <3>2. current \in Plugins /\ Registers(current)[i] \in Names
      BY <2>2, <2>3, <2>5
    <3>. QED
      BY <1>1, <1>6, <3>1, <3>2 DEF Mine
  <2>6. (hpc = "registering" => \A i \in 1 .. done : Mine(current, Registers(current)[i]))'
    BY <1>1, <2>4
  <2>7. (hpc = "withdrawing" /\ joined[current] = registry =>
          \A i \in 1 .. Len(Registers(current)) : i > done => Mine(current, Registers(current)[i]))'
    BY <1>1, <2>5
  <2>. QED
    BY <1>1, <1>2, <2>1, <2>6, <2>7 DEF RegistryInv, HostInv
<1>8. Serving'
  <2>1. \A p \in registered : p \in Plugins /\ \A m \in NamesOf(p) : m \in Names
    BY PluginNames DEF TypeOK
  <2>. QED
    BY <1>1, <1>6, <2>1 DEF RegistryInv, Serving
<1>9. Owned'
  <2>1. factories'[n] \in Plugins => n \in NamesOf(factories'[n]) /\ n \in byApp'
    BY <1>1, OwnersAssumption
       DEF TypeOK, appUnregister, appRegister, registerFactory, unregisterFactory
  <2>2. ASSUME NEW m \in Names, factories'[m] \in Plugins, m # n
        PROVE  LET p == factories'[m]
               IN  /\ m \in NamesOf(p)
                   /\ \/ m \in byApp'
                      \/ p \in failed
                      \/ hpc = "registering" /\ current = p
                      \/ /\ p \in registered /\ joined[p] = registry
                         /\ hpc = "withdrawing" /\ current = p =>
                              \E i \in 1 .. Len(Registers(p)) : i > done /\ m = Registers(p)[i]
    BY <1>3, <2>2 DEF RegistryInv, Owned
  <2>. QED
    BY <1>1, <2>1, <2>2 DEF Owned
<1>. QED
  BY <1>7, <1>8, <1>9 DEF RegistryInv

LEMMA RegistryStep == TypeOK /\ RegistryInv /\ [Next]_vars => RegistryInv'
<1>1. SUFFICES ASSUME TypeOK, RegistryInv, [Next]_vars PROVE RegistryInv'
  OBVIOUS
<1>2. CASE \/ loadRegistry \/ unloadRegistry
           \/ \E p \in Plugins : onLoad(p) \/ onUnload(p)
           \/ registerNext \/ registrationDone \/ withdrawNext \/ withdrawalDone
  BY <1>1, <1>2, PluginOfRegistrySteps, RegistrationSteps, WithdrawalSteps
<1>3. CASE \E n \in AppNames :
             appUnregister(n) \/ \E f \in Plugins \cup {App} : appRegister(n, f)
  BY <1>1, <1>3, ApplicationSteps
<1>4. CASE \E t \in Clients :
             \/ \E request \in Requests : createCodec(t, request)
             \/ CallStep(t)
  BY <1>1, <1>4, ClientsReadOnly, RegistryUnchanged
<1>5. CASE \E pt \in PayloadTypes : findByPayloadType(pt)
  <2>1. UNCHANGED registryVars
    BY <1>5 DEF findByPayloadType, registryVars
  <2>. QED
    BY <1>1, <2>1, RegistryUnchanged
<1>6. CASE UNCHANGED vars
  <2>1. UNCHANGED registryVars
    BY <1>6 DEF vars, registryVars
  <2>. QED
    BY <1>1, <2>1, RegistryUnchanged
<1>. QED
  BY <1>1, <1>2, <1>3, <1>4, <1>5, <1>6 DEF Next

-----------------------------------------------------------------------------
THEOREM Invariance == Spec => []IInv
<1>1. IInv /\ [Next]_vars => IInv'
  BY TypeStep, LockStep, RegistryStep DEF IInv, RegistryInv
<1>. QED
  BY InitInv, <1>1, PTL DEF Spec

\* Every variable of the registry, its plugins and its clients has its type.
THEOREM TypeCorrect == Spec => []TypeOK
<1>1. IInv => TypeOK
  BY DEF IInv
<1>. QED
  BY Invariance, <1>1, PTL

\* createEncoder() and createDecoder() call no factory with the mutex held.
THEOREM RunUnlocked == Spec => []FactoriesRunUnlocked
<1>1. IInv => FactoriesRunUnlocked
  BY DEF IInv
<1>. QED
  BY Invariance, <1>1, PTL

\* A plugin that registered all its factories stays the one that is found under
\* its names until it is unloaded or the registry is.
THEOREM PluginServes == Spec => []RegisteredPluginServes
<1>1. IInv => RegisteredPluginServes
  BY DEF IInv, RegistryInv, Serving, Mine, RegisteredPluginServes
<1>. QED
  BY Invariance, <1>1, PTL

\* onUnload() leaves a factory behind only if the application registered it or
\* the plugin's own registration was refused.
THEOREM LeftBehind == Spec => []LeftBehindOnlyByFailure
<1>1. IInv => LeftBehindOnlyByFailure
  BY DEF IInv, RegistryInv, Owned, HostInv, TypeOK, LeftBehindOnlyByFailure
<1>. QED
  BY Invariance, <1>1, PTL

\* onUnload() withdraws the plugin's own factories and no other, while the
\* registry is the one they were registered with.
THEOREM UnloadOwn == Spec => UnloadTakesBackOwn
<1>. DEFINE OnlyOwn ==
       withdrawNext /\ joined[current] = registry =>
         \A n \in Names : factories'[n] # factories[n] => factories[n] = current /\ n \notin byApp
<1>1. IInv /\ [Next]_vars => OnlyOwn
  <2>1. SUFFICES ASSUME IInv, withdrawNext, joined[current] = registry,
                        NEW n \in Names, factories'[n] # factories[n]
                 PROVE  Mine(current, n)
    BY DEF Mine
  <2>2. /\ current \in Plugins /\ done \in Nat /\ done < Len(Registers(current))
        /\ Len(Registers(current)) \in Nat /\ Withdraws(current) = Registers(current)
    BY <2>1, PluginNames DEF IInv, TypeOK, withdrawNext
  <2>3. n = Registers(current)[done + 1]
    BY <2>1, <2>2 DEF IInv, TypeOK, withdrawNext, unregisterFactory
  <2>4. done + 1 \in 1 .. Len(Registers(current)) /\ done + 1 > done
    BY <2>2
  <2>5. Mine(current, Registers(current)[done + 1])
    BY <2>1, <2>4 DEF IInv, RegistryInv, HostInv, withdrawNext
  <2>. QED
    BY <2>3, <2>5
<1>2. IInv /\ [Next]_vars => [OnlyOwn]_vars
  BY <1>1
<1>. QED
  BY Invariance, <1>2, PTL DEF Spec, UnloadTakesBackOwn


-----------------------------------------------------------------------------
(***************************************************************************)
(* The legs of a call.                                                     *)
(***************************************************************************)
\* The encoder of a video leg, and what is in force in its library.
Encoders ==
  [bitrate : Nat, framerate : Nat, speed : Nat, forceKeyFrame : BOOLEAN, cfgBitrate : Nat,
   lib : [bitrate : Nat, framerate : Nat, speed : Nat, intra : BOOLEAN]]
Factories == [bitrate : Nat, framerate : Nat, speed : Speeds, pendingKeyFrame : BOOLEAN]

\* What the encoder reports is in force.
VideoInForce(e) ==
  IF library = "h264" THEN e.bitrate = e.lib.bitrate /\ e.framerate = e.lib.framerate
  ELSE kbps(e.bitrate) = e.lib.bitrate /\ e.speed \in {e.lib.speed} \cup (Speeds \ ValidSpeeds)

\* A key frame that was asked for is still on its way.
KeyFrameOnItsWay(e) ==
  wanted.key => (wanted.failed /\ library # "h264") \/ e.forceKeyFrame \/ e.lib.intra

VideoInv ==
  /\ library \in Libraries /\ factory \in Factories
  /\ wanted \in [key : BOOLEAN, failed : BOOLEAN]
  /\ encoder # NoCodec => encoder \in Encoders /\ VideoInForce(encoder) /\ KeyFrameOnItsWay(encoder)
  /\ KeyFrameFollowsRequest /\ PictureOfThisPacket

LEMMA VideoConstants ==
  /\ Libraries \subseteq {"vpx", "av1", "h264"}
  /\ Bitrates \subseteq Nat /\ Framerates \subseteq Nat /\ Speeds \subseteq Nat /\ LibrarySpeed \in Nat
  /\ InitialDefaults[1] \in Nat /\ InitialDefaults[2] \in Nat /\ InitialDefaults[3] \in Speeds
BY VideoAssumption

LEMMA KbpsIs == ASSUME NEW n \in Nat PROVE kbps(n) \in Nat
BY DEF kbps

LEMMA VideoInitInv == VideoInit /\ wanted = [key |-> FALSE, failed |-> FALSE] => VideoInv
<1> SUFFICES ASSUME VideoInit, wanted = [key |-> FALSE, failed |-> FALSE] PROVE VideoInv
  OBVIOUS
<1>1. factory \in Factories
  BY VideoConstants DEF VideoInit, Factories
<1>2. KeyFrameFollowsRequest /\ PictureOfThisPacket
  BY DEF VideoInit, KeyFrameFollowsRequest, PictureOfThisPacket, NoPicture
<1> QED
  BY <1>1, <1>2 DEF VideoInit, VideoInv

LEMMA CreateEncoderInv ==
  ASSUME VideoInv, createEncoder, wanted' = [key |-> factory.pendingKeyFrame, failed |-> FALSE]
  PROVE  VideoInv'
<1> DEFINE d == factory
<1>1. /\ library' = library /\ library \in {"vpx", "av1", "h264"} /\ picture' = picture
      /\ factory' = [factory EXCEPT !.pendingKeyFrame = FALSE] /\ encoded' = "nothing"
      /\ encoder' = Created(IF library = "h264" THEN h264New(d) ELSE vpxNew(d))
  BY VideoConstants DEF createEncoder, vpxCreateEncoder, av1CreateEncoder, h264CreateEncoder,
    av1New, VideoInv
<1>2. /\ factory \in Factories /\ d.bitrate \in Nat /\ d.framerate \in Nat
      /\ d.speed \in Speeds /\ d.speed \in Nat /\ d.pendingKeyFrame \in BOOLEAN
  BY VideoConstants DEF VideoInv, Factories
<1>3. factory' \in Factories /\ wanted' \in [key : BOOLEAN, failed : BOOLEAN]
  BY <1>1, <1>2 DEF Factories
<1>4. KeyFrameFollowsRequest' /\ PictureOfThisPacket'
  BY <1>1 DEF VideoInv, KeyFrameFollowsRequest, PictureOfThisPacket
<1>5. CASE library = "h264"
  <2> DEFINE e == Created(h264New(d))
  <2>1. /\ e \in Encoders /\ e.bitrate = e.lib.bitrate /\ e.framerate = e.lib.framerate
        /\ e.lib.intra
    BY <1>2 DEF Created, h264New, Encoders
  <2> HIDE DEF e
  <2>2. encoder' = e
    BY <1>1, <1>5 DEF e
  <2> QED
    BY <1>1, <1>3, <1>4, <1>5, <2>1, <2>2 DEF VideoInv, VideoInForce, KeyFrameOnItsWay
<1>6. CASE library # "h264"
  <2> DEFINE e == Created(vpxNew(d))
             k == kbps(d.bitrate)
  <2>0. k \in Nat
    BY <1>2, KbpsIs
  <2> HIDE DEF k
  <2>1. /\ e \in Encoders /\ e.bitrate = d.bitrate /\ e.lib.bitrate = k /\ e.lib.intra
        /\ e.speed \in {e.lib.speed} \cup (Speeds \ ValidSpeeds)
    BY <1>2, <2>0, VideoConstants DEF Created, vpxNew, Encoders, k
  <2> HIDE DEF e
  <2>2. encoder' = e
    BY <1>1, <1>6 DEF e
  <2> QED
    BY <1>1, <1>3, <1>4, <1>6, <2>1, <2>2 DEF VideoInv, VideoInForce, KeyFrameOnItsWay, k
<1> QED
  BY <1>5, <1>6

\* What a parameter makes of the encoder.
LEMMA VideoParameterIs ==
  ASSUME VideoInv, encoder # NoCodec, NEW key, NEW v \in Nat, NEW ok \in BOOLEAN,
         setVideoParameter(key, v, ok)
  PROVE  /\ encoder' \in Encoders
         /\ VideoInForce(encoder')
         /\ encoder.forceKeyFrame \/ key = "requestKeyFrame" => encoder'.forceKeyFrame
         /\ encoder'.lib.intra = encoder.lib.intra
<1>1. /\ encoder \in Encoders /\ VideoInForce(encoder) /\ library \in {"vpx", "av1", "h264"}
      /\ kbps(v) \in Nat
  BY VideoConstants, KbpsIs DEF VideoInv
<1>2. /\ library # "h264" => encoder' = vpxSetParameter(encoder, key, v, ok)
      /\ library = "h264" => encoder' = h264SetParameter(encoder, key, v, ok)
  BY <1>1 DEF setVideoParameter, av1SetParameter
<1>3. CASE library # "h264"
  <2> DEFINE k == kbps(v)
  <2>1. k \in Nat
    BY <1>1
  <2>2. encoder' = vpxSetParameter(encoder, key, v, ok)
    BY <1>2, <1>3
  <2>3. CASE key = "bitrate"
    <3>1. encoder' = [encoder EXCEPT !.cfgBitrate = k, !.bitrate = IF ok THEN v ELSE @,
                                     !.lib.bitrate = IF ok THEN k ELSE @]
      BY <2>2, <2>3 DEF vpxSetParameter
    <3> HIDE DEF k
    <3>2. /\ encoder' \in Encoders /\ encoder'.forceKeyFrame = encoder.forceKeyFrame
          /\ encoder'.lib.intra = encoder.lib.intra
          /\ encoder'.bitrate = (IF ok THEN v ELSE encoder.bitrate)
          /\ encoder'.lib.bitrate = (IF ok THEN k ELSE encoder.lib.bitrate)
          /\ encoder'.speed = encoder.speed /\ encoder'.lib.speed = encoder.lib.speed
      BY <1>1, <2>1, <3>1 DEF Encoders
    <3> QED
      BY <1>1, <1>3, <2>3, <3>2 DEF VideoInForce, k
  <2>4. CASE key # "bitrate"
    BY <1>1, <1>3, <2>2, <2>4 DEF vpxSetParameter, VideoInForce, Encoders
  <2> QED
    BY <2>3, <2>4
<1>4. CASE library = "h264"
  <2>1. encoder' = h264SetParameter(encoder, key, v, ok)
    BY <1>2, <1>4
  <2>2. CASE key = "bitrate" /\ ok
    <3>1. encoder' = [encoder EXCEPT !.bitrate = v, !.lib.bitrate = v]
      BY <2>1, <2>2 DEF h264SetParameter
    <3> QED
      BY <1>1, <1>4, <2>2, <3>1 DEF VideoInForce, Encoders
  <2>3. CASE key = "framerate" /\ ok
    <3>1. encoder' = [encoder EXCEPT !.framerate = v, !.lib.framerate = v]
      BY <2>1, <2>3 DEF h264SetParameter
    <3> QED
      BY <1>1, <1>4, <2>3, <3>1 DEF VideoInForce, Encoders
  <2>4. CASE key = "requestKeyFrame"
    <3>1. encoder' = [encoder EXCEPT !.forceKeyFrame = TRUE]
      BY <2>1, <2>4 DEF h264SetParameter
    <3> QED
      BY <1>1, <1>4, <2>4, <3>1 DEF VideoInForce, Encoders
  <2>5. CASE ~(key = "bitrate" /\ ok) /\ ~(key = "framerate" /\ ok) /\ key # "requestKeyFrame"
    <3>1. encoder' = encoder
      BY <2>1, <2>5 DEF h264SetParameter
    <3> QED
      BY <1>1, <2>5, <3>1
  <2> QED
    BY <2>2, <2>3, <2>4, <2>5
<1> QED
  BY <1>3, <1>4

LEMMA VideoParameterInv ==
  ASSUME VideoInv, NEW key, NEW v \in Nat, NEW ok \in BOOLEAN, setVideoParameter(key, v, ok),
         \/ UNCHANGED wanted
         \/ key = "requestKeyFrame" /\ wanted' = [key |-> TRUE, failed |-> FALSE]
  PROVE  VideoInv'
<1>1. encoder # NoCodec /\ encoded' = "nothing" /\ UNCHANGED <<library, factory, picture>>
  BY DEF setVideoParameter
<1>2. /\ encoder' \in Encoders /\ VideoInForce(encoder')
      /\ encoder.forceKeyFrame \/ key = "requestKeyFrame" => encoder'.forceKeyFrame
      /\ encoder'.lib.intra = encoder.lib.intra
  BY <1>1, VideoParameterIs
<1>3. VideoInForce(encoder)'
  BY <1>1, <1>2 DEF VideoInForce
<1>4. KeyFrameOnItsWay(encoder)'
  BY <1>1, <1>2 DEF KeyFrameOnItsWay, VideoInv
<1>5. KeyFrameFollowsRequest' /\ PictureOfThisPacket'
  BY <1>1 DEF VideoInv, KeyFrameFollowsRequest, PictureOfThisPacket
<1>6. wanted' \in [key : BOOLEAN, failed : BOOLEAN]
  <2>1. wanted \in [key : BOOLEAN, failed : BOOLEAN]
    BY DEF VideoInv
  <2>2. [key |-> TRUE, failed |-> FALSE] \in [key : BOOLEAN, failed : BOOLEAN]
    OBVIOUS
  <2> QED
    BY <2>1, <2>2
<1>7. library' \in Libraries /\ factory' \in Factories
  BY <1>1 DEF VideoInv
<1> QED
  BY <1>2, <1>3, <1>4, <1>5, <1>6, <1>7 DEF VideoInv

LEMMA FactoryInv ==
  ASSUME VideoInv, NEW key \in {"setVideoParams", "setDefaultBitrate", "setDefaultSpeed", "requestKeyFrame"},
         NEW v \in Bitrates \X Framerates \X Speeds, configureFactory(key, v), UNCHANGED wanted
  PROVE  VideoInv'
<1>1. UNCHANGED <<library, encoder, picture, encoded>> /\ library \in {"vpx", "av1", "h264"}
  BY VideoConstants DEF configureFactory, VideoInv
<1>2. v[1] \in Nat /\ v[2] \in Nat /\ v[3] \in Speeds /\ factory \in Factories
  BY VideoConstants DEF VideoInv
<1>3. factory' = IF library = "h264" /\ key = "setDefaultSpeed" THEN factory
                 ELSE vpxFactorySetters(key, v)
  BY <1>1 DEF configureFactory, av1FactorySetters, h264FactorySetters
<1>4. vpxFactorySetters(key, v) \in Factories
  BY <1>2 DEF vpxFactorySetters, Factories
<1>5. factory' \in Factories
  BY <1>2, <1>3, <1>4
<1> QED
  BY <1>1, <1>5 DEF VideoInv, VideoInForce, KeyFrameOnItsWay, KeyFrameFollowsRequest,
    PictureOfThisPacket

LEMMA EncodeInv ==
  ASSUME VideoInv, NEW whole \in BOOLEAN, encodePicture(whole),
         wanted' = IF encoded' = "key" THEN [key |-> FALSE, failed |-> FALSE]
                   ELSE [wanted EXCEPT !.failed = @ \/ (whole /\ encoded' = "nothing")]
  PROVE  VideoInv'
<1>1. /\ encoder # NoCodec /\ UNCHANGED <<library, factory, picture>>
      /\ library \in {"vpx", "av1", "h264"}
      /\ encoder \in Encoders /\ VideoInForce(encoder) /\ KeyFrameOnItsWay(encoder)
      /\ wanted \in [key : BOOLEAN, failed : BOOLEAN]
  BY VideoConstants DEF encodePicture, VideoInv
<1>2. /\ library # "h264" => vpxEncode(whole)
      /\ library = "h264" => h264Encode(whole)
  BY <1>1 DEF encodePicture, av1Encode
<1>3. PictureOfThisPacket'
  BY <1>1 DEF VideoInv, PictureOfThisPacket
<1> DEFINE bad == whole /\ encoded' = "nothing"
<1>4. bad \in BOOLEAN
  OBVIOUS
<1>5. wanted' = IF encoded' = "key" THEN [key |-> FALSE, failed |-> FALSE]
                ELSE [wanted EXCEPT !.failed = @ \/ bad]
  OBVIOUS
<1>6. ~whole => encoded' = "nothing" /\ encoder' = encoder
  BY <1>1, <1>2 DEF vpxEncode, h264Encode
<1>7. CASE ~whole
  <2>1. ~bad /\ wanted' = wanted
    BY <1>1, <1>5, <1>6, <1>7
  <2> QED
    BY <1>1, <1>3, <1>6, <1>7, <2>1 DEF VideoInv, VideoInForce, KeyFrameOnItsWay,
      KeyFrameFollowsRequest
<1>8. CASE whole
  <2> DEFINE intra == encoder.forceKeyFrame \/ encoder.lib.intra
             left == IF library = "h264" THEN intra ELSE encoder.lib.intra
             gone == left /\ encoded' = "nothing"
  <2>1. /\ encoded' \in Made(intra)
        /\ encoder' = [encoder EXCEPT !.forceKeyFrame = FALSE, !.lib.intra = gone]
    <3>1. CASE library # "h264"
      BY <1>1, <1>2, <1>8, <3>1 DEF vpxEncode
    <3>2. CASE library = "h264"
      BY <1>1, <1>2, <1>8, <3>2 DEF h264Encode
    <3> QED
      BY <3>1, <3>2
  <2>2. encoded' \in {"key", "delta", "nothing"} /\ (encoded' = "delta" => ~intra)
    BY <2>1 DEF Made
  <2>3. gone \in BOOLEAN
    BY <1>1 DEF Encoders
  <2>4. /\ wanted' \in [key : BOOLEAN, failed : BOOLEAN]
        /\ encoded' = "key" => ~wanted'.key
        /\ encoded' # "key" => wanted'.key = wanted.key
                               /\ (wanted'.failed <=> wanted.failed \/ encoded' = "nothing")
    <3>1. bad <=> encoded' = "nothing"
      BY <1>8
    <3> HIDE DEF bad
    <3>2. CASE encoded' = "key"
      BY <1>5, <3>2
    <3>3. CASE encoded' # "key"
      <4> DEFINE w == wanted.failed \/ bad
      <4>1. w \in BOOLEAN
        BY <1>1, <1>4
      <4>2. wanted' = [wanted EXCEPT !.failed = w]
        BY <1>5, <3>3
      <4>3. w <=> wanted.failed \/ encoded' = "nothing"
        BY <3>1
      <4> HIDE DEF w
      <4> QED
        BY <1>1, <3>3, <4>1, <4>2, <4>3
    <3> QED
      BY <3>2, <3>3
  <2>5. gone <=> left /\ encoded' = "nothing"
    OBVIOUS
  <2> HIDE DEF gone
  <2>6. /\ encoder' \in Encoders /\ (encoder'.lib.intra <=> gone)
        /\ encoder'.bitrate = encoder.bitrate /\ encoder'.framerate = encoder.framerate
        /\ encoder'.speed = encoder.speed /\ encoder'.lib.bitrate = encoder.lib.bitrate
        /\ encoder'.lib.framerate = encoder.lib.framerate
        /\ encoder'.lib.speed = encoder.lib.speed
    BY <1>1, <2>1, <2>3 DEF Encoders
  <2>7. VideoInForce(encoder)'
    BY <1>1, <2>6 DEF VideoInForce
  <2>8. KeyFrameOnItsWay(encoder)'
    BY <1>1, <2>2, <2>4, <2>5, <2>6 DEF KeyFrameOnItsWay
  <2>9. KeyFrameFollowsRequest'
    BY <1>1, <2>2, <2>4 DEF KeyFrameFollowsRequest, KeyFrameOnItsWay
  <2> QED
    BY <1>1, <1>3, <2>4, <2>6, <2>7, <2>8, <2>9 DEF VideoInv
<1> QED
  BY <1>7, <1>8

\* The planes of a picture fit into three halves of its area.
LEMMA PlanesFit ==
  ASSUME NEW w \in Nat, NEW h \in Nat
  PROVE  w * h + 2 * ((w \div 2) * (h \div 2)) <= (w * h * 3) \div 2
<1> DEFINE a == w \div 2
           b == h \div 2
           area == w * h
           chroma == a * b
<1>1. a \in Nat /\ b \in Nat /\ w >= 2 * a /\ h >= 2 * b
  OBVIOUS
<1>2. area \in Nat /\ chroma \in Nat
  BY <1>1
<1>3. area >= 4 * chroma
  <2> HIDE DEF a, b
  <2>1. w * h >= (2 * a) * h
    BY <1>1
  <2>2. (2 * a) * h >= (2 * a) * (2 * b)
    BY <1>1
  <2>3. (2 * a) * (2 * b) = 4 * (a * b)
    BY <1>1
  <2>4. (2 * a) * h \in Nat /\ w * h \in Nat /\ a * b \in Nat
    BY <1>1
  <2> QED
    BY <2>1, <2>2, <2>3, <2>4
<1> HIDE DEF area, chroma
<1>4. area + 2 * chroma <= (area * 3) \div 2
  BY <1>2, <1>3
<1> QED
  BY <1>4 DEF area, chroma

LEMMA PackedIs ==
  ASSUME NEW p \in Packets, NEW n
  PROVE  Packed(p, n, n).of = Packed(p, n, n).as /\ Packed(p, n, n).filled <= Packed(p, n, n).size
<1>1. p.width \in Nat /\ p.height \in Nat
  BY PacketAssumption
<1> QED
  BY <1>1, PlanesFit DEF Packed

LEMMA DecodeInv ==
  ASSUME VideoInv, NEW p \in Packets, decodePacket(p), UNCHANGED wanted
  PROVE  VideoInv'
<1> DEFINE n == (arrived + 1) % 3
<1>1. UNCHANGED <<library, factory, encoder>> /\ encoded' = "nothing"
      /\ library \in {"vpx", "av1", "h264"}
  BY VideoConstants DEF decodePacket, VideoInv
<1>2. picture' \in {NoPicture, Packed(p, n, n)}
  BY <1>1 DEF decodePacket, vpxDecode, h264Decode, av1Decode
<1> HIDE DEF n
<1>3. PictureOfThisPacket'
  BY <1>2, PackedIs DEF PictureOfThisPacket, NoPicture
<1> QED
  BY <1>1, <1>3 DEF VideoInv, VideoInForce, KeyFrameOnItsWay, KeyFrameFollowsRequest

LEMMA VideoStep == VideoInv /\ videoLeg => VideoInv'
<1> SUFFICES ASSUME VideoInv, videoLeg PROVE VideoInv'
  OBVIOUS
<1>1. CASE createEncoder /\ wanted' = [key |-> factory.pendingKeyFrame, failed |-> FALSE]
  BY <1>1, CreateEncoderInv
<1>2. CASE requestKeyFrame /\ wanted' = [key |-> TRUE, failed |-> FALSE]
  BY <1>2, VideoParameterInv DEF requestKeyFrame
<1>3. ASSUME NEW whole \in BOOLEAN, encodePicture(whole),
             wanted' = IF encoded' = "key" THEN [key |-> FALSE, failed |-> FALSE]
                       ELSE [wanted EXCEPT !.failed = @ \/ (whole /\ encoded' = "nothing")]
      PROVE  VideoInv'
  BY <1>3, EncodeInv
<1>4. CASE VideoControl /\ UNCHANGED wanted
  <2>1. ASSUME NEW key \in {"setVideoParams", "setDefaultBitrate", "setDefaultSpeed", "requestKeyFrame"},
               NEW v \in Bitrates \X Framerates \X Speeds, configureFactory(key, v)
        PROVE  VideoInv'
    BY <1>4, <2>1, FactoryInv
  <2>2. ASSUME NEW v \in Bitrates \cup Framerates \cup Speeds, NEW key, NEW ok \in BOOLEAN,
               setVideoParameter(key, v, ok)
        PROVE  VideoInv'
    <3>1. v \in Nat
      BY VideoConstants
    <3> QED
      BY <1>4, <2>2, <3>1, VideoParameterInv
  <2>3. ASSUME NEW p \in Packets, decodePacket(p) PROVE VideoInv'
    BY <1>4, <2>3, DecodeInv
  <2> QED
    BY <1>4, <2>1, <2>2, <2>3 DEF VideoControl
<1> QED
  BY <1>1, <1>2, <1>3, <1>4 DEF videoLeg

LEMMA VideoStands == VideoInv /\ UNCHANGED <<videoVars, wanted>> => VideoInv'
BY DEF VideoInv, VideoInForce, KeyFrameOnItsWay, KeyFrameFollowsRequest, PictureOfThisPacket,
  videoVars

-----------------------------------------------------------------------------
\* The clocks of a mixer's participant.
Clocks == [rate : Nat \ {0}, base : 0 .. Wrap - 1, anchor : Nat]

ClockInv ==
  /\ now \in Nat
  /\ clock # NoClock => /\ clock \in Clocks /\ clock.anchor <= now
                        /\ reference \in Clocks /\ reference.anchor <= now
  /\ reference # NoClock => reference \in Clocks /\ reference.anchor <= now
  /\ NoDriftNoCompensation

\* What a clock has counted does not depend on where its timestamps begin.
LEMMA CountedIs ==
  ASSUME NEW k \in Nat \ {0}, NEW b \in 0 .. k - 1, NEW q \in Nat
  PROVE  (((b + q) % k) - b) % k = q % k
<1> DEFINE m == (b + q) % k
           d == (b + q) \div k
           r == q % k
           e == q \div k
<1>1. m \in 0 .. k - 1 /\ d \in Int /\ b + q = k * d + m
  OBVIOUS
<1>2. r \in 0 .. k - 1 /\ e \in Int /\ q = k * e + r
  OBVIOUS
<1> HIDE DEF m, d, r, e
<1>3. m - b = k * (e - d) + r /\ e - d \in Int
  BY <1>1, <1>2
<1>4. (m - b) % k = r
  BY <1>2, <1>3, DivisionIs
<1> QED
  BY <1>4 DEF m, r

\* The units of time that have passed for a clock, and the samples it has counted in them.
Units(c) == (now - c.anchor) * c.rate
SamplesOf(c) == (toMediaTimestamp(c, now) - c.base) % Wrap

LEMMA SamplesAre ==
  ASSUME NEW c \in Clocks, now \in Nat, c.anchor <= now
  PROVE  /\ Units(c) \in Nat
         /\ SamplesOf(c) = (Units(c) \div Second) % Wrap /\ SamplesOf(c) \in 0 .. Wrap - 1
<1>1. /\ Wrap \in Nat \ {0} /\ Second \in Nat \ {0}
      /\ c.rate \in Nat /\ c.base \in 0 .. Wrap - 1 /\ c.anchor \in Nat
  BY ClockAssumption DEF Clocks
<1> DEFINE t == now - c.anchor
           u == Units(c)
           q == u \div Second
<1>2. t \in Nat
  BY <1>1
<1>3. u = t * c.rate
  BY DEF Units
<1>4. u \in Nat
  BY <1>1, <1>2, <1>3
<1>5. toMediaTimestamp(c, now) = (c.base + q) % Wrap
  BY DEF toMediaTimestamp, Units
<1> HIDE DEF t, u
<1>6. q \in Nat
  BY <1>1, <1>4
<1> HIDE DEF q
<1>7. (((c.base + q) % Wrap) - c.base) % Wrap = q % Wrap
  BY <1>1, <1>6, CountedIs
<1>8. q % Wrap \in 0 .. Wrap - 1
  BY <1>1, <1>6
<1> QED
  BY <1>4, <1>5, <1>7, <1>8 DEF u, q, SamplesOf

\* Two clocks that started together and run at one rate, or have counted exactly, agree.
LEMMA ClocksAgree ==
  ASSUME NEW c \in Clocks, NEW o \in Clocks, now \in Nat, c.anchor <= now,
         c.anchor = o.anchor, c.rate = o.rate \/ (Exact(c) /\ Exact(o))
  PROVE  SamplesOf(c) * o.rate - SamplesOf(o) * c.rate = 0
<1>1. /\ Wrap \in Nat \ {0} /\ Second \in Nat \ {0}
      /\ c.rate \in Nat /\ o.rate \in Nat /\ c.anchor \in Nat /\ now - c.anchor \in Nat
  BY ClockAssumption DEF Clocks
<1>2. /\ Units(c) \in Nat /\ SamplesOf(c) = (Units(c) \div Second) % Wrap
      /\ SamplesOf(c) \in 0 .. Wrap - 1
      /\ Units(o) \in Nat /\ SamplesOf(o) = (Units(o) \div Second) % Wrap
      /\ SamplesOf(o) \in 0 .. Wrap - 1
  BY SamplesAre
<1>3. CASE c.rate = o.rate
  <2>1. SamplesOf(c) = SamplesOf(o)
    BY <1>2, <1>3 DEF Units
  <2> DEFINE s == SamplesOf(c)
  <2>2. s * o.rate - s * o.rate = 0
    <3> HIDE DEF s
    <3>1. s \in Nat
      BY <1>1, <1>2 DEF s
    <3>2. s * o.rate \in Nat
      BY <1>1, <3>1
    <3> QED
      BY <3>2
  <2> QED
    BY <1>3, <2>1, <2>2
<1>4. CASE Exact(c) /\ Exact(o)
  <2> DEFINE s == SamplesOf(c)
             r == SamplesOf(o)
             t == now - c.anchor
             x == c.rate
             y == o.rate
  <2>1. Units(c) % Second = 0 /\ Units(c) < Wrap * Second
        /\ Units(o) % Second = 0 /\ Units(o) < Wrap * Second
    BY <1>4 DEF Exact, Units
  <2>2. ASSUME NEW u \in Nat, u % Second = 0, u < Wrap * Second
        PROVE  Second * ((u \div Second) % Wrap) = u
    <3> DEFINE q == u \div Second
    <3>1. q \in Nat /\ u = Second * q
      BY <1>1, <2>2
    <3> HIDE DEF q
    <3>2. q < Wrap
      <4> SUFFICES ASSUME q >= Wrap PROVE FALSE
        BY <1>1, <3>1
      <4>1. Second * q >= Second * Wrap
        BY <1>1, <3>1
      <4> QED
        BY <1>1, <2>2, <3>1, <4>1
    <3>3. q % Wrap = q
      BY <1>1, <3>1, <3>2
    <3> QED
      BY <3>1, <3>3 DEF q
  <2>3. Second * s = t * x /\ Second * r = t * y
    BY <1>2, <2>1, <2>2 DEF Units
  <2>4. s \in Nat /\ r \in Nat /\ t \in Nat /\ x \in Nat /\ y \in Nat
    BY <1>1, <1>2
  <2> HIDE DEF s, r, t, x, y
  <2>5. Second * (s * y) = Second * (r * x)
    <3>1. Second * (s * y) = (Second * s) * y
      BY <1>1, <2>4
    <3>2. Second * (r * x) = (Second * r) * x
      BY <1>1, <2>4
    <3>3. (t * x) * y = (t * y) * x
      BY <2>4
    <3> QED
      BY <2>3, <3>1, <3>2, <3>3
  <2>6. s * y \in Nat /\ r * x \in Nat
    BY <2>4
  <2> DEFINE g == s * y
             h == r * x
  <2> HIDE DEF g, h
  <2>7. g = h
    <3>1. Second * g = Second * h /\ g \in Nat /\ h \in Nat
      BY <2>5, <2>6 DEF g, h
    <3>2. Second * (g - h) = 0
      BY <1>1, <3>1
    <3> DEFINE e == g - h
    <3>3. e \in Int /\ Second * e = 0
      BY <3>1, <3>2
    <3> HIDE DEF e
    <3>4. e = 0
      <4>1. CASE e >= 1
        BY <1>1, <3>3, <4>1
      <4>2. CASE e <= -1
        BY <1>1, <3>3, <4>2
      <4> QED
        BY <3>3, <4>1, <4>2
    <3> QED
      BY <3>1, <3>4 DEF e
  <2> QED
    BY <2>6, <2>7 DEF g, h, s, r, x, y
<1> QED
  BY <1>3, <1>4

\* A frame that is pushed while the clocks are together stays as it is.
LEMMA NothingCompensated ==
  ASSUME ClockInv, NEW n, applyDriftCompensation(n), clock # NoClock,
         clock.anchor = reference.anchor,
         clock.rate = reference.rate \/ (Exact(clock) /\ Exact(reference))
  PROVE  frame' = [pushed |-> n, kept |-> n]
<1>1. /\ clock \in Clocks /\ reference \in Clocks /\ now \in Nat
      /\ clock.anchor <= now /\ reference.anchor <= now
      /\ Wrap \in Nat \ {0} /\ Parts \in Nat \ {0} /\ driftThreshold \in Nat \ {0}
  BY ClockAssumption, ThresholdAssumption DEF ClockInv
<1> DEFINE drift == driftPpm(clock, reference)
           that == SamplesOf(reference)
           x == clock.rate
<1>2. that \in 0 .. Wrap - 1 /\ x \in Nat \ {0}
  BY <1>1, SamplesAre DEF Clocks
<1>3. SamplesOf(clock) * reference.rate - that * x = 0
  BY <1>1, ClocksAgree
<1>4. drift = IF that = 0 THEN <<0, 1>> ELSE <<0, that * x>>
  BY <1>3 DEF driftPpm, SamplesOf
<1>5. drift[1] = 0 /\ drift[2] \in Nat \ {0}
  <2>1. CASE that = 0
    BY <1>4, <2>1
  <2>2. CASE that # 0
    <3> HIDE DEF that, x
    <3>1. that * x \in Nat \ {0}
      BY <1>1, <1>2, <2>2
    <3> QED
      BY <1>4, <2>2, <3>1
  <2> QED
    BY <2>1, <2>2
<1> HIDE DEF drift
<1>6. Abs(drift[1]) * Parts < driftThreshold * drift[2]
  <2>1. Abs(drift[1]) * Parts = 0
    BY <1>1, <1>5 DEF Abs
  <2>2. driftThreshold * drift[2] > 0
    BY <1>1, <1>5
  <2> QED
    BY <2>1, <2>2
<1> QED
  BY <1>6 DEF applyDriftCompensation, drift

LEMMA ClockInitInv == ClockInit /\ ~together => ClockInv
BY DEF ClockInit, ClockInv, NoDriftNoCompensation

LEMMA ClockStep == ClockInv /\ clockLeg => ClockInv'
<1> SUFFICES ASSUME ClockInv, clockLeg PROVE ClockInv'
  OBVIOUS
<1>1. CASE now' = now + 1 /\ UNCHANGED <<clock, reference, accumulated, frame, together>>
  <2>1. now \in Nat /\ now' \in Nat /\ \A a \in Nat : a <= now => a <= now'
    BY <1>1 DEF ClockInv
  <2>2. \A c \in Clocks : c.anchor \in Nat
    BY DEF Clocks
  <2> QED
    BY <1>1, <2>1, <2>2 DEF ClockInv, NoDriftNoCompensation
<1>2. ASSUME NEW rate \in Rates, NEW base \in BaseTimestamps, NEW t \in 0 .. now,
             setParticipantClock(NewClock(rate, base, t)), UNCHANGED together
      PROVE  ClockInv'
  <2>1. now \in Nat
    BY DEF ClockInv
  <2>2. NewClock(rate, base, t) \in Clocks /\ NewClock(rate, base, t).anchor <= now
    BY <2>1, ClockAssumption DEF NewClock, Clocks
  <2>3. NewClock(targetRate, 0, now) \in Clocks /\ NewClock(targetRate, 0, now).anchor <= now
    BY <2>1, ClockAssumption DEF NewClock, Clocks
  <2> QED
    BY <1>2, <2>1, <2>2, <2>3 DEF setParticipantClock, ClockInv, NoDriftNoCompensation
<1>3. CASE /\ pushAudio
           /\ together' = (/\ clock # NoClock /\ clock.anchor = reference.anchor
                           /\ \/ clock.rate = reference.rate
                              \/ Exact(clock) /\ Exact(reference))
  <2>1. PICK n \in FrameSizes : applyDriftCompensation(n)
    BY <1>3 DEF pushAudio
  <2>2. UNCHANGED <<now, clock, reference>>
    BY <1>3 DEF pushAudio
  <2>3. NoDriftNoCompensation'
    <3> SUFFICES ASSUME together' PROVE frame'.kept = frame'.pushed
      BY DEF NoDriftNoCompensation
    <3>1. /\ clock # NoClock /\ clock.anchor = reference.anchor
          /\ clock.rate = reference.rate \/ (Exact(clock) /\ Exact(reference))
      BY <1>3
    <3>2. frame' = [pushed |-> n, kept |-> n]
      BY <2>1, <3>1, NothingCompensated
    <3> QED
      BY <3>2
  <2> QED
    BY <2>2, <2>3 DEF ClockInv
<1> QED
  BY <1>1, <1>2, <1>3 DEF clockLeg, ClockControl

LEMMA ClockStands == ClockInv /\ UNCHANGED <<clockVars, together>> => ClockInv'
BY DEF ClockInv, NoDriftNoCompensation, clockVars

-----------------------------------------------------------------------------
\* The codecs of an audio leg; what each reports is what its library has in force.
Modes == {"encoder", "decoder"}
Plain == {Codec(n, m, NoParameters, NoParameters) : n \in {"PCMU", "PCMA", "G729"}, m \in Modes}
G722s == {Codec("G722", m, r, r) : m \in Modes, r \in [mode : Nat]}
AmrNbs ==
  {Codec("AMR", m, [bitrateMode |-> b, dtx |-> x], [dtx |-> x]) : m \in Modes, b \in Nat, x \in {0, 1}}
AmrWbs == {Codec("AMR-WB", m, o, NoParameters) : m \in Modes, o \in [bitrateMode : Nat, dtx : Nat]}
Ilbcs == {Codec("iLBC", m, r, r) : m \in Modes, r \in [frameMode : {20, 30}]}
Opuses ==
  {Codec("opus", m, NoParameters, l) : m \in Modes, l \in [OpusKeys -> OpusValues] \cup {NoParameters}}
AudioCodecs == Plain \cup G722s \cup AmrNbs \cup AmrWbs \cup Ilbcs \cup Opuses

InForce(c) == \A key \in DOMAIN c.lib : getParameter(c, key) = c.lib[key]

LEMMA CodecInForce == ASSUME NEW c \in AudioCodecs PROVE InForce(c)
<1>1. CASE c \in Plain
  BY <1>1 DEF Plain, InForce, Codec, NoParameters
<1>2. CASE c \in G722s
  <2>1. PICK m \in Modes, r \in [mode : Nat] : c = Codec("G722", m, r, r)
    BY <1>2 DEF G722s
  <2>2. c.name = "G722" /\ c.own = r /\ c.lib = r /\ DOMAIN r = {"mode"}
    BY <2>1 DEF Codec
  <2> QED
    BY <2>2 DEF InForce, getParameter, g722GetParameter
<1>3. CASE c \in AmrNbs
  <2>1. PICK m \in Modes, b \in Nat, x \in {0, 1} :
          c = Codec("AMR", m, [bitrateMode |-> b, dtx |-> x], [dtx |-> x])
    BY <1>3 DEF AmrNbs
  <2>2. c.name = "AMR" /\ c.own["dtx"] = x /\ c.lib["dtx"] = x /\ DOMAIN c.lib = {"dtx"}
    BY <2>1 DEF Codec
  <2> QED
    BY <2>2 DEF InForce, getParameter, amrNbGetParameter
<1>4. CASE c \in AmrWbs
  BY <1>4 DEF AmrWbs, InForce, Codec, NoParameters
<1>5. CASE c \in Ilbcs
  <2>1. PICK m \in Modes, r \in [frameMode : {20, 30}] : c = Codec("iLBC", m, r, r)
    BY <1>5 DEF Ilbcs
  <2>2. c.name = "iLBC" /\ c.own = r /\ c.lib = r /\ DOMAIN r = {"frameMode"}
    BY <2>1 DEF Codec
  <2> QED
    BY <2>2 DEF InForce, getParameter, ilbcGetParameter
<1>6. CASE c \in Opuses
  <2>1. c.name = "opus"
    BY <1>6 DEF Opuses, Codec
  <2> QED
    BY <2>1 DEF InForce, getParameter, opusGetParameter
<1> QED
  BY <1>1, <1>2, <1>3, <1>4, <1>5, <1>6 DEF AudioCodecs

LEMMA CreatedIs ==
  ASSUME NEW name \in CodecNames, NEW mode \in Modes, NEW arg \in Arguments,
         NEW c \in create(name, mode, arg)
  PROVE  c \in AudioCodecs
<1>1. /\ name \in {"PCMU", "PCMA", "G722", "AMR", "AMR-WB", "iLBC", "G729", "opus"}
      /\ arg \in Nat
  BY AudioAssumption
<1>2. CASE name \in {"PCMU", "PCMA"}
  <2>1. c = Codec(name, mode, NoParameters, NoParameters)
    BY <1>2 DEF create, g711Create
  <2>2. c \in Plain
    BY <1>2, <2>1 DEF Plain
  <2> QED
    BY <2>2 DEF AudioCodecs
<1>3. CASE name = "G722"
  <2> DEFINE r == [mode |-> g722SetDefaultMode(arg)]
  <2>1. c = Codec("G722", mode, r, r)
    BY <1>3 DEF create, g722Create
  <2>2. r \in [mode : Nat]
    BY DEF g722SetDefaultMode
  <2> HIDE DEF r
  <2>3. c \in G722s
    BY <2>1, <2>2 DEF G722s
  <2> QED
    BY <2>3 DEF AudioCodecs
<1>4. CASE name = "AMR"
  <2> DEFINE b == IF mode = "encoder" THEN amrNbSetDefaultMode(arg) ELSE 7
  <2>1. b \in Nat
    BY <1>1 DEF amrNbSetDefaultMode
  <2> HIDE DEF b
  <2>2. PICK x \in IF mode = "encoder" THEN {0, 1} ELSE {0} :
          c = Codec("AMR", mode, [bitrateMode |-> b, dtx |-> x], [dtx |-> x])
    BY <1>4 DEF create, amrNbCreate, b
  <2>3. x \in {0, 1}
    BY <2>2
  <2>4. c \in AmrNbs
    BY <2>1, <2>2, <2>3 DEF AmrNbs
  <2> QED
    BY <2>4 DEF AudioCodecs
<1>5. CASE name = "AMR-WB"
  <2> DEFINE b == IF mode = "encoder" THEN amrWbSetDefaultMode(arg) ELSE 8
  <2>1. b \in Nat
    BY <1>1 DEF amrWbSetDefaultMode
  <2> HIDE DEF b
  <2>2. PICK x \in IF mode = "encoder" THEN {0, 1} ELSE {0} :
          c = Codec("AMR-WB", mode, [bitrateMode |-> b, dtx |-> x], NoParameters)
    BY <1>5 DEF create, amrWbCreate, b
  <2> DEFINE o == [bitrateMode |-> b, dtx |-> x]
  <2>3. o \in [bitrateMode : Nat, dtx : Nat]
    BY <2>1, <2>2
  <2> HIDE DEF o
  <2>4. c \in AmrWbs
    BY <2>2, <2>3 DEF AmrWbs, o
  <2> QED
    BY <2>4 DEF AudioCodecs
<1>6. CASE name = "iLBC"
  <2> DEFINE r == [frameMode |-> ilbcSetDefaultFrameMode(arg)]
  <2>1. c = Codec("iLBC", mode, r, r)
    BY <1>6 DEF create, ilbcCreate
  <2>2. r \in [frameMode : {20, 30}]
    BY DEF ilbcSetDefaultFrameMode
  <2> HIDE DEF r
  <2>3. c \in Ilbcs
    BY <2>1, <2>2 DEF Ilbcs
  <2> QED
    BY <2>3 DEF AudioCodecs
<1>7. CASE name = "G729"
  <2>1. c = Codec("G729", mode, NoParameters, NoParameters)
    BY <1>7 DEF create, g729Create
  <2>2. c \in Plain
    BY <2>1 DEF Plain
  <2> QED
    BY <2>2 DEF AudioCodecs
<1>8. CASE name = "opus"
  <2>1. PICK l \in [OpusKeys -> OpusValues] \cup {NoParameters} :
          c = Codec("opus", mode, NoParameters, l)
    BY <1>8 DEF create, opusCreate
  <2>2. c \in Opuses
    BY <2>1 DEF Opuses
  <2> QED
    BY <2>2 DEF AudioCodecs
<1> QED
  BY <1>1, <1>2, <1>3, <1>4, <1>5, <1>6, <1>7, <1>8

LEMMA ParameterSetIs ==
  ASSUME NEW c \in AudioCodecs, NEW key, NEW v \in Values, NEW ok \in BOOLEAN
  PROVE  withParameter(c, key, v, ok) \in AudioCodecs
<1> DEFINE w == withParameter(c, key, v, ok)
<1>0. v \in Nat
  BY AudioAssumption
<1>1. CASE c \in Plain
  <2>1. w = c
    BY <1>1 DEF Plain, Codec, withParameter
  <2> QED
    BY <2>1
<1>2. CASE c \in G722s
  <2>1. PICK m \in Modes, r \in [mode : Nat] : c = Codec("G722", m, r, r)
    BY <1>2 DEF G722s
  <2>2. w = g722SetParameter(c, key, v, ok)
    BY <2>1 DEF Codec, withParameter
  <2> DEFINE s == [mode |-> v]
  <2>3. w = c \/ w = [c EXCEPT !.own.mode = v, !.lib.mode = v]
    BY <2>2 DEF g722SetParameter
  <2>4. [r EXCEPT !.mode = v] = s /\ s \in [mode : Nat]
    BY <1>0
  <2>5. w = c \/ w = Codec("G722", m, s, s)
    BY <2>1, <2>3, <2>4 DEF Codec
  <2> HIDE DEF s, w
  <2>6. w \in G722s
    BY <1>2, <2>4, <2>5 DEF G722s
  <2> QED
    BY <2>6 DEF AudioCodecs, w
<1>3. CASE c \in AmrNbs
  <2>1. PICK m \in Modes, b \in Nat, x \in {0, 1} :
          c = Codec("AMR", m, [bitrateMode |-> b, dtx |-> x], [dtx |-> x])
    BY <1>3 DEF AmrNbs
  <2> DEFINE y == IF v = 0 THEN 0 ELSE 1
  <2>2. w = amrNbSetParameter(c, key, v, ok)
    BY <2>1 DEF Codec, withParameter
  <2>3. w \in {c, [c EXCEPT !.own.bitrateMode = v], [c EXCEPT !.own.dtx = y, !.lib.dtx = y]}
    BY <2>2 DEF amrNbSetParameter
  <2>4. y \in {0, 1}
    OBVIOUS
  <2> HIDE DEF y, w
  <2>5. \/ w = c
        \/ w = Codec("AMR", m, [bitrateMode |-> v, dtx |-> x], [dtx |-> x])
        \/ w = Codec("AMR", m, [bitrateMode |-> b, dtx |-> y], [dtx |-> y])
    BY <2>1, <2>3 DEF Codec
  <2>6. w \in AmrNbs
    BY <1>0, <1>3, <2>1, <2>4, <2>5 DEF AmrNbs
  <2> QED
    BY <2>6 DEF AudioCodecs, w
<1>4. CASE c \in AmrWbs
  <2>1. PICK m \in Modes, o \in [bitrateMode : Nat, dtx : Nat] : c = Codec("AMR-WB", m, o, NoParameters)
    BY <1>4 DEF AmrWbs
  <2> DEFINE y == IF v = 0 THEN 0 ELSE 1
  <2>2. w = amrWbSetParameter(c, key, v)
    BY <2>1 DEF Codec, withParameter
  <2>3. w \in {c, [c EXCEPT !.own.bitrateMode = v], [c EXCEPT !.own.dtx = y]}
    BY <2>2 DEF amrWbSetParameter
  <2>4. y \in Nat
    OBVIOUS
  <2> HIDE DEF y, w
  <2> DEFINE o1 == [o EXCEPT !.bitrateMode = v]
             o2 == [o EXCEPT !.dtx = y]
  <2>5. \/ w = c
        \/ w = Codec("AMR-WB", m, o1, NoParameters)
        \/ w = Codec("AMR-WB", m, o2, NoParameters)
    BY <2>1, <2>3 DEF Codec
  <2>6. o1 \in [bitrateMode : Nat, dtx : Nat] /\ o2 \in [bitrateMode : Nat, dtx : Nat]
    BY <1>0, <2>4
  <2> HIDE DEF o1, o2
  <2>7. w \in AmrWbs
    BY <1>4, <2>5, <2>6 DEF AmrWbs
  <2> QED
    BY <2>7 DEF AudioCodecs, w
<1>5. CASE c \in Ilbcs
  <2>1. PICK m \in Modes, r \in [frameMode : {20, 30}] : c = Codec("iLBC", m, r, r)
    BY <1>5 DEF Ilbcs
  <2>2. w = ilbcSetParameter(c, key, v, ok)
    BY <2>1 DEF Codec, withParameter
  <2> DEFINE s == [frameMode |-> v]
  <2>3. w = c \/ (v \in {20, 30} /\ w = [c EXCEPT !.own.frameMode = v, !.lib.frameMode = v])
    BY <2>2 DEF ilbcSetParameter
  <2>4. [r EXCEPT !.frameMode = v] = s /\ (v \in {20, 30} => s \in [frameMode : {20, 30}])
    OBVIOUS
  <2>5. w = c \/ (v \in {20, 30} /\ w = Codec("iLBC", m, s, s))
    BY <2>1, <2>3, <2>4 DEF Codec
  <2> HIDE DEF s, w
  <2>6. w \in Ilbcs
    BY <1>5, <2>4, <2>5 DEF Ilbcs
  <2> QED
    BY <2>6 DEF AudioCodecs, w
<1>6. CASE c \in Opuses
  <2>1. PICK m \in Modes, l \in [OpusKeys -> OpusValues] \cup {NoParameters} :
          c = Codec("opus", m, NoParameters, l)
    BY <1>6 DEF Opuses
  <2>2. w = opusSetParameter(c, key, v, ok)
    BY <2>1 DEF Codec, withParameter
  <2> DEFINE k == [l EXCEPT ![key] = v]
  <2>3. w = c \/ (v \in OpusValues /\ w = [c EXCEPT !.lib[key] = v])
    BY <2>2 DEF opusSetParameter
  <2>4. v \in OpusValues => k \in [OpusKeys -> OpusValues] \cup {NoParameters}
    <3>1. CASE l \in [OpusKeys -> OpusValues]
      BY <3>1
    <3>2. CASE l = NoParameters
      BY <3>2 DEF NoParameters
    <3> QED
      BY <3>1, <3>2
  <2>5. w = c \/ (v \in OpusValues /\ w = Codec("opus", m, NoParameters, k))
    BY <2>1, <2>3 DEF Codec
  <2> HIDE DEF k, w
  <2>6. w \in Opuses
    BY <1>6, <2>4, <2>5 DEF Opuses
  <2> QED
    BY <2>6 DEF AudioCodecs, w
<1> QED
  BY <1>1, <1>2, <1>3, <1>4, <1>5, <1>6 DEF AudioCodecs

\* Samples to a millisecond.
Khz(name) == clockRate(name) \div 1000

LEMMA NamesAre ==
  ASSUME NEW c \in AudioCodecs
  PROVE  /\ c.name \in {"PCMU", "PCMA", "G722", "AMR", "AMR-WB", "iLBC", "G729", "opus"}
         /\ c.name = "iLBC" => c.own.frameMode \in {20, 30} /\ c.lib.frameMode = c.own.frameMode
<1>1. CASE c \in Ilbcs
  <2>1. PICK m \in Modes, r \in [frameMode : {20, 30}] : c = Codec("iLBC", m, r, r)
    BY <1>1 DEF Ilbcs
  <2> QED
    BY <2>1 DEF Codec
<1>2. CASE c \in Plain \cup Opuses
  BY <1>2 DEF Plain, Opuses, Codec
<1>3. CASE c \in G722s \cup AmrNbs \cup AmrWbs
  BY <1>3 DEF G722s, AmrNbs, AmrWbs, Codec
<1> QED
  BY <1>1, <1>2, <1>3 DEF AudioCodecs

LEMMA RatesAre ==
  ASSUME NEW c \in AudioCodecs
  PROVE  /\ clockRate(c.name) \in {8000, 16000, 48000} /\ Khz(c.name) \in {8, 16, 48}
         /\ clockRate(c.name) = 1000 * Khz(c.name)
         /\ c.name # "G722" => audioRate(c.name) = clockRate(c.name)
BY DEF Khz, clockRate, audioRate

\* What becomes of a packet of ms milliseconds: decoded or concealed, it lasts k.
Audible(c, ms, readable) ==
  LET n == (ms * audioRate(c.name)) \div 1000
  IN  IF decode(c, n, readable) # Nothing THEN decode(c, n, readable)
      ELSE plc(c, clockRate(c.name) \div 50)

LEMMA DecodedIs ==
  ASSUME NEW c \in AudioCodecs, c.name # "G722", NEW ms \in Nat, NEW readable \in BOOLEAN,
         c.name = "iLBC" => ms % c.own.frameMode = 0,
         c.name \in {"AMR", "AMR-WB"} => ms = 20
  PROVE  \E k \in Nat : /\ Audible(c, ms, readable) = Khz(c.name) * k
                        /\ ms = 20 => k = 20
                        /\ ms >= 20 /\ readable => k <= ms
<1> DEFINE n == (ms * audioRate(c.name)) \div 1000
           pcm == Audible(c, ms, readable)
<1>7. /\ n = (ms * audioRate(c.name)) \div 1000
      /\ pcm = IF decode(c, n, readable) # Nothing THEN decode(c, n, readable)
              ELSE plc(c, clockRate(c.name) \div 50)
  BY DEF Audible
<1> SUFFICES \E k \in Nat : /\ pcm = Khz(c.name) * k
                            /\ ms = 20 => k = 20
                            /\ ms >= 20 /\ readable => k <= ms
  OBVIOUS
<1> HIDE DEF n, pcm
<1>0. \A x \in Nat : x # Nothing
  BY AudioAssumption
<1>1. CASE c.name \in {"PCMU", "PCMA"}
  <2>1. Khz(c.name) = 8 /\ n = 8 * ms /\ n \in Nat
    BY <1>1, <1>7 DEF Khz, clockRate, audioRate
  <2>2. pcm = n
    BY <1>0, <1>1, <1>7, <2>1 DEF decode, g711Decode
  <2> QED
    BY <2>1, <2>2
<1>2. CASE c.name = "AMR"
  BY <1>0, <1>2, <1>7 DEF Khz, clockRate, decode, amrNbDecode
<1>3. CASE c.name = "AMR-WB"
  BY <1>0, <1>3, <1>7 DEF Khz, clockRate, decode, amrWbDecode
<1>4. CASE c.name = "G729"
  <2>1. Khz(c.name) = 8 /\ clockRate(c.name) \div 50 = 160
    BY <1>4 DEF Khz, clockRate
  <2>6. 160 \div 80 = 2
    OBVIOUS
  <2>2. Min({160 \div 80, 2}) = 2
    BY <2>6, MinIs
  <2>3. Max({1, 2}) = 2
    BY MaxIs
  <2>4. g729Plc(160) = 160
    <3>1. Max({1, Min({160 \div 80, 2})}) = 2
      BY <2>2, <2>3
    <3> QED
      BY <3>1 DEF g729Plc
  <2>5. pcm = 160
    BY <1>0, <1>4, <1>7, <2>1, <2>4 DEF decode, plc, g729Decode
  <2> QED
    BY <2>1, <2>5
<1>5. CASE c.name = "iLBC"
  <2> DEFINE f == c.own.frameMode
             S == {k * 8 * c.lib.frameMode : k \in 1 .. 3}
  <2>1. f \in {20, 30} /\ c.lib.frameMode = f /\ Khz(c.name) = 8 /\ n = 8 * ms /\ ms % f = 0
    BY <1>5, <1>7, NamesAre DEF Khz, clockRate, audioRate
  <2>2. 160 \in {k * 8 * 20 : k \in 1 .. 3}
    <3>1. 160 = 1 * 8 * 20 /\ 1 \in 1 .. 3
      OBVIOUS
    <3> QED
      BY <3>1
  <2>3. decode(c, n, readable) = IF readable /\ n \in S THEN n ELSE Nothing
    BY <1>5 DEF decode, ilbcDecode
  <2>4. plc(c, clockRate(c.name) \div 50) = 8 * f
    BY <1>5 DEF plc, ilbcPlc
  <2>5. f = 20 => 160 \in S
    BY <2>1, <2>2
  <2> HIDE DEF S, f
  <2>6. n \in Nat /\ n # Nothing
    BY <1>0, <2>1
  <2>7. pcm = IF readable /\ n \in S THEN 8 * ms ELSE 8 * f
    BY <1>7, <2>1, <2>3, <2>4, <2>6
  <2>8. /\ ms = 20 => f = 20
        /\ ms >= 20 => f <= ms
    BY <2>1
  <2>9. CASE readable /\ n \in S
    <3>1. pcm = Khz(c.name) * ms
      BY <2>1, <2>7, <2>9
    <3> QED
      BY <3>1
  <2>10. CASE ~(readable /\ n \in S)
    <3>1. pcm = Khz(c.name) * f /\ f \in Nat
      BY <2>1, <2>7, <2>10
    <3> QED
      BY <2>8, <3>1
  <2> QED
    BY <2>9, <2>10
<1>6. CASE c.name = "opus"
  <2>1. Khz(c.name) = 48 /\ clockRate(c.name) \div 50 = 960 /\ n = 48 * ms /\ n \in Nat
    BY <1>6, <1>7 DEF Khz, clockRate, audioRate
  <2>2. pcm = IF readable /\ n <= 960 THEN n ELSE 960
    <3>1. decode(c, n, readable) = IF readable /\ n <= 960 THEN n ELSE Nothing
      BY <1>6 DEF decode, opusDecode
    <3>2. plc(c, clockRate(c.name) \div 50) = 960
      BY <1>6, <2>1 DEF plc, opusPlc
    <3> QED
      BY <1>0, <1>7, <2>1, <3>1, <3>2
  <2>3. CASE readable /\ n <= 960
    BY <2>1, <2>2, <2>3
  <2>4. CASE ~(readable /\ n <= 960)
    <3>1. pcm = Khz(c.name) * 20 /\ 20 \in Nat
      BY <2>1, <2>2, <2>4
    <3> QED
      BY <3>1
  <2> QED
    BY <2>3, <2>4
<1> QED
  BY <1>1, <1>2, <1>3, <1>4, <1>5, <1>6, NamesAre

\* The resampler keeps 20 ms, and makes nothing longer.
LEMMA ResampledIs ==
  ASSUME dec \in AudioCodecs, enc \in AudioCodecs, resampleBuf = initPipeline(dec, enc),
         NEW k \in Nat, NEW m, m = resampled(Khz(dec.name) * k)
  PROVE  /\ m \in Nat /\ m <= Khz(enc.name) * k
         /\ k = 20 => m = Khz(enc.name) * 20
<1> DEFINE r == Khz(dec.name)
           t == Khz(enc.name)
           x == ((r * k) * clockRate(enc.name)) \div clockRate(dec.name)
           buf == estimateOutputSamples(clockRate(dec.name) \div 50, clockRate(dec.name), clockRate(enc.name)) + 16
<1>1. /\ r \in {8, 16, 48} /\ t \in {8, 16, 48}
      /\ clockRate(dec.name) = 1000 * r /\ clockRate(enc.name) = 1000 * t
  BY RatesAre
<1>2. resampleBuf = IF r = t THEN Nothing ELSE buf
  BY <1>1 DEF initPipeline
<1>3. buf = 20 * t + 16 /\ x = t * k
  <2> HIDE DEF r, t
  <2>1. CASE r = 8
    BY <1>1, <2>1 DEF estimateOutputSamples
  <2>2. CASE r = 16
    BY <1>1, <2>2 DEF estimateOutputSamples
  <2>3. CASE r = 48
    BY <1>1, <2>3 DEF estimateOutputSamples
  <2> QED
    BY <1>1, <2>1, <2>2, <2>3
<1>4. m = IF resampleBuf = Nothing THEN r * k ELSE Min({resampleBuf, x})
  BY DEF resampled
<1> HIDE DEF r, t, x, buf
<1>5. CASE r = t
  <2>1. m = t * k
    BY <1>2, <1>4, <1>5
  <2> QED
    BY <1>1, <2>1 DEF t
<1>6. CASE r # t
  <2>1. buf \in Nat /\ x \in Nat /\ buf # Nothing
    BY <1>1, <1>3, AudioAssumption
  <2>2. m = IF buf <= x THEN buf ELSE x
    BY <1>2, <1>4, <1>6, <2>1, MinIs
  <2> QED
    BY <1>1, <1>3, <2>1, <2>2 DEF t
<1> QED
  BY <1>5, <1>6

\* An encoder takes 20 ms whole, unless its frames last 30, and adds to nothing.
LEMMA EncodedIs ==
  ASSUME NEW c \in AudioCodecs, c.name # "G722", NEW k \in Nat, NEW m \in Nat,
         m <= Khz(c.name) * k, k = 20 => m = Khz(c.name) * 20,
         NEW p, p = encode(c, m)
  PROVE  /\ p # Nothing => Ms(p, c) \in Nat /\ Ms(p, c) <= k
         /\ k = 20 /\ (c.name = "iLBC" => c.lib.frameMode = 20) => p # Nothing /\ Ms(p, c) = 20
<1> DEFINE t == Khz(c.name)
<1>1. t \in {8, 16, 48} /\ audioRate(c.name) = 1000 * t
  BY RatesAre
<1>0. \A x \in Nat : x # Nothing
  BY AudioAssumption
<1>2. ASSUME NEW q \in Nat, q <= m PROVE Ms(q, c) \in Nat /\ Ms(q, c) <= k
  <2>1. Ms(q, c) = (q * 1000) \div (1000 * t)
    BY <1>1 DEF Ms
  <2> HIDE DEF t
  <2>2. q <= t * k
    BY <1>1, <1>2 DEF t
  <2>3. CASE t = 8
    BY <1>2, <2>1, <2>2, <2>3
  <2>4. CASE t = 16
    BY <1>2, <2>1, <2>2, <2>4
  <2>5. CASE t = 48
    BY <1>2, <2>1, <2>2, <2>5
  <2> QED
    BY <1>1, <2>3, <2>4, <2>5
<1>3. Ms(20 * t, c) = 20
  <2>1. Ms(20 * t, c) = ((20 * t) * 1000) \div (1000 * t)
    BY <1>1 DEF Ms
  <2> HIDE DEF t
  <2> QED
    BY <1>1, <2>1
<1>4. SUFFICES /\ p # Nothing => p \in Nat /\ p <= m
               /\ k = 20 /\ (c.name = "iLBC" => c.lib.frameMode = 20) => p # Nothing /\ p = 20 * t
  BY <1>2, <1>3
<1>5. k = 20 => m = 20 * t
  BY <1>1
<1>6. CASE c.name \in {"PCMU", "PCMA"}
  BY <1>0, <1>5, <1>6 DEF encode, g711Encode
<1>7. CASE c.name \in {"AMR", "G729"}
  <2>1. t = 8 /\ p = IF m >= 160 THEN 160 ELSE Nothing
    BY <1>7 DEF Khz, clockRate, encode, amrNbEncode, g729Encode
  <2> QED
    BY <1>0, <1>5, <2>1
<1>8. CASE c.name = "AMR-WB"
  <2>1. t = 16 /\ p = IF m >= 320 THEN 320 ELSE Nothing
    BY <1>8 DEF Khz, clockRate, encode, amrWbEncode
  <2> QED
    BY <1>0, <1>5, <2>1
<1>9. CASE c.name = "iLBC"
  <2> DEFINE S == {j * 8 * c.lib.frameMode : j \in 1 .. 3}
  <2>1. t = 8 /\ p = IF m \in S THEN m ELSE Nothing
    BY <1>9 DEF Khz, clockRate, encode, ilbcEncode
  <2>2. 160 \in {j * 8 * 20 : j \in 1 .. 3}
    <3>1. 160 = 1 * 8 * 20 /\ 1 \in 1 .. 3
      OBVIOUS
    <3> QED
      BY <3>1
  <2>3. c.lib.frameMode = 20 => 160 \in S
    BY <2>2
  <2> HIDE DEF S
  <2> QED
    BY <1>0, <1>5, <1>9, <2>1, <2>3
<1>10. CASE c.name = "opus"
  <2>1. t = 48 /\ p = IF m \in {120, 240, 480, 960, 1920, 2880, 3840, 4800, 5760} THEN m ELSE Nothing
    BY <1>10 DEF Khz, clockRate, encode, opusEncode
  <2> QED
    BY <1>0, <1>5, <2>1
<1> QED
  BY <1>6, <1>7, <1>8, <1>9, <1>10, NamesAre

TransInv ==
  /\ dec \in AudioCodecs \cup {Nothing} /\ enc \in AudioCodecs \cup {Nothing}
  /\ inService => dec # Nothing /\ enc # Nothing /\ resampleBuf = initPipeline(dec, enc)
  /\ ~inService => last = NoPacket
  /\ FrameDurationKept

LEMMA TransInitInv == TransInit => TransInv
BY DEF TransInit, TransInv, FrameDurationKept

LEMMA PacketInv ==
  ASSUME TransInv, NEW ms \in FrameMs, NEW readable \in BOOLEAN, NEW refused \in BOOLEAN,
         Sent(ms), incoming(ms, readable, refused)
  PROVE  TransInv'
<1> DEFINE n == (ms * audioRate(dec.name)) \div 1000
           pcm == IF decode(dec, n, readable) # Nothing THEN decode(dec, n, readable)
                  ELSE plc(dec, clockRate(dec.name) \div 50)
           coded == encode(enc, resampled(pcm))
           packet == IF refused THEN Nothing ELSE coded
           o == IF packet = Nothing THEN 0 ELSE Ms(packet, enc)
<1>1. /\ inService /\ UNCHANGED <<dec, enc, inService, resampleBuf>>
      /\ last' = [in |-> ms, readable |-> readable, refused |-> refused, out |-> o]
  BY DEF incoming
<1>2. /\ dec \in AudioCodecs /\ enc \in AudioCodecs /\ resampleBuf = initPipeline(dec, enc)
      /\ ms \in Nat
  BY <1>1, FrameMsAssumption DEF TransInv
<1>3. SUFFICES ASSUME dec.name # "G722", enc.name # "G722"
               PROVE  /\ ms = 20 /\ (enc.name = "iLBC" => enc.lib.frameMode = 20) =>
                           o = IF refused THEN 0 ELSE 20
                      /\ ms >= 20 /\ readable => o <= ms
  BY <1>1, <1>2 DEF TransInv, FrameDurationKept
<1>4. /\ dec.name = "iLBC" => ms % dec.own.frameMode = 0
      /\ dec.name \in {"AMR", "AMR-WB"} => ms = 20
  BY DEF Sent
<1>5. PICK k \in Nat : /\ pcm = Khz(dec.name) * k
                       /\ ms = 20 => k = 20
                       /\ ms >= 20 /\ readable => k <= ms
  <2>1. pcm = Audible(dec, ms, readable)
    BY DEF Audible
  <2> HIDE DEF pcm
  <2> QED
    BY <1>2, <1>3, <1>4, <2>1, DecodedIs
<1> HIDE DEF pcm
<1> DEFINE m == resampled(pcm)
<1>6. m \in Nat /\ m <= Khz(enc.name) * k /\ (k = 20 => m = Khz(enc.name) * 20)
  <2>1. m = resampled(Khz(dec.name) * k)
    BY <1>5
  <2> HIDE DEF m
  <2> QED
    BY <1>2, <2>1, ResampledIs
<1>7. coded = encode(enc, m)
  OBVIOUS
<1> HIDE DEF m, coded
<1>8. /\ coded # Nothing => Ms(coded, enc) \in Nat /\ Ms(coded, enc) <= k
      /\ k = 20 /\ (enc.name = "iLBC" => enc.lib.frameMode = 20) =>
           coded # Nothing /\ Ms(coded, enc) = 20
  BY <1>2, <1>3, <1>6, <1>7, EncodedIs
<1>9. o = IF refused \/ coded = Nothing THEN 0 ELSE Ms(coded, enc)
  OBVIOUS
<1> HIDE DEF o
<1> QED
  BY <1>2, <1>5, <1>8, <1>9

LEMMA TransStep == TransInv /\ transcodingLeg => TransInv'
<1> SUFFICES ASSUME TransInv, transcodingLeg PROVE TransInv'
  OBVIOUS
<1>1. ASSUME NEW mode \in {"encoder", "decoder"}, NEW name \in CodecNames, NEW arg \in Arguments,
             NEW c \in create(name, mode, arg), provideCodec(mode, c)
      PROVE  TransInv'
  <2>1. c \in AudioCodecs
    BY CreatedIs DEF Modes
  <2> QED
    BY <1>1, <2>1 DEF provideCodec, TransInv, FrameDurationKept
<1>2. ASSUME NEW key, NEW v \in Values, NEW ok \in BOOLEAN, setParameter(key, v, ok)
      PROVE  TransInv'
  <2>1. ~inService /\ UNCHANGED <<inService, last>>
    BY <1>2 DEF setParameter
  <2>2. /\ dec' \in AudioCodecs \cup {Nothing} /\ enc' \in AudioCodecs \cup {Nothing}
    BY <1>2, ParameterSetIs DEF setParameter, TransInv
  <2> QED
    BY <2>1, <2>2 DEF TransInv, FrameDurationKept
<1>3. CASE swapCodecs
  BY <1>3 DEF swapCodecs, TransInv, FrameDurationKept
<1>4. ASSUME NEW ms \in FrameMs, NEW readable \in BOOLEAN, NEW refused \in BOOLEAN,
             Sent(ms), incoming(ms, readable, refused)
      PROVE  TransInv'
  BY <1>4, PacketInv
<1> QED
  BY <1>1, <1>2, <1>3, <1>4 DEF transcodingLeg, TransNext

LEMMA TransStands == TransInv /\ UNCHANGED transVars => TransInv'
BY DEF TransInv, FrameDurationKept, transVars

-----------------------------------------------------------------------------
\* The legs share nothing.
LegsInv == VideoInv /\ TransInv /\ ClockInv

LEMMA LegsInvariance == LegsSpec => []LegsInv
<1>1. LegsInit => LegsInv
  BY VideoInitInv, TransInitInv, ClockInitInv DEF LegsInit, LegsInv
<1>2. LegsInv /\ [LegsNext]_legsVars => LegsInv'
  <2> SUFFICES ASSUME LegsInv, [LegsNext]_legsVars PROVE LegsInv'
    OBVIOUS
  <2>1. CASE videoLeg
    <3>1. UNCHANGED <<transVars, clockVars, together>>
      BY <2>1 DEF videoLeg
    <3> QED
      BY <2>1, <3>1, VideoStep, TransStands, ClockStands DEF LegsInv
  <2>2. CASE transcodingLeg
    <3>1. UNCHANGED <<videoVars, clockVars, wanted, together>>
      BY <2>2 DEF transcodingLeg
    <3> QED
      BY <2>2, <3>1, VideoStands, TransStep, ClockStands DEF LegsInv
  <2>3. CASE samplesLeg
    <3>1. UNCHANGED <<videoVars, transVars, clockVars, wanted, together>>
      BY <2>3 DEF samplesLeg
    <3> QED
      BY <3>1, VideoStands, TransStands, ClockStands DEF LegsInv
  <2>4. CASE clockLeg
    <3>1. UNCHANGED <<videoVars, transVars, wanted>>
      BY <2>4 DEF clockLeg
    <3> QED
      BY <2>4, <3>1, VideoStands, TransStands, ClockStep DEF LegsInv
  <2>5. CASE UNCHANGED legsVars
    <3>1. UNCHANGED <<videoVars, transVars, clockVars, wanted, together>>
      BY <2>5 DEF legsVars
    <3> QED
      BY <3>1, VideoStands, TransStands, ClockStands DEF LegsInv
  <2> QED
    BY <2>1, <2>2, <2>3, <2>4, <2>5 DEF LegsNext
<1> QED
  BY <1>1, <1>2, PTL DEF LegsSpec

-----------------------------------------------------------------------------
\* A key frame that was asked for is the next frame to leave, as far as each encoder
\* carries the request.
THEOREM KeyFrameFollows == LegsSpec => []KeyFrameFollowsRequest
<1>1. LegsInv => KeyFrameFollowsRequest
  BY DEF LegsInv, VideoInv
<1> QED
  BY <1>1, LegsInvariance, PTL

\* getParameter() tells of every codec what its library works with, whichever calls the
\* library refused.
THEOREM ReportedInForce == LegsSpec => []ReportedIsInForce
<1>1. LegsInv => ReportedIsInForce
  <2> SUFFICES ASSUME LegsInv PROVE ReportedIsInForce
    OBVIOUS
  <2>1. ASSUME encoder # NoCodec
        PROVE  IF library = "h264"
               THEN \A key \in {"bitrate", "framerate"} : getVideoParameter(key) = encoder.lib[key]
               ELSE /\ kbps(getVideoParameter("bitrate")) = encoder.lib.bitrate
                    /\ getVideoParameter("speed") \in {encoder.lib.speed} \cup (Speeds \ ValidSpeeds)
    <3>1. VideoInForce(encoder) /\ library \in {"vpx", "av1", "h264"}
      BY <2>1, VideoConstants DEF LegsInv, VideoInv
    <3> QED
      BY <3>1 DEF VideoInForce, getVideoParameter, vpxGetParameter, av1GetParameter, h264GetParameter
  <2>2. ASSUME NEW c \in {dec, enc} \ {Nothing} PROVE InForce(c)
    <3>1. c \in AudioCodecs
      BY DEF LegsInv, TransInv
    <3> QED
      BY <3>1, CodecInForce
  <2> QED
    BY <2>1, <2>2 DEF ReportedIsInForce, InForce
<1> QED
  BY <1>1, LegsInvariance, PTL

\* decode() returns no picture of an earlier packet, and none larger than its buffer.
THEOREM PictureOfPacket == LegsSpec => []PictureOfThisPacket
<1>1. LegsInv => PictureOfThisPacket
  BY DEF LegsInv, VideoInv
<1> QED
  BY <1>1, LegsInvariance, PTL

\* For any pair of codecs but G.722, however they were configured, a packet of 20 ms is as
\* long after decoding or concealment, resampling and encoding, and none grows.
THEOREM DurationKept == LegsSpec => []FrameDurationKept
<1>1. LegsInv => FrameDurationKept
  BY DEF LegsInv, TransInv
<1> QED
  BY <1>1, LegsInvariance, PTL

\* The drift compensation leaves the frames of a participant alone whose clock started
\* with the mixer's and runs at its rate or has counted exactly.
THEOREM NoDrift == LegsSpec => []NoDriftNoCompensation
<1>1. LegsInv => NoDriftNoCompensation
  BY DEF LegsInv, ClockInv
<1> QED
  BY <1>1, LegsInvariance, PTL


=============================================================================
