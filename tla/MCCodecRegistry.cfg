SPECIFICATION FairSpec
CONSTANTS
  Infos <- TwoInfos
  Modules <- TwoModules
  Requests <- SomeRequests
  Clients = {t1, t2}
  AppNames = {"PCMA"}
  App = App
  Nobody = Nobody
  NoFactory = NoFactory
  MaxRegistries = 2
  MaxLoaded = 2
INVARIANTS
  RegisteredPluginServes
  LeftBehindOnlyByFailure
PROPERTIES
  UnloadTakesBackOwn
  RegistryFreed
