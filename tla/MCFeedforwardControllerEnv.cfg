SPECIFICATION EnvSpec
CONSTANTS
  InputSize = 3
  RamWords = 256
  Configs <- MCConfigs
INVARIANTS
  TypeOK
  WeightsInStep
  ActivationInStep
  BiasesInStep
  StoresInPlace
  ControllerInv
PROPERTY
  ImplementsLayerSchedule
