SPECIFICATION Spec
CONSTANTS
  N = 5
  Host <- OwnHost
  DataPorts <- MCDataPorts
  SignalPort <- SamePort
  Lost = Lost
INVARIANTS
  NoConfusion
  ViewsAgree
  LapIsComplete
PROPERTIES
  EveryDeviceEnds
