SPECIFICATION Spec
CONSTANTS
  Launches = {1, 2}
  Callers = {c1}
  Feeds = {left}
  Workers = {1, 2}
  Clients = {d1}
  Builds <- OnlyThermal
PROPERTY HotSensorPauses
