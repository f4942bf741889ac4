SPECIFICATION Spec
CONSTANTS
  Launches = {1, 2}
  Callers = {c1}
  Feeds = {left}
  Workers = {1, 2}
  Clients = {d1}
  Builds <- OneCameraEach
INVARIANT TypeOK
INVARIANT OneCapture
INVARIANT LiveProcessIsRead
INVARIANT NoGhostCamera
INVARIANT FlagHasWorker
INVARIANT NoOrphanStream
PROPERTY EnabledCameraRuns
PROPERTY SensorComesBack
