SPECIFICATION Spec
CONSTANTS
  Parts <- MCParts
  Users = {u1, u2}
  Sessions = {s1, s2}
  Browsers = {b1, b2}
  Pictures = {1, 2, 3}
  Routes = {r1, r2}
  MaxNow = 1
  Window = 0
  Datasets = {1, 2, 3}
  Exporters = {x1, x2}
  Keeps = {0, 1, 2}
  MaxVersion = 2
  MaxAsked = 2
  Live = {"rgb_left"}
  Images = {1, 2}
  Tabs = {t1, t2}
INVARIANT TypeOK
INVARIANT ArchiveIsSound
INVARIANT OnlyOlderExportsGo
PROPERTY AdminRemains
PROPERTY LateAnswersAreDropped
PROPERTY PollGoesOn
PROPERTY SelectedSourceDelivers
CHECK_DEADLOCK FALSE
