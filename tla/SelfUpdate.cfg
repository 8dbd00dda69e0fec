SPECIFICATION Spec
CONSTANTS
  Sessions = {s1, s2}
  Calls = {c1, c2}
  MaxVersion = 5
  PreReleases = {3}
  Portless = {4}
  Unsummed = {5}
  MaxSessions = 1
  Shipped = {e1, e2}
  Stale = {e3}
  Core = e1
  Installed = {1, 2}
  Idle = Idle
INVARIANTS
  OneDownloadPerCheck
  InstallationWhole
PROPERTIES
  DownloadsWhatWasShown
  NeverDowngrades
