\* Two operations with two navigations, closed tabs, selections or restarts, or three
\* with one of them.
SPECIFICATION Spec
CONSTANTS
  Tabs = {t1, t2}
  NoTab = NoTab
  Downloads = {d1, d2}
  NoDownload = NoDownload
  Calls <- AnyThenUse
  MaxEvents = 2
  MaxBoth = 4
SYMMETRY Symmetry
INVARIANT SnapshotUsable MarkNamesTheRunner DownloadAnswersTruly
PROPERTY RefsOfTheirDocument
CHECK_DEADLOCK FALSE
