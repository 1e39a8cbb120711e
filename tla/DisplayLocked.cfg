CONSTANTS
  Window = {"a", "b"}
  None = "none"
  Unknown = "unknown"
  MaxShell = 2
  MaxReporterFaults = 0
SPECIFICATION ReporterSpec
CHECK_DEADLOCK FALSE
PROPERTY DisplayReportedWhileLocked
