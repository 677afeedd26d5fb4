CONSTANTS
  Tables <- MCTables
  Iso = {"system_metrics"}
  Floors = {"access_log"}
  Days <- MCDays
  HoursPerDay = 2
  MinAudit = 2
  PageRows = 2
  MaxPages = 1
  MaxHour = 3
  MaxRows = 2
SPECIFICATION RetentionSpec
PROPERTY RowsKeepTheirDays
CHECK_DEADLOCK FALSE
