\* One template, two evaluations, every fault, edits between evaluations.
SPECIFICATION FairCalendarSpec
CONSTANTS
  Templates = {t1}
  Evaluators = {e1, e2}
  None = None
  MaxTime = 2
  Schedules <- MCSchedules
  MaxRevision = 2
  MaxAttempts = 2
  ReviewAfter = 2
  Faults = {"lost", "refused", "lookup", "evidence"}
INVARIANTS
  CalendarTypeOK
  NoOverlap
  OutcomeTrue
PROPERTIES
  ReviewParks
  WindowsTakenOnce
  OccurrencesSettle
CHECK_DEADLOCK FALSE
