SPECIFICATION Spec
CONSTANTS
 Spans = {day, week}
 Overall = overall
 MaxVersion = 1
 MaxReadFaults = 2
INVARIANTS SummaryOfOneRefresh
CHECK_DEADLOCK FALSE
