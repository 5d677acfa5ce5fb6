SPECIFICATION FairSpec
CONSTANTS
 MaxGap = 1
 Threshold = 2
 Remind = 2
 LostNotices = {"down", "up"}
 MaxHeight = 4
 MaxProbeFaults = 3

PROPERTIES AlarmFollows
CHECK_DEADLOCK FALSE
