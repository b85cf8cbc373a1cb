SPECIFICATION FairSpec
CHECK_DEADLOCK FALSE
PROPERTIES
    WorkEnds ScreensSettle
