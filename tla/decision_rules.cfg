SPECIFICATION Spec
CONSTANTS
    Sources = {"src"}
    Drifts = {"low", "high"}
    MinConfidence = {"tiny"}
    RepeatN = 2
    RepeatWindow = 2
    HoldTime = 2
    AlertCooldown = 1
    BlockCooldown = 3
    AllowStronger = TRUE
    LearningModes = {TRUE, FALSE}
    Lists = {{}, {"src"}}
INVARIANTS NextAlertSpacing NeverMuted RepeatsInWindow
PROPERTIES AllowedIsSilent
