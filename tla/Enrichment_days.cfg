SPECIFICATION Spec
CONSTANTS
    SwingPeriod = 1
    Smoothing = 2
    MinAtrHalves = 1
    RiskReward = 2
    PcmConfirmation = TRUE
    MaxAge = 3
    MinChange = 100
    NeutralBand = 50
    Agreement = 600
    KellyCap = 4
    MaxRisk = 200
    MinRisk = 25
    Floor = 5000
    TestPercent = 50
    MinTest = 2
    Threshold = 500
    Scenarios <- MCScenarios
    Models <- MCModels
    MinBars = 2
    RegimeConfidence = 550
    Equity = 10000
    SymbolPercent = 10
    MaxBars = 6
INVARIANTS
    NoHindsight
    SetupsMirror
    SizeFollowsEvidence
    PromotionMeansSkill
CHECK_DEADLOCK FALSE
