SPECIFICATION Spec
CONSTANTS
    r1 = r1
    r2 = r2
    Tensor = {}
    Name = {}
    Kind = {}
    Param = {}
    Width = 12
    Request <- MCRequest
    Engines <- MCEngines
    Prompts <- MCPrompts
    MaxTokens = 2
    MaxFailures = 2
INVARIANTS
    SessionTypeOK
    ClassifiersAgree
    PlanFitsShape
    ProfileMatchesPlans
    KeysRotatedInPlace
PROPERTY ImplementsDecoding
