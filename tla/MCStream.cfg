CONSTANTS
    Formats = {"chat", "anthropic", "responses"}
    Adapters = {"openai", "claude", "codex", "antigravity", "mock"}
    MaxAttempts = 3
    MaxText = 2
    MaxOther = 2
    Usage = 7
    Broken = 50
SPECIFICATION Spec
INVARIANTS
    TypeOK
    OneSource
    SuccessIsWhole
    CutIsShown
    DeliveredIsBilled
CHECK_DEADLOCK FALSE
