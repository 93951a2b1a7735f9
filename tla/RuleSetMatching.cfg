CONSTANTS
    Lines <- AllForms
    Domains <- AllDomains
    BadLabels = {"bad_label"}
    RegexLimit = 2
    MaxLines = 5
    NotBuilt = NotBuilt
SPECIFICATION RuleSetSpec
INVARIANTS CompiledIsCurrent 
CHECK_DEADLOCK FALSE
