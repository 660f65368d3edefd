SPECIFICATION Spec
CONSTANTS
    MaxCount = 2
    MaxDepth = 3
    Protocols <- AllProtocols
INVARIANTS TypeOK StackBounded EveryIterationReads TypesInStep
PROPERTY Answers
