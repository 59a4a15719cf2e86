SPECIFICATION Spec
CONSTANTS
    PortCount = 2
    Controllers = 2
    IrqGenerations = 2
    GenerationLimit = 3
INVARIANTS
    PagesAreSafe
    DeliversOwnData
    NoPhantomCompletion
    ReadyBetweenReads
PROPERTIES
    EveryCallReturns
