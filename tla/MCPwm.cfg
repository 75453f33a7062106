SPECIFICATION Spec
CONSTANTS
    Threads = {detector, control}
    Pulses <- MCPulses
INVARIANTS
    TypeOK
    FrequencySet
    OutputsOff
PROPERTY ImplementsRegister
