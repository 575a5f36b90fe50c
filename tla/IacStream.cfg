SPECIFICATION CutsSpec
CONSTANTS
    IAC = IAC
    SB = SB
    SE = SE
    Verbs = {WILL}
    Others = {x}
    NoByte = NoByte
    SbMax = 2
    MaxBytes = 7
INVARIANTS TypeOK CutIndependent DecodesStream
