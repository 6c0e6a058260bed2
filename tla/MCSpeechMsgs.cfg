SPECIFICATION Spec
CONSTANTS
    Octets = {0, 1, 2, 6, 11, 85, 255}
    Words = {0, 431, 999, 43981, 65535}
    CodecRates = {0}
INVARIANTS TypeOK CommandArrives HeaderArrives
