SPECIFICATION Spec
CONSTANTS
    Octets = {1, 2}
    Words = {43981}
    CodecRates = {0, 1, 2}
INVARIANTS RatesArrive
