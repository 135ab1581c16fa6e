\* the comment "eat data + parity bit" of both transactions
CONSTANTS
    WordBits = 32
    Words <- MCWords
    IdleBits = 8
    ResetBits = 64
    ResetOnes = 50
    Noise = 1
    Ops <- MCOps
SPECIFICATION Spec
INVARIANT DataAndParityEaten
