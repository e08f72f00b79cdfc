SPECIFICATION PreemptedSpec
CONSTANTS
    Pages = 8
    ByteBits = 4
    Reserved = {0, 1, 7}
    Victim = 3
INVARIANTS
    DamageInOneByte
