SPECIFICATION EraSpec
CONSTANTS
    tob = tob
    mbp = mbp
    Channel = {tob, mbp}
    Modulus = 3
    MaxIdle = 1
    NoFile = NoFile
    Torn = Torn
INVARIANTS
    NeverTorn
    PublishedIsDurable
PROPERTY
    PromiseKept
