\* Two quicssh clients, each reconnecting after its connection ends,
\* against a QUIC connection cap of one.
CONSTANTS
    Sessions = {s1, s2}
    QCap = 1
SPECIFICATION FairSpec
INVARIANT TypeOK
PROPERTY RelayTeardown
