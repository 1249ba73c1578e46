\* A ring of two bytes, calls of up to three: one call can go round the ring.
CONSTANTS
    Threads = {t1, t2}
    Byte <- Bytes
    buf_size = 2
    MaxLen = 3
    Nobody = Nobody
SPECIFICATION Spec
SYMMETRY Symmetry
INVARIANTS TypeOK RingConsistent
PROPERTY ImplementsByteFifo
