\* Socket reads, copies, scalar reads, writes and drains over 2-byte chunks.
CONSTANTS
    BUFFER_CHUNK_SIZE = 2
    ScalarSizes = {1, 2, 4}
    WriteSizes = {1, 2, 4, 5}
    MaxBytes = 6
SPECIFICATION Spec
\* the socket delivers and the writer writes at most MaxBytes bytes
CHECK_DEADLOCK FALSE
INVARIANTS
    FalseOnlyOnFailure
