\* Byte-by-byte reads of msg_buf (buffer_read_uint8 only) over 2-byte chunks.
CONSTANTS
    BUFFER_CHUNK_SIZE = 2
    ScalarSizes = {1}
    WriteSizes = {1, 2, 4, 5}
    MaxBytes = 6
SPECIFICATION Spec
\* the socket delivers and the writer writes at most MaxBytes bytes
CHECK_DEADLOCK FALSE
INVARIANTS
    ScalarReadsExact
