--------------------------- MODULE MCChunkedFraming ---------------------------
(* Payload sets for checking ChunkedFraming.                               *)
EXTENDS ChunkedFraming

\* PackStream replies: IGNORED, SUCCESS {} and a RECORD of one small int
ShortReplies == { << 176, 126 >>, << 177, 112, 160 >>, << 177, 113, 145, 1 >> }

=============================================================================
