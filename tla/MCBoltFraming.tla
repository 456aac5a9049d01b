---------------------------- MODULE MCBoltFraming ----------------------------
(* Payload sets for checking BoltFraming.                                  *)
EXTENDS BoltFraming

\* PackStream replies: IGNORED, SUCCESS {} and a RECORD of one small int
ShortReplies == { Ignored, SuccessEmpty, << \hB1, \h71, \h91, \h01 >> }

=============================================================================
