-------------------------- MODULE BoltProtocolSpec --------------------------
(***************************************************************************)
(* What the session promises about its state, written from the transition *)
(* table of spec.md section 4.4: the state moves only along a listed       *)
(* (state, request -> response) row, or into INTERRUPTED when a RESET      *)
(* arrives while a request is in flight, or from NEGOTIATION to DEFUNCT    *)
(* when the handshake is rejected.  DEFUNCT has no row, so it is final.   *)
(* This module is the abstract specification that BoltSession is shown   *)
(* to implement.                                                           *)
(***************************************************************************)
EXTENDS BoltStateMachine

VARIABLE state

\* rows of the table; "*" in the table becomes every response but RECORD
Any == Responses \ {"RECORD"}
Row(from, reqs, resps, to) == [from |-> from, on |-> reqs \X resps, to |-> to]

Table ==
    { Row("NEGOTIATION",   {"HELLO"},  {"SUCCESS"}, "AUTHENTICATION"),
       Row("NEGOTIATION",   {"HELLO"},  {"FAILURE"}, "DEFUNCT"),
       Row("AUTHENTICATION", {"LOGON"}, {"SUCCESS"}, "READY"),
       Row("AUTHENTICATION", {"LOGON"}, {"FAILURE"}, "DEFUNCT"),
       Row("READY", {"LOGOFF"},         {"SUCCESS"}, "AUTHENTICATION"),
       Row("READY", {"LOGOFF", "RUN", "BEGIN"}, {"FAILURE"}, "FAILED"),
       Row("READY", {"RUN"},            {"SUCCESS"}, "STREAMING"),
       Row("READY", {"BEGIN"},          {"SUCCESS"}, "TX_READY"),
       Row("READY", {"ROUTE"},          {"SUCCESS"}, "READY"),
       Row("READY", {"RESET"},          Any,         "READY"),
       Row("READY", {"GOODBYE"},        Any,         "DEFUNCT"),
       Row("STREAMING", {"PULL", "DISCARD"}, {"SUCCESS"}, "READY"),
       Row("STREAMING", {"PULL", "DISCARD"}, {"FAILURE"}, "FAILED"),
       Row("STREAMING", {"RESET"},      Any,         "READY"),
       Row("STREAMING", {"GOODBYE"},    Any,         "DEFUNCT"),
       Row("TX_READY", {"RUN"},         {"SUCCESS"}, "TX_STREAMING"),
       Row("TX_READY", {"RUN", "COMMIT", "ROLLBACK"}, {"FAILURE"}, "FAILED"),
       Row("TX_READY", {"COMMIT", "ROLLBACK"}, {"SUCCESS"}, "READY"),
       Row("TX_READY", {"RESET"},       Any,         "READY"),
       Row("TX_READY", {"GOODBYE"},     Any,         "DEFUNCT"),
       Row("TX_STREAMING", {"RUN", "PULL"}, {"SUCCESS"}, "TX_STREAMING"),
       Row("TX_STREAMING", {"RUN", "PULL", "DISCARD", "COMMIT"}, {"FAILURE"}, "FAILED"),
       Row("TX_STREAMING", {"DISCARD"}, {"SUCCESS"}, "TX_READY"),
       Row("TX_STREAMING", {"COMMIT"},  {"SUCCESS"}, "READY"),
       Row("TX_STREAMING", {"RESET"},   Any,         "READY"),
       Row("TX_STREAMING", {"GOODBYE"}, Any,         "DEFUNCT"),
       Row("FAILED", {"RUN", "PULL", "DISCARD"}, {"IGNORED"}, "FAILED"),
       Row("FAILED", {"RESET"},         Any,         "READY"),
       Row("FAILED", {"GOODBYE"},       Any,         "DEFUNCT"),
       Row("INTERRUPTED", {"RUN", "PULL", "DISCARD", "BEGIN", "COMMIT", "ROLLBACK"},
                                        {"IGNORED"}, "FAILED"),
       Row("INTERRUPTED", {"RESET"},    {"SUCCESS"}, "READY"),
       Row("INTERRUPTED", {"RESET"},    {"FAILURE"}, "DEFUNCT"),
       Row("INTERRUPTED", {"GOODBYE"},  Any,         "DEFUNCT") }

\* the listed triples and the state each leads to
Listed(s, req, resp) == \E r \in Table : r.from = s /\ <<req, resp>> \in r.on

SpecNext(s, req, resp) ==
    (CHOOSE r \in Table : r.from = s /\ <<req, resp>> \in r.on).to

Init == state = "NEGOTIATION"

Transition ==
    \E req \in Requests, resp \in Responses \ {"RECORD"} :
        /\ Listed(state, req, resp)
        /\ state' = SpecNext(state, req, resp)

Interrupt == state # "DEFUNCT" /\ state' = "INTERRUPTED"

\* an invalid handshake magic is a framing error: the connection is closed
\* and the session is DEFUNCT (spec.md 7)
HandshakeRejected == state = "NEGOTIATION" /\ state' = "DEFUNCT"

Next == Transition \/ Interrupt \/ HandshakeRejected

Spec == Init /\ [][Next]_state

=============================================================================
