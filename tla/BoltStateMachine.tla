-------------------------- MODULE BoltStateMachine --------------------------
(***************************************************************************)
(* The Bolt session state machine of src/bolt/bolt_client.c:               *)
(* bolt_change_client_state and the eight bolt_change_*_state functions it *)
(* dispatches to.  Each is a pure function of (state, request, response).  *)
(*                                                                         *)
(* The code traps every pair it does not list with ASSERT(false).  ASSERT  *)
(* aborts a debug build; in a release build it expands to nothing, the     *)
(* switch falls through and client->state is left as it was.  An outcome   *)
(* therefore records both: the state the client is left in, and whether an *)
(* ASSERT on the way failed (ok = FALSE).                                  *)
(***************************************************************************)

States    == {"NEGOTIATION", "AUTHENTICATION", "READY", "STREAMING",
              "TX_READY", "TX_STREAMING", "FAILED", "INTERRUPTED", "DEFUNCT"}
Requests  == {"HELLO", "LOGON", "LOGOFF", "RUN", "PULL", "DISCARD", "BEGIN",
              "COMMIT", "ROLLBACK", "ROUTE", "RESET", "GOODBYE"}
Responses == {"SUCCESS", "FAILURE", "IGNORED", "RECORD"}

Outcomes == [ok : BOOLEAN, state : States]

\* the switch reached a `client->state = s` assignment
Done(s)   == [ok |-> TRUE,  state |-> s]
\* the switch reached ASSERT(false): the state is left unchanged
Trap(s) == [ok |-> FALSE, state |-> s]

\* the entry ASSERT of a handler: a failed condition does not stop a
\* release build from running the switch that follows it
EntryAssert(cond, out) == IF cond THEN out ELSE [out EXCEPT !.ok = FALSE]

\* an inner `switch (response_type)` with a SUCCESS and a FAILURE case
OnResult(cur, resp, succ, fail) ==
    CASE resp = "SUCCESS" -> Done(succ)
      [] resp = "FAILURE" -> Done(fail)
      [] OTHER            -> Trap(cur)

\* an inner `switch (response_type)` with only an IGNORED case
OnIgnored(cur, resp, next) == IF resp = "IGNORED" THEN Done(next) ELSE Trap(cur)

bolt_change_negotiation_state(req, resp) ==
    EntryAssert(req = "HELLO",
                OnResult("NEGOTIATION", resp, "AUTHENTICATION", "DEFUNCT"))

bolt_change_authentication_state(req, resp) ==
    EntryAssert(req = "LOGON",
                OnResult("AUTHENTICATION", resp, "READY", "DEFUNCT"))

(* Mutations used to show that the properties can fail: each is the     *)
(* handler below with one plausible slip.                                *)

\* BEGIN's SUCCESS case is copied from RUN's inside a transaction
ReadyStateBeginSlip(req, resp) ==
    CASE req = "LOGOFF"  -> OnResult("READY", resp, "AUTHENTICATION", "FAILED")
      [] req = "RUN"     -> OnResult("READY", resp, "STREAMING", "FAILED")
      [] req = "BEGIN"   -> OnResult("READY", resp, "TX_STREAMING", "FAILED")
      [] req = "ROUTE"   -> IF resp = "SUCCESS" THEN Done("READY") ELSE Trap("READY")
      [] req = "RESET"   -> Done("READY")
      [] req = "GOODBYE" -> Done("DEFUNCT")
      [] OTHER           -> Trap("READY")

bolt_change_ready_state(req, resp) ==
    CASE req = "LOGOFF"  -> OnResult("READY", resp, "AUTHENTICATION", "FAILED")
      [] req = "RUN"     -> OnResult("READY", resp, "STREAMING", "FAILED")
      [] req = "BEGIN"   -> OnResult("READY", resp, "TX_READY", "FAILED")
      [] req = "ROUTE"   -> IF resp = "SUCCESS" THEN Done("READY") ELSE Trap("READY")
      [] req = "RESET"   -> Done("READY")
      [] req = "GOODBYE" -> Done("DEFUNCT")
      [] OTHER           -> Trap("READY")

bolt_change_streaming_state(req, resp) ==
    CASE req \in {"PULL", "DISCARD"} -> OnResult("STREAMING", resp, "READY", "FAILED")
      [] req = "RESET"               -> Done("READY")
      [] req = "GOODBYE"             -> Done("DEFUNCT")
      [] OTHER                       -> Trap("STREAMING")

bolt_change_txready_state(req, resp) ==
    CASE req = "RUN"                   -> OnResult("TX_READY", resp, "TX_STREAMING", "FAILED")
      [] req \in {"COMMIT", "ROLLBACK"} -> OnResult("TX_READY", resp, "READY", "FAILED")
      [] req = "RESET"                 -> Done("READY")
      [] req = "GOODBYE"               -> Done("DEFUNCT")
      [] OTHER                         -> Trap("TX_READY")

\* DISCARD inside a transaction leaves it, as it does outside one
TxStreamingDiscardSlip(req, resp) ==
    CASE req \in {"RUN", "PULL"} -> OnResult("TX_STREAMING", resp, "TX_STREAMING", "FAILED")
      [] req = "COMMIT"          -> OnResult("TX_STREAMING", resp, "READY", "FAILED")
      [] req = "DISCARD"         -> OnResult("TX_STREAMING", resp, "READY", "FAILED")
      [] req = "RESET"           -> Done("READY")
      [] req = "GOODBYE"         -> Done("DEFUNCT")
      [] OTHER                   -> Trap("TX_STREAMING")

bolt_change_txstreaming_state(req, resp) ==
    CASE req \in {"RUN", "PULL"} -> OnResult("TX_STREAMING", resp, "TX_STREAMING", "FAILED")
      [] req = "COMMIT"          -> OnResult("TX_STREAMING", resp, "READY", "FAILED")
      [] req = "DISCARD"         -> OnResult("TX_STREAMING", resp, "TX_READY", "FAILED")
      [] req = "RESET"           -> Done("READY")
      [] req = "GOODBYE"         -> Done("DEFUNCT")
      [] OTHER                   -> Trap("TX_STREAMING")

bolt_change_failed_state(req, resp) ==
    CASE req \in {"RUN", "PULL", "DISCARD"} -> OnIgnored("FAILED", resp, "FAILED")
      [] req = "RESET"                     -> Done("READY")
      [] req = "GOODBYE"                   -> Done("DEFUNCT")
      [] OTHER                             -> Trap("FAILED")

bolt_change_interrupted_state(req, resp) ==
    CASE req \in {"RUN", "PULL", "DISCARD", "BEGIN", "COMMIT", "ROLLBACK"} ->
              OnIgnored("INTERRUPTED", resp, "FAILED")
      [] req = "RESET"   -> OnResult("INTERRUPTED", resp, "READY", "DEFUNCT")
      [] req = "GOODBYE" -> Done("DEFUNCT")
      [] OTHER           -> Trap("INTERRUPTED")

\* RECORD never moves the state; DEFUNCT has no handler (the default case)
bolt_change_client_state(s, req, resp) ==
    IF resp = "RECORD" THEN Done(s)
    ELSE CASE s = "NEGOTIATION"    -> bolt_change_negotiation_state(req, resp)
           [] s = "AUTHENTICATION" -> bolt_change_authentication_state(req, resp)
           [] s = "READY"          -> bolt_change_ready_state(req, resp)
           [] s = "STREAMING"      -> bolt_change_streaming_state(req, resp)
           [] s = "TX_READY"       -> bolt_change_txready_state(req, resp)
           [] s = "TX_STREAMING"   -> bolt_change_txstreaming_state(req, resp)
           [] s = "FAILED"         -> bolt_change_failed_state(req, resp)
           [] s = "INTERRUPTED"    -> bolt_change_interrupted_state(req, resp)
           [] OTHER                -> Trap(s)

=============================================================================
