--------------------------- MODULE MCSessionRecovery --------------------------
(***************************************************************************)
(* Reconnect policies for TLC: no retry at all; retries whose second delay *)
(* is capped; retries with a server-silence limit.                         *)
(***************************************************************************)
EXTENDS SessionRecovery

MCPolicies ==
    {[attempts |-> 0, base |-> 1, maximum |-> 1, silence |-> 0],
     [attempts |-> 3, base |-> 1, maximum |-> 3, silence |-> 0],
     [attempts |-> 2, base |-> 2, maximum |-> 2, silence |-> 2]}
===============================================================================
