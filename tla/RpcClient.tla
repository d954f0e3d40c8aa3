------------------------------ MODULE RpcClient ------------------------------
(***************************************************************************)
(* The Bitcoin Core RPC client (BitcoinCoreTemplateClient and its          *)
(* submission-capable subclass).  A call is one HTTP exchange of its own,  *)
(* numbered, and believed only when every layer of the reply is: the HTTP  *)
(* status, the size, the JSON, the number of the request, and exactly one  *)
(* of a result and an error.  The node is external: what it answers to a   *)
(* request may be lost or damaged after it has acted on it.                *)
(***************************************************************************)
EXTENDS Naturals

VARIABLES
    rpc,           \* the client: [closed, next_request_id]
    block          \* environment: the node took the block ("held"), already
                   \* holds it or has not decided ("known"), refused it
                   \* ("refused"), or was never asked ("none")

rpcVars == <<rpc, block>>

NewClient == [closed |-> FALSE, next_request_id |-> 1]

RpcInit == rpc = NewClient /\ block = "none"

(* A command of its own, for a candidate of its own. *)
RpcReset == rpc' = NewClient /\ block' = "none"

-----------------------------------------------------------------------------
(* A reply, layer by layer; "absent" is a field the envelope does not have *)
(* and "null" one that is null.                                            *)
Answer(request_id, result, error) ==
    [arrives |-> TRUE, status |-> 200, body |-> "object", id |-> request_id,
     result |-> result, error |-> error]

(* What a node, or whatever stands between, can make of a result.          *)
Replies(request_id, result) ==
    LET whole == Answer(request_id, result, "null")
        remote(category) == Answer(request_id, "null", category)
    IN  {whole,
         [whole EXCEPT !.arrives = FALSE],
         [whole EXCEPT !.status = 401],
         [whole EXCEPT !.status = 500],
         [whole EXCEPT !.body = "oversized"],
         [whole EXCEPT !.body = "nested"],
         [whole EXCEPT !.body = "malformed"],
         [whole EXCEPT !.result = "absent"],
         [whole EXCEPT !.error = "absent"],
         [whole EXCEPT !.error = "rejected", !.result = "text"],
         remote("malformed"), remote("method_unavailable"),
         remote("node_not_ready"),
         Answer(request_id - 1, "null", "null")}

(* Mutant: the number of the reply is not compared. *)
ReplyErrorAnyId(reply, request_id) ==
    IF ~reply.arrives THEN "transport"
    ELSE IF reply.status = 401 THEN "authentication"
    ELSE IF reply.status # 200 \/ reply.body = "oversized" THEN "transport"
    ELSE IF reply.body # "object" \/ reply.error # "null" THEN "protocol"
    ELSE "none"

(* The envelope is the one of this request and says exactly one thing. *)
Believed(reply, request_id) ==
    /\ reply.body = "object" /\ reply.id = request_id
    /\ "absent" \notin {reply.result, reply.error}
    /\ reply.error # "null" => reply.result = "null" /\ reply.error # "malformed"

(* The error _exchange raises, by its category. *)
ReplyError(reply, request_id) ==
    IF ~reply.arrives THEN "transport"
    ELSE IF reply.status = 401 THEN "authentication"
    ELSE IF reply.status # 200 \/ reply.body = "oversized" THEN "transport"
    ELSE IF ~Believed(reply, request_id) THEN "protocol"
    ELSE IF reply.error # "null" THEN reply.error
    ELSE "none"

(* _exchange: a closed client sends nothing, another numbers its request.  *)
Exchange ==
    rpc' = IF rpc.closed THEN rpc ELSE [rpc EXCEPT !.next_request_id = @ + 1]

(* What it ends in when the node made result of the request: an error, or  *)
(* a result to be read.                                                    *)
Received(result) ==
    LET request_id == rpc.next_request_id
    IN  IF rpc.closed THEN {[error |-> "transport", result |-> "absent"]}
        ELSE {[error |-> ReplyError(reply, request_id), result |-> reply.result] :
                reply \in Replies(request_id, result)}

-----------------------------------------------------------------------------
(* The read-only calls: a result that is not what the method promises is a *)
(* protocol error of the client.                                           *)
Reading(received) ==
    IF received.error # "none" THEN received.error
    ELSE IF received.result = "object" THEN "read" ELSE "protocol"

ReadOnlyEnds ==
    {Reading(r) : r \in UNION {Received(result) : result \in {"object", "text", "null"}}}

ReadOnly == Exchange /\ UNCHANGED block

(* A null result accepts the block; a text does not, and is reported by    *)
(* its category: "duplicate", "duplicate-inconclusive" and "inconclusive", *)
(* here one text, have categories of their own.                            *)
Verdict(received) ==
    IF received.error # "none" THEN received.error
    ELSE CASE received.result = "null" -> "accepted"
           [] received.result = "text" -> "rejected"
           [] received.result = "duplicate" -> "duplicate"
           [] OTHER -> "protocol"

Verdicts == {"accepted", "rejected", "duplicate"}

(* getblocktemplate in proposal mode changes nothing at the node, and      *)
(* nothing that follows depends on which text it answers.                  *)
ProposalEnds ==
    {Verdict(r) : r \in UNION {Received(result) : result \in {"null", "text", "number"}}}

ProposeBlock == Exchange /\ UNCHANGED block

(* submitblock does: the node takes the block, refuses it, or holds or may *)
(* hold it without taking it now; and then it answers which.               *)
Fates == {"held", "known", "refused"}

AnswerOf(fate) ==
    CASE fate = "held" -> "null"
      [] fate = "known" -> "duplicate"
      [] fate = "refused" -> "text"

SubmissionEnds(fate) == {Verdict(r) : r \in Received(AnswerOf(fate))}

SubmitBlock(fate) ==
    /\ Exchange
    /\ block' = IF rpc.closed THEN block ELSE fate

(* close: later calls fail, and only the first one reaches the transport.  *)
CloseRpc == rpc' = [rpc EXCEPT !.closed = TRUE] /\ UNCHANGED block
=============================================================================
