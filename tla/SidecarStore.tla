----------------------------- MODULE SidecarStore -----------------------------
(***************************************************************************)
(* The sidecar backend, src/src/store/sidecar.rs: an HTTP client with a    *)
(* bounded number of attempts.  The sidecar is external: it performs a     *)
(* mutation atomically, answers 5xx and 4xx only when it has not performed *)
(* it, and takes for a replacement the largest of the candidate's stamp,   *)
(* the floor sent and the stamp it has stored.                             *)
(***************************************************************************)
EXTENDS StoreClient

CONSTANT MaxAttempts  \* SidecarConfig.max_attempts, clamped to 1 .. 10

ASSUME AttemptsAssumption == MaxAttempts \in 1 .. 10

VARIABLES
    attempt,  \* the attempts that came to nothing
    status    \* the status class of a reply without effect: "4xx" or "5xx"

sidecarVars == <<clientVars, attempt, status>>

SidecarInit == attempt = 0 /\ status = "5xx"

Mutation == request.op # "snapshot"

Attempts ==
    /\ pc = "attempt"
    /\ stamp' = IF request.op = "replace" THEN Larger(stamp, floor[request.key]) ELSE stamp
    /\ outcome' = "sent"
    /\ pc' = "wait"
    /\ UNCHANGED <<store, floor, request, value, changed, response, attempt, status>>

(* encode_route refuses the metadata, or the body is too large.            *)
Unsendable ==
    /\ pc = "attempt" /\ Mutation
    /\ AnswerErr
    /\ UNCHANGED <<store, floor, request, stamp, commandVars, attempt, status>>

(* External: the sidecar performs the request,                             *)
Serve ==
    /\ outcome = "sent"
    /\ LET k == request.key
           old == store[k]
           new == CASE request.op = "replace" ->
                         [target |-> request.data.target,
                          at |-> IF old \in Records THEN Larger(stamp, old.at) ELSE stamp]
                    [] request.op = "put" -> request.data
                    [] request.op = "update" /\ old # None -> [old EXCEPT !.at = request.data.at]
                    [] request.op = "delete" -> None
                    [] OTHER -> old
       IN /\ request.op = "update" => old # Corrupt
          /\ Apply(new, CASE request.op = "replace" -> new
                          [] request.op = "delete" -> old
                          [] request.op = "snapshot" -> store
                          [] OTHER -> None)
    /\ UNCHANGED <<floor, pc, request, stamp, response, attempt, status>>

(* or does not.                                                            *)
Refuse ==
    /\ outcome = "sent"
    /\ outcome' = "refused"
    /\ status' \in {"4xx", "5xx"}
    /\ UNCHANGED <<store, floor, pc, request, stamp, value, changed, response, attempt>>

(* The complete exact acknowledgement.                                     *)
Acknowledged ==
    /\ pc = "wait" /\ outcome = "done"
    /\ Clean(value)
    /\ AnswerOk
    /\ UNCHANGED <<store, floor, request, stamp, commandVars, attempt, status>>

(* Another attempt, after sleep_before_retry, or the end of them.          *)
RetryOrFail ==
    /\ IF attempt + 1 < MaxAttempts
       THEN pc' = "attempt" /\ outcome' = "unsent" /\ attempt' = attempt + 1
            /\ UNCHANGED response
       ELSE AnswerErr /\ UNCHANGED <<outcome, attempt>>
    /\ UNCHANGED <<store, floor, request, stamp, value, changed, status>>

ServerError ==
    /\ pc = "wait" /\ outcome = "refused" /\ status = "5xx"
    /\ RetryOrFail

ClientError ==
    /\ pc = "wait" /\ outcome = "refused" /\ status = "4xx"
    /\ AnswerErr
    /\ UNCHANGED <<store, floor, request, stamp, commandVars, attempt, status>>

(* No reply, or one that is not an exact acknowledgement.                  *)
Unusable ==
    /\ AnswerIndeterminate
    /\ UNCHANGED <<store, floor, request, stamp, commandVars, attempt, status>>

MutationReplyUnusable == pc = "wait" /\ Mutation /\ Unusable

GetReplyLost == pc = "wait" /\ ~Mutation /\ RetryOrFail

(* A GET's reply is malformed, of the wrong type, or cannot be decoded.    *)
GetReplyUnusable ==
    /\ pc = "wait" /\ ~Mutation
    /\ AnswerErr
    /\ UNCHANGED <<store, floor, request, stamp, commandVars, attempt, status>>

OtherSidecarWriter ==
    /\ \E k \in Keys : \E r \in Contents : OtherWriter(k, r)
    /\ UNCHANGED <<attempt, status>>

SidecarCall == Call("attempt") /\ attempt' = 0 /\ UNCHANGED status

SidecarObserves == Observes /\ UNCHANGED <<attempt, status>>

SidecarStep ==
    \/ Attempts \/ Unsendable \/ Acknowledged \/ ServerError \/ ClientError
    \/ MutationReplyUnusable \/ GetReplyLost \/ GetReplyUnusable

SidecarNext ==
    SidecarCall \/ SidecarStep \/ Serve \/ Refuse \/ OtherSidecarWriter \/ SidecarObserves
=============================================================================
