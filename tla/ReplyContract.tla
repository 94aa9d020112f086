---------------------------- MODULE ReplyContract ----------------------------
(***************************************************************************)
(* What a client of an inference endpoint is promised about one reply,     *)
(* whichever handler writes it (/v1/chat/completions, /v1/responses,       *)
(* /v1/messages): all its bytes come from a single upstream attempt, an    *)
(* error is only reported while nothing was written, and a reply that has  *)
(* ended is never touched again.  This is the rule of router.go:209 and    *)
(* responses_oauth.go:200 ("once output has started, no replay").          *)
(***************************************************************************)
CONSTANT Requests   \* the replies, one per request

VARIABLES
    written,    \* written[r]: the attempts whose bytes reached the client
    ended       \* ended[r]: how the reply is closed

contractVars == <<written, ended>>

End == {"open", "finished", "refused", "lost"}

Init ==
    /\ written = [r \in Requests |-> {}]
    /\ ended = [r \in Requests |-> "open"]

\* Bytes of attempt a reach the client: the first ones, or more of the same.
Output(r, a) ==
    /\ ended[r] = "open"
    /\ written[r] \subseteq {a}
    /\ written' = [written EXCEPT ![r] = {a}]
    /\ UNCHANGED ended

\* The reply is closed as complete; an empty stream is a reply, too.
Finish(r) ==
    /\ ended[r] = "open"
    /\ ended' = [ended EXCEPT ![r] = "finished"]
    /\ UNCHANGED written

\* A whole body is delivered at once.
Deliver(r, a) ==
    /\ ended[r] = "open"
    /\ written[r] = {}
    /\ written' = [written EXCEPT ![r] = {a}]
    /\ ended' = [ended EXCEPT ![r] = "finished"]

\* The client gets an error, and nothing but an error.
Refuse(r) ==
    /\ ended[r] = "open"
    /\ written[r] = {}
    /\ ended' = [ended EXCEPT ![r] = "refused"]
    /\ UNCHANGED written

\* Connections break: some clients leave, or the whole process dies.
Lose ==
    \E S \in SUBSET Requests :
        /\ ended' = [r \in Requests |->
                        IF r \in S /\ ended[r] = "open" THEN "lost" ELSE ended[r]]
        /\ UNCHANGED written

Next ==
    \/ \E r \in Requests :
          \/ \E a \in written'[r] : Output(r, a) \/ Deliver(r, a)
          \/ Finish(r)
          \/ Refuse(r)
    \/ Lose

Spec == Init /\ [][Next]_contractVars
=============================================================================
