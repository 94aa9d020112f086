---------------------------- MODULE MessagesRelay ----------------------------
(***************************************************************************)
(* /v1/messages and /v1/messages/count_tokens (api/anthropic.go): a loop   *)
(* over candidates, and a pass-through of the upstream's own bytes.        *)
(* Candidates are resolved as in ChatRelay; here they are a queue.         *)
(***************************************************************************)
EXTENDS Integers, Sequences, SequencesExt

CONSTANTS
    Answerers,     \* accounts that may be candidates
    Orders,        \* what the resolution may come to: candidates in their order
    MaxSent        \* bound: events an upstream sends in one stream

ASSUME MessagesAssumption ==
    /\ Orders \subseteq Seq(Answerers)
    /\ MaxSent \in Nat \ {0}

VARIABLES
    at,         \* where the handler is
    ask,        \* what the client wants
    queue,      \* candidates that are left, the one in hand first
    lastErr,    \* what the last candidate came to
    upstream,   \* history: what the stream in hand has sent, blank lines included
    passed,     \* what was written to the client, and which account it is from
    charged,    \* accounts of the usage events written
    closed      \* how the reply was closed

messagesVars == <<at, ask, queue, lastErr, upstream, passed, charged, closed>>

Place == {"new", "choosing", "calling", "streaming", "settling", "done"}
Ask == {"body", "stream", "count"}

\* What reaches a client or comes from an upstream, in order: the n-th event,
\* a blank line, or a whole body.
Item == [what : {"event", "body"}, of : 1..MaxSent] \cup {[what |-> "blank", of |-> 0]}
EventItem(n) == [what |-> "event", of |-> n]
BlankLine == [what |-> "blank", of |-> 0]
WholeBody == [what |-> "body", of |-> 1]

MessagesInit ==
    /\ at = "new"
    /\ ask \in Ask
    /\ queue = <<>>
    /\ lastErr = "none"
    /\ upstream = <<>>
    /\ passed = <<>>
    /\ charged = <<>>
    /\ closed = "open"

Pass(item) == passed' = Append(passed, [item |-> item, from |-> Head(queue)])

\* The handler returns; the reply is closed unless the client has left.
Close(how) ==
    /\ at' = "done"
    /\ closed' = IF closed = "open" THEN how ELSE closed

\* A request that is malformed, names a forbidden model or has no candidates.
RejectMessages ==
    /\ at = "new"
    /\ Close("refused")
    /\ UNCHANGED <<ask, queue, lastErr, upstream, passed, charged>>

ResolveMessages(order) ==
    /\ at = "new"
    /\ order # <<>>
    /\ at' = "choosing"
    /\ queue' = order
    /\ UNCHANGED <<ask, lastErr, upstream, passed, charged, closed>>

\* The account is gone or its target cannot be resolved: the loop goes on,
\* count_tokens gives up.
SkipAnswerer ==
    /\ at = "choosing" /\ queue # <<>>
    /\ IF ask = "count"
       THEN Close("refused") /\ UNCHANGED <<queue, lastErr>>
       ELSE /\ queue' = Tail(queue)
            /\ lastErr' = "unresolved"
            /\ UNCHANGED <<at, closed>>
    /\ UNCHANGED <<ask, upstream, passed, charged>>

CallUpstream ==
    /\ at = "choosing" /\ queue # <<>>
    /\ at' = "calling"
    /\ UNCHANGED <<ask, queue, lastErr, upstream, passed, charged, closed>>

\* The call returned err; the loop looks at it in Settle.
Returns(err) ==
    /\ at' = "settling"
    /\ lastErr' = err

\* No 2xx: an error of the client, or a status, classified.
CallRefused(err) ==
    /\ at = "calling"
    /\ err \in {"retryable", "final"}
    /\ IF ask = "count"
       THEN Close("refused") /\ UNCHANGED lastErr
       ELSE Returns(err) /\ UNCHANGED closed
    /\ UNCHANGED <<ask, queue, upstream, passed, charged>>

\* A whole body: written to the client, then charged (messages only).
BodyArrives ==
    /\ at = "calling" /\ ask \in {"body", "count"}
    /\ Pass(WholeBody)
    /\ charged' = IF ask = "body" THEN Append(charged, Head(queue)) ELSE charged
    /\ Close("finished")
    /\ UNCHANGED <<ask, queue, lastErr, upstream>>

\* The body breaks off while it is read: nothing was written yet, and the
\* error is handed on as it is.
BodyBreaks ==
    /\ at = "calling" /\ ask = "body"
    /\ Returns("final")
    /\ UNCHANGED <<ask, queue, upstream, passed, charged, closed>>

StreamOpens ==
    /\ at = "calling" /\ ask = "stream"
    /\ at' = "streaming"
    /\ upstream' = <<>>
    /\ UNCHANGED <<ask, queue, lastErr, passed, charged, closed>>

NextEvent == (Len(upstream) \div 2) + 1

\* An event and its blank line arrive.  consumeAnthropicSSE cuts at the blank
\* line and hands on what was before it.
PassEvent ==
    /\ at = "streaming" /\ closed = "open"
    /\ NextEvent <= MaxSent
    /\ upstream' = upstream \o <<EventItem(NextEvent), BlankLine>>
    /\ Pass(EventItem(NextEvent))
    /\ UNCHANGED <<at, ask, queue, lastErr, charged, closed>>

\* The stream ends regularly, perhaps without a last blank line: what is left
\* is handed on.
StreamCompletes ==
    /\ at = "streaming" /\ closed = "open"
    /\ \/ UNCHANGED <<upstream, passed>>
       \/ /\ NextEvent <= MaxSent
          /\ upstream' = Append(upstream, EventItem(NextEvent))
          /\ Pass(EventItem(NextEvent))
    /\ Close("finished")
    /\ UNCHANGED <<ask, queue, lastErr, charged>>

\* Seeded fault: what breaks a stream is classified like what refuses a call.
StreamBreaksClassified ==
    /\ at = "streaming"
    /\ Returns("retryable")
    /\ UNCHANGED <<ask, queue, upstream, passed, charged, closed>>

\* The connection to the upstream breaks, a write to the client fails, or the
\* client has left: the error is not classified.
StreamBreaks ==
    /\ at = "streaming"
    /\ Returns("final")
    /\ UNCHANGED <<ask, queue, upstream, passed, charged, closed>>

\* The loop: the next candidate after a retryable error, else the end.
SettleMessages ==
    /\ at = "settling"
    /\ IF lastErr = "retryable"
       THEN at' = "choosing" /\ queue' = Tail(queue) /\ UNCHANGED closed
       ELSE Close("refused") /\ UNCHANGED queue
    /\ UNCHANGED <<ask, lastErr, upstream, passed, charged>>

\* No candidate is left: the error of the last one.
RunOutOfAnswerers ==
    /\ at = "choosing" /\ queue = <<>>
    /\ Close("refused")
    /\ UNCHANGED <<ask, queue, lastErr, upstream, passed, charged>>

ClientLeaves ==
    /\ closed = "open"
    /\ closed' = "lost"
    /\ UNCHANGED <<at, ask, queue, lastErr, upstream, passed, charged>>

\* A step of the handler.
MessagesStep ==
    \/ RejectMessages
    \/ \E order \in Orders : ResolveMessages(order)
    \/ SkipAnswerer
    \/ CallUpstream
    \/ \E err \in {"retryable", "final"} : CallRefused(err)
    \/ BodyArrives
    \/ BodyBreaks
    \/ StreamOpens
    \/ StreamCompletes
    \/ StreamBreaks
    \/ SettleMessages
    \/ RunOutOfAnswerers

MessagesNext == MessagesStep \/ PassEvent \/ ClientLeaves

MessagesSpec == MessagesInit /\ [][MessagesNext]_messagesVars

-----------------------------------------------------------------------------
(* Properties.                                                              *)

MessagesTypeOK ==
    /\ at \in Place
    /\ ask \in Ask
    /\ queue \in Seq(Answerers)
    /\ lastErr \in {"none", "unresolved", "retryable", "final"}
    /\ upstream \in Seq(Item)
    /\ passed \in Seq([item : Item, from : Answerers])
    /\ charged \in Seq(Answerers)
    /\ closed \in {"open", "finished", "refused", "lost"}

\* Everything the client reads is from one account: after output there is no
\* failover.  The loop does not know of output; the property rests on the
\* errors of a stream not being classified.  And if the request is charged, it
\* is charged once, to that account.
OneAccountAnswers ==
    /\ \A i, j \in DOMAIN passed : passed[i].from = passed[j].from
    /\ \/ charged = <<>>
       \/ Len(charged) = 1 /\ passed # <<>> /\ charged[1] = passed[1].from

\* anthropic.go:262: native events are forwarded as they are.  The client's
\* bytes are the first of the upstream's.
NativeEventsUnchanged ==
    ask = "stream" => IsPrefix([i \in DOMAIN passed |-> passed[i].item], upstream)
=============================================================================
