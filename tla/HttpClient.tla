---- MODULE HttpClient ----
(***************************************************************************)
(* SafeHttpClient (adapters/http_client.py) under a run deadline: calls    *)
(* that share one client, its single pending host resolution, and the      *)
(* bounded loop of attempts and redirects.  A resolver and a server may    *)
(* take any time, or never answer.  Bodies, headers and URLs are           *)
(* abstracted to the verdicts the code reaches on them.                    *)
(***************************************************************************)
EXTENDS Integers, FiniteSets

CONSTANTS
    Call,             \* the calls of SafeHttpClient.request
    Host,             \* the (host, port) pairs a call may ask for
    Literal,          \* those whose host is an address, not a name
    CallDeadline,     \* the deadline argument of each call
    RunDeadline,      \* run_deadline of the client
    MaxAttempts,      \* retry_attempts + 1
    MaxRedirects,     \* 5 in the code
    BaseDelay,        \* retry_backoff_seconds
    MaxRetryDelay,    \* _MAX_RETRY_DELAY
    MaxJitter,        \* retry_jitter_seconds
    MaxTime,          \* bound: the last tick of the clock
    NoCall            \* no resolution was ever started

ASSUME HttpAssumption ==
    /\ CallDeadline \in [Call -> Nat] /\ RunDeadline \in Nat
    /\ MaxAttempts \in Nat \ {0} /\ MaxRedirects \in Nat
    /\ {BaseDelay, MaxRetryDelay, MaxJitter, MaxTime} \subseteq Nat
    /\ RunDeadline <= MaxTime /\ NoCall \notin Call /\ Host # {} /\ Literal \subseteq Host

VARIABLES
    clock,        \* the injected clock
    pending,      \* _pending_resolution: the call whose worker resolves, or NoCall
    resolution,   \* the _PendingResolution each call created
    request       \* the local variables of each call

httpVars == <<clock, pending, resolution, request>>

Failures == {"deadline", "rejected", "unavailable", "raised"}
Answers == {"public", "unsafe", "oserror", "error"}
Resolution == [state : {"none", "running"} \cup Answers, at : 0..MaxTime]
Request == [pc : {"idle", "resolve", "await", "loop", "sent", "asleep", "body", "done"},
            host : Host, began : 0..MaxTime, on : Call \cup {NoCall}, attempt : 1..MaxAttempts,
            redirects : 0..(MaxRedirects + 1), sends : Nat,
            outcome : Failures \cup {"none", "response"}, ended : 0..MaxTime]

\* Every type of the client's state.
HttpTypeOK ==
    /\ clock \in 0..MaxTime
    /\ pending \in Call \cup {NoCall}
    /\ resolution \in [Call -> Resolution]
    /\ request \in [Call -> Request]

HttpInit ==
    /\ clock = 0
    /\ pending = NoCall
    /\ resolution = [c \in Call |-> [state |-> "none", at |-> 0]]
    /\ request = [c \in Call |->
         [pc |-> "idle", host |-> CHOOSE h \in Host : TRUE, began |-> 0, on |-> NoCall, attempt |-> 1, redirects |-> 0,
          sends |-> 0, outcome |-> "none", ended |-> 0]]

LesserOf(a, b) == IF a <= b THEN a ELSE b
Deadline(c) == LesserOf(CallDeadline[c], RunDeadline)
Late(c) == clock >= Deadline(c)

Goto(c, pc) == request' = [request EXCEPT ![c].pc = pc]
Finish(c, outcome) ==
    request' = [request EXCEPT ![c].pc = "done", ![c].outcome = outcome, ![c].ended = clock]

(* The exponential delay of an attempt, capped before the jitter is added. *)
RetryDelay(attempt, jitter) == LesserOf(BaseDelay * 2^(attempt - 1), MaxRetryDelay) + jitter

(* What a retryable response may ask for: its Retry-After, capped, or,     *)
(* without that header, the policy's delay.                                *)
ResponseDelays(attempt) ==
    0..MaxRetryDelay \cup {RetryDelay(attempt, j) : j \in 0..MaxJitter}

(* Admission: an elapsed budget fails before the request is validated; the *)
(* policy may refuse the adapter, the host, the port or the content types. *)
(* A host that is a public address is not resolved.                        *)
Admit(c) ==
    /\ request[c].pc = "idle"
    /\ IF Late(c) THEN Finish(c, "deadline")
       ELSE \/ Finish(c, "rejected")
            \/ \E h \in Host :
                 request' = [request EXCEPT ![c].pc = IF h \in Literal THEN "loop" ELSE "resolve",
                                            ![c].host = h, ![c].began = clock]
    /\ UNCHANGED <<clock, pending, resolution>>

(* Mutant: a resolver thread per host.                                     *)
OccupiedForHost(c) ==
    /\ pending # NoCall /\ resolution[pending].state = "running"
    /\ request[pending].host = request[c].host

(* A worker still resolves, for this call or another one.                  *)
Occupied(c) == pending # NoCall /\ resolution[pending].state = "running"

(* Mutant: a shared answer of any host.                                    *)
MayJoinAny(c) == pending # NoCall

(* A finished lookup is never reused; a running one only for its own host. *)
MayJoin(c) == request[pending].host = request[c].host

(* The section under _resolution_lock.                                     *)
JoinResolution(c) ==
    /\ request[c].pc = "resolve"
    /\ CASE Late(c) -> Finish(c, "deadline") /\ UNCHANGED <<pending, resolution>>
         [] ~Late(c) /\ ~Occupied(c) ->
              /\ pending' = c
              /\ resolution' = [resolution EXCEPT ![c].state = "running"]
              /\ request' = [request EXCEPT ![c].pc = "await", ![c].on = c]
         [] OTHER ->
              /\ UNCHANGED <<pending, resolution>>
              /\ IF MayJoin(c)
                 THEN request' = [request EXCEPT ![c].pc = "await", ![c].on = pending]
                 ELSE Finish(c, "deadline")
    /\ UNCHANGED clock

(* The worker thread of c: the resolver returns or raises, at any time,    *)
(* also after every waiter has left.                                       *)
ResolverAnswers(c) ==
    /\ resolution[c].state = "running"
    /\ \E answer \in Answers :
         resolution' = [resolution EXCEPT ![c] = [state |-> answer, at |-> clock]]
    /\ UNCHANGED <<clock, pending, request>>

(* completed.wait(remaining): addresses in time, the resolver's failure    *)
(* (an OSError refuses the host, any other error is raised as it is), or   *)
(* the deadline; any unsafe address refuses the host, and the path is      *)
(* looked at last.                                                         *)
AwaitResolution(c) ==
    /\ request[c].pc = "await"
    /\ LET state == resolution[request[c].on].state
       IN CASE Late(c) -> Finish(c, "deadline")
            [] ~Late(c) /\ state = "public" -> Goto(c, "loop") \/ Finish(c, "rejected")
            [] ~Late(c) /\ state \in {"unsafe", "oserror"} -> Finish(c, "rejected")
            [] ~Late(c) /\ state = "error" -> Finish(c, "raised")
            [] OTHER -> FALSE
    /\ UNCHANGED <<clock, pending, resolution>>

(* The head of the attempt loop.                                           *)
Send(c) ==
    /\ request[c].pc = "loop"
    /\ IF Late(c) THEN Finish(c, "deadline")
       ELSE request' = [request EXCEPT ![c].pc = "sent", ![c].sends = @ + 1]
    /\ UNCHANGED <<clock, pending, resolution>>

(* _sleep_before_retry, then the next attempt.                             *)
BackOff(c, delay) ==
    IF clock + delay >= Deadline(c) THEN Finish(c, "deadline")
    ELSE request' = [request EXCEPT ![c].pc = "asleep", ![c].attempt = @ + 1]

(* The sleeper returns: after the delay, as mcp_bootstrap passes it, or at *)
(* once, as it is by default; by the clock of the client, at any time.     *)
WakeUp(c) ==
    /\ request[c].pc = "asleep"
    /\ Goto(c, "loop")
    /\ UNCHANGED <<clock, pending, resolution>>

(* Mutant: the new target gets attempts of its own.                        *)
FollowAfresh(c) ==
    /\ request[c].pc = "sent"
    /\ IF request[c].redirects + 1 > MaxRedirects THEN Finish(c, "rejected")
       ELSE request' = [request EXCEPT ![c].pc = "loop", ![c].redirects = @ + 1, ![c].attempt = 1]
    /\ UNCHANGED <<clock, pending, resolution>>

(* A redirect costs no attempt; a refused one ends the call.               *)
FollowRedirect(c) ==
    /\ request[c].pc = "sent"
    /\ IF request[c].redirects + 1 > MaxRedirects THEN Finish(c, "rejected")
       ELSE \/ Finish(c, "rejected")
            \/ request' = [request EXCEPT ![c].pc = "loop", ![c].redirects = @ + 1]
    /\ UNCHANGED <<clock, pending, resolution>>

(* 429 and 5xx: retried while attempts are left; the last one is read as   *)
(* an ordinary response.                                                   *)
RetryStatus(c) ==
    /\ request[c].pc = "sent"
    /\ IF request[c].attempt < MaxAttempts
       THEN \E delay \in ResponseDelays(request[c].attempt) : BackOff(c, delay)
       ELSE Goto(c, "body")
    /\ UNCHANGED <<clock, pending, resolution>>

(* Headers of any other response: the content type is accepted or not.     *)
ReadHeaders(c) ==
    /\ request[c].pc = "sent"
    /\ Goto(c, "body") \/ Finish(c, "rejected")
    /\ UNCHANGED <<clock, pending, resolution>>

(* The body: too long, or complete, and then still subject to the deadline *)
ReadBody(c) ==
    /\ request[c].pc = "body"
    /\ IF Late(c) THEN Finish(c, "deadline")
       ELSE Finish(c, "response") \/ Finish(c, "rejected")
    /\ UNCHANGED <<clock, pending, resolution>>

(* A transport error, before or in the body.                               *)
TransportFails(c) ==
    /\ request[c].pc \in {"sent", "body"}
    /\ CASE Late(c) -> Finish(c, "deadline")
         [] ~Late(c) /\ request[c].attempt >= MaxAttempts -> Finish(c, "unavailable")
         [] OTHER -> \E jitter \in 0..MaxJitter :
                        BackOff(c, RetryDelay(request[c].attempt, jitter))
    /\ UNCHANGED <<clock, pending, resolution>>

(* Mutant: only the wait for the headers is cut.                           *)
HeaderBudgetExpires(c) ==
    /\ request[c].pc = "sent" /\ Late(c)
    /\ Finish(c, "deadline")
    /\ UNCHANGED <<clock, pending, resolution>>

(* _DeadlineBudget: each blocking operation is cut at the deadline.        *)
BudgetExpires(c) ==
    /\ request[c].pc \in {"sent", "body"} /\ Late(c)
    /\ Finish(c, "deadline")
    /\ UNCHANGED <<clock, pending, resolution>>

Tick == clock < MaxTime /\ clock' = clock + 1 /\ UNCHANGED <<pending, resolution, request>>

(* What a call does by itself; what a server or a resolver does.           *)
CallStep(c) == \/ Admit(c) \/ JoinResolution(c) \/ AwaitResolution(c)
               \/ Send(c) \/ WakeUp(c) \/ BudgetExpires(c)
ServerStep(c) == \/ ResolverAnswers(c) \/ FollowRedirect(c) \/ RetryStatus(c)
                 \/ ReadHeaders(c) \/ ReadBody(c) \/ TransportFails(c)

HttpNext == Tick \/ \E c \in Call : CallStep(c) \/ ServerStep(c)

HttpSpec == HttpInit /\ [][HttpNext]_httpVars

(* The host's threads run and its clock advances; no resolver and no       *)
(* server owes an answer.                                                  *)
HttpFairness == WF_httpVars(Tick) /\ \A c \in Call : WF_httpVars(CallStep(c))

-----------------------------------------------------------------------------

\* However attempts, redirects and sleeps interleave, a response is only
\* returned strictly before the effective deadline, on the strength of a
\* resolution for the call's own host that was public and answered after the
\* call began: a resolver that answers late, or for another call, never
\* supplies the addresses a connection is pinned to, unless the host is an
\* address itself (http_client.py:456-492, 534-548, 694-699, 711-719).
ResponseIsTimelyAndPinned ==
    \A c \in Call :
        /\ request[c].outcome = "response" => request[c].ended < Deadline(c)
        /\ request[c].sends > 0 /\ request[c].host \notin Literal =>
             LET r == request[c].on
             IN /\ request[r].host = request[c].host
                /\ resolution[r].state = "public"
                /\ resolution[r].at >= request[c].began

\* Redirects and retries share no budget, yet together they bound what one
\* call sends to a provider (http_client.py:638-737).
SendsAreBounded ==
    \A c \in Call : request[c].sends <= MaxAttempts + MaxRedirects

\* Calls that time out while a resolver hangs leave at most one resolver
\* thread behind, whatever they ask for next (http_client.py:463-487).
OneResolverThread ==
    Cardinality({c \in Call : resolution[c].state = "running"}) <= 1

\* A call ends although the resolver hangs, the server is silent, or every
\* answer is a redirect or a retryable status (http_client.py:150-167, 643-737).
EveryCallEnds == \A c \in Call : <>(request[c].pc = "done")
====
