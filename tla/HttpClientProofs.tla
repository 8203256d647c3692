---------------------------- MODULE HttpClientProofs ----------------------------
(* Theorems about HttpClient, for all calls, hosts, deadlines and limits.      *)
EXTENDS HttpClient, FiniteSetTheorems, TLAPS

Unresolved == {"idle", "resolve", "await"}
Exchanging == {"loop", "sent", "asleep", "body"}

(* What a request sent so far: less than attempts and redirects together       *)
(* wherever the next step may send, nothing before the addresses are known.    *)
Budgeted(r) ==
    /\ r.sends <= r.attempt + r.redirects /\ r.redirects <= MaxRedirects
    /\ r.pc \in {"loop", "asleep"} => r.sends < r.attempt + r.redirects
    /\ r.pc \in Unresolved => r.sends = 0

(* The resolution r waits for or relies on: of its host, not older than it.    *)
Shared(r) == /\ r.on \in Call /\ request[r.on].host = r.host
             /\ resolution[r.on].state # "none"
             /\ resolution[r.on].state # "running" => resolution[r.on].at >= r.began
Pinned(r) == Shared(r) /\ resolution[r.on].state = "public"

Sound(c, r) ==
    /\ Budgeted(r) /\ r.began <= clock
    /\ r.pc = "await" => Shared(r)
    /\ (r.pc \in Exchanging \/ r.sends > 0) /\ r.host \notin Literal => Pinned(r)
    /\ r.outcome = "response" => r.ended < Deadline(c)

(* A call resolves at most once, and only the pending resolution is running.   *)
Worker(c) == /\ resolution[c].state = "running" => pending = c
             /\ resolution[c].state # "none" => request[c].pc \notin {"idle", "resolve"}

HttpInv == HttpTypeOK /\ \A c \in Call : Sound(c, request[c]) /\ Worker(c)

-----------------------------------------------------------------------------
\* The effective deadline of a call is a time (http_client.py:461).
LEMMA DeadlineType == \A c \in Call : Deadline(c) \in Nat
BY HttpAssumption DEF Deadline, LesserOf

\* The delay of an attempt is a number of ticks, whatever the exponent.
LEMMA DelayType ==
  ASSUME NEW attempt \in 1..MaxAttempts, NEW jitter \in 0..MaxJitter
  PROVE  RetryDelay(attempt, jitter) \in Int
<1>1. attempt - 1 \in Nat /\ BaseDelay \in Int /\ MaxRetryDelay \in Int /\ jitter \in Int
  BY HttpAssumption
<1>2. 2^(attempt - 1) \in Int
  BY <1>1
<1>3. BaseDelay * 2^(attempt - 1) \in Int
  BY <1>1, <1>2
<1>4. QED
  BY <1>1, <1>3 DEF RetryDelay, LesserOf

(* What only the call itself touches: others rely on its host and resolution   *)
(* only once it has one.                                                        *)
LEMMA Advances ==
  ASSUME HttpInv, NEW c \in Call, NEW r \in Request,
         request' = [request EXCEPT ![c] = r],
         r.host = request[c].host \/ request[c].pc = "idle",
         r.pc \notin {"idle", "resolve"} \/ request[c].pc = "idle",
         Sound(c, r), UNCHANGED <<clock, pending, resolution>>
  PROVE  HttpInv'
<1>1. HttpTypeOK'
  BY DEF HttpInv, HttpTypeOK
<1>2. \A d \in Call : request'[d] = IF d = c THEN r ELSE request[d]
  BY DEF HttpInv, HttpTypeOK
<1>3. ASSUME NEW d \in Call PROVE Worker(d)'
  <2>1. Worker(d) /\ Worker(c)
    BY DEF HttpInv
  <2>2. QED
    BY <2>1, <1>2 DEF Worker
<1>4. ASSUME NEW d \in Call, NEW q, Shared(q) PROVE Shared(q)'
  <2>1. request[q.on].host = request'[q.on].host
    BY <1>2, <1>4 DEF Shared, HttpInv, Worker
  <2>2. QED
    BY <2>1, <1>4 DEF Shared
<1>5. ASSUME NEW d \in Call, NEW q, Sound(d, q) PROVE Sound(d, q)'
  BY <1>4, <1>5 DEF Sound, Pinned, Deadline, Budgeted
<1>6. ASSUME NEW d \in Call PROVE Sound(d, request[d])'
  BY <1>2, <1>5 DEF HttpInv
<1>7. QED
  BY <1>1, <1>3, <1>6 DEF HttpInv

(* The invariant, taken apart for one call.                                    *)
LEMMA Typed ==
  ASSUME HttpInv
  PROVE  /\ clock \in 0..MaxTime /\ clock \in Nat /\ pending \in Call \cup {NoCall}
         /\ \A c \in Call : /\ request[c] \in Request /\ resolution[c] \in Resolution
                            /\ Sound(c, request[c]) /\ Worker(c) /\ Deadline(c) \in Nat
BY HttpAssumption, DeadlineType DEF HttpInv, HttpTypeOK

\* A call ends: a response only before its deadline.
LEMMA FinishKeeps ==
  ASSUME HttpInv, NEW c \in Call, NEW outcome \in Failures \cup {"response"},
         Finish(c, outcome), outcome = "response" => ~Late(c),
         UNCHANGED <<clock, pending, resolution>>
  PROVE  HttpInv'
<1> DEFINE r == [request[c] EXCEPT !.pc = "done", !.outcome = outcome, !.ended = clock]
<1>1. request' = [request EXCEPT ![c] = r]
  BY DEF Finish
<1>2. r \in Request
  BY Typed DEF Request
<1>3. /\ r.pc = "done" /\ r.outcome = outcome /\ r.ended = clock
      /\ r.host = request[c].host /\ r.sends = request[c].sends /\ r.on = request[c].on
      /\ r.attempt = request[c].attempt /\ r.redirects = request[c].redirects
      /\ r.began = request[c].began
  BY Typed DEF Request
<1>4. Sound(c, r)
  BY <1>3, Typed DEF Sound, Budgeted, Pinned, Shared, Late, Unresolved, Exchanging
<1>5. QED
  BY <1>1, <1>2, <1>3, <1>4, Advances

\* A call is refused, or starts with the host it asks for.
LEMMA AdmitKeeps ==
  ASSUME HttpInv, NEW c \in Call, Admit(c)
  PROVE  HttpInv'
<1>1. CASE Finish(c, "deadline") \/ Finish(c, "rejected")
  BY <1>1, FinishKeeps DEF Admit, Failures
<1>2. ASSUME NEW h \in Host,
             request' = [request EXCEPT ![c].pc = IF h \in Literal THEN "loop" ELSE "resolve",
                                        ![c].host = h, ![c].began = clock]
      PROVE  HttpInv'
  <2> DEFINE r == [request[c] EXCEPT !.pc = IF h \in Literal THEN "loop" ELSE "resolve",
                                     !.host = h, !.began = clock]
  <2>1. request' = [request EXCEPT ![c] = r] /\ request[c].pc = "idle"
    BY <1>2 DEF Admit
  <2>2. r \in Request
    BY Typed DEF Request
  <2>3. /\ r.pc = (IF h \in Literal THEN "loop" ELSE "resolve") /\ r.host = h /\ r.began = clock
        /\ r.sends = request[c].sends /\ r.attempt = request[c].attempt
        /\ r.redirects = request[c].redirects /\ r.outcome = request[c].outcome
        /\ r.ended = request[c].ended
    BY Typed DEF Request
  <2>4. Sound(c, r)
    <3>2. Budgeted(r)
      BY <2>1, <2>3, HttpAssumption, Typed DEF Sound, Budgeted, Unresolved, Request
    <3>3. (r.pc \in Exchanging \/ r.sends > 0) /\ r.host \notin Literal => FALSE
      BY <2>1, <2>3, Typed DEF Sound, Budgeted, Unresolved, Exchanging
    <3> QED BY <2>1, <2>3, <3>2, <3>3, Typed DEF Sound
  <2>5. request[c].pc = "idle" /\ UNCHANGED <<clock, pending, resolution>>
    BY <2>1 DEF Admit
  <2>6. QED
    BY <2>1, <2>2, <2>4, <2>5, Advances
<1>3. QED
  BY <1>1, <1>2 DEF Admit

\* A wait ends in a failure, or in public addresses the call relies on.
LEMMA AwaitKeeps ==
  ASSUME HttpInv, NEW c \in Call, AwaitResolution(c)
  PROVE  HttpInv'
<1>1. CASE Finish(c, "deadline") \/ Finish(c, "rejected") \/ Finish(c, "raised")
  BY <1>1, FinishKeeps DEF AwaitResolution, Failures
<1>2. CASE Goto(c, "loop") /\ resolution[request[c].on].state = "public"
  <2> DEFINE r == [request[c] EXCEPT !.pc = "loop"]
  <2>1. request' = [request EXCEPT ![c] = r] /\ request[c].pc = "await"
    BY <1>2 DEF AwaitResolution, Goto
  <2>2. r \in Request
    BY Typed DEF Request
  <2>3. /\ r.pc = "loop" /\ r.host = request[c].host /\ r.on = request[c].on
        /\ r.sends = request[c].sends /\ r.attempt = request[c].attempt
        /\ r.redirects = request[c].redirects /\ r.outcome = request[c].outcome
        /\ r.ended = request[c].ended /\ r.began = request[c].began
    BY Typed DEF Request
  <2>4. r.sends < r.attempt + r.redirects
    BY <2>1, <2>3, Typed DEF Request, Sound, Budgeted, Unresolved
  <2>5. Sound(c, r)
    BY <1>2, <2>1, <2>3, <2>4, Typed
    DEF Sound, Budgeted, Pinned, Shared, Unresolved, Exchanging
  <2>6. QED
    BY <2>1, <2>2, <2>3, <2>5, Advances DEF AwaitResolution
<1>3. QED
  BY <1>1, <1>2 DEF AwaitResolution

\* Under the lock: a new worker starts, or a running one is shared.
LEMMA JoinKeeps ==
  ASSUME HttpInv, NEW c \in Call, JoinResolution(c)
  PROVE  HttpInv'
<1>1. CASE Finish(c, "deadline") /\ UNCHANGED <<pending, resolution>>
  BY <1>1, FinishKeeps DEF JoinResolution, Failures
<1>2. CASE /\ ~Occupied(c) /\ pending' = c
           /\ resolution' = [resolution EXCEPT ![c].state = "running"]
           /\ request' = [request EXCEPT ![c].pc = "await", ![c].on = c]
  <2> DEFINE r == [request[c] EXCEPT !.pc = "await", !.on = c]
             l == [resolution[c] EXCEPT !.state = "running"]
  <2>1. request[c].pc = "resolve" /\ clock' = clock
    BY DEF JoinResolution
  <2>2. r \in Request
    BY Typed DEF Request
  <2>3. /\ r.pc = "await" /\ r.on = c /\ r.host = request[c].host
        /\ r.sends = request[c].sends /\ r.attempt = request[c].attempt
        /\ r.redirects = request[c].redirects /\ r.outcome = request[c].outcome
        /\ r.ended = request[c].ended /\ r.began = request[c].began
    BY Typed DEF Request
  <2>4. l \in Resolution /\ l.state = "running" /\ resolution[c].state = "none"
    BY <2>1, Typed DEF Resolution, Worker
  <2>5. \A d \in Call : /\ request'[d] = IF d = c THEN r ELSE request[d]
                        /\ resolution'[d] = IF d = c THEN l ELSE resolution[d]
    BY <1>2 DEF HttpInv, HttpTypeOK
  <2>6. HttpTypeOK'
    BY <1>2, <2>1, <2>2, <2>4 DEF HttpInv, HttpTypeOK
  <2>7. \A d \in Call : resolution[d].state # "running"
    BY <1>2, Typed, HttpAssumption DEF Worker, Occupied
  <2>8. ASSUME NEW d \in Call PROVE Worker(d)'
    <3>1. CASE d = c
      BY <1>2, <2>3, <2>5, <3>1 DEF Worker
    <3>2. CASE d # c
      BY <2>5, <2>7, <3>2, Typed DEF Worker
    <3> QED BY <3>1, <3>2
  <2>9. ASSUME NEW d \in Call, d # c PROVE Sound(d, request[d])'
    <3>1. request'[d] = request[d] /\ clock' = clock
      BY <2>1, <2>5, <2>9
    <3>2. \A e \in Call : request'[e].host = request[e].host
      BY <2>3, <2>5
    <3>3. \A e \in Call : resolution[e].state # "none" => resolution'[e] = resolution[e]
      BY <2>4, <2>5
    <3>4. /\ Shared(request[d]) => Shared(request[d])'
          /\ Pinned(request[d]) => Pinned(request[d])'
      BY <3>1, <3>2, <3>3 DEF Shared, Pinned
    <3>5. /\ Budgeted(request[d])' <=> Budgeted(request[d])
          /\ Deadline(d)' = Deadline(d) /\ Sound(d, request[d])
      BY <3>1, Typed DEF Budgeted, Deadline
    <3> QED BY <3>1, <3>4, <3>5 DEF Sound
  <2>10. Sound(c, request[c])'
    <3>1. request'[c] = r /\ resolution'[c] = l
      BY <2>5
    <3>2. Budgeted(r) /\ r.sends = 0
      BY <2>1, <2>3, Typed DEF Sound, Budgeted, Unresolved
    <3>3. /\ request'[c].on = c /\ request'[c].host = r.host
          /\ resolution'[c].state = "running"
      BY <2>3, <2>4, <3>1
    <3>4. /\ Budgeted(request[c])' /\ (request[c].began <= clock)'
          /\ (request[c].outcome = "response" => request[c].ended < Deadline(c))'
      BY <2>1, <2>3, <3>1, <3>2, Typed DEF Sound, Budgeted, Deadline
    <3>5. Shared(request[c])'
      BY <3>3, <3>1 DEF Shared
    <3>6. request'[c].pc = "await" /\ request'[c].sends = 0
      BY <2>3, <3>1, <3>2
    <3>7. QED
      BY <3>4, <3>5, <3>6 DEF Sound, Exchanging
  <2>11. QED
    BY <2>6, <2>8, <2>9, <2>10 DEF HttpInv
<1>3. CASE /\ Occupied(c) /\ MayJoin(c) /\ UNCHANGED <<pending, resolution>>
           /\ request' = [request EXCEPT ![c].pc = "await", ![c].on = pending]
  <2> DEFINE r == [request[c] EXCEPT !.pc = "await", !.on = pending]
  <2>1. request[c].pc = "resolve" /\ clock' = clock /\ request' = [request EXCEPT ![c] = r]
    BY <1>3 DEF JoinResolution
  <2>2. pending \in Call /\ r \in Request
    BY <1>3, Typed DEF Request, Occupied
  <2>3. /\ r.pc = "await" /\ r.on = pending /\ r.host = request[c].host
        /\ r.sends = request[c].sends /\ r.attempt = request[c].attempt
        /\ r.redirects = request[c].redirects /\ r.outcome = request[c].outcome
        /\ r.ended = request[c].ended /\ r.began = request[c].began
    BY Typed DEF Request
  <2>4. Sound(c, r)
    <3>1. Budgeted(r) /\ r.sends = 0
      BY <2>1, <2>3, Typed DEF Sound, Budgeted, Unresolved
    <3>2. resolution[pending].state = "running" /\ request[pending].host = request[c].host
      BY <1>3 DEF Occupied, MayJoin
    <3>3. Shared(r)
      BY <2>2, <2>3, <3>2 DEF Shared
    <3>4. r.began <= clock /\ (r.outcome = "response" => r.ended < Deadline(c))
      BY <2>3, Typed DEF Sound
    <3> QED BY <2>3, <3>1, <3>3, <3>4 DEF Sound, Exchanging
  <2>5. QED
    BY <1>3, <2>1, <2>2, <2>3, <2>4, Advances
<1>4. CASE Occupied(c) /\ Finish(c, "deadline")
  BY <1>1, <1>4 DEF JoinResolution
<1>5. QED
  BY <1>1, <1>2, <1>3, <1>4 DEF JoinResolution

\* An answer comes after every call that shares it began.
LEMMA AnswerKeeps ==
  ASSUME HttpInv, NEW c \in Call, ResolverAnswers(c)
  PROVE  HttpInv'
<1>1. PICK answer \in Answers :
        resolution' = [resolution EXCEPT ![c] = [state |-> answer, at |-> clock]]
  BY DEF ResolverAnswers
<1>2. /\ resolution[c].state = "running" /\ answer \notin {"none", "running"}
      /\ UNCHANGED <<clock, pending, request>>
  BY DEF ResolverAnswers, Answers
<1>3. \A d \in Call : resolution'[d] = IF d = c THEN [state |-> answer, at |-> clock]
                                       ELSE resolution[d]
  BY <1>1 DEF HttpInv, HttpTypeOK
<1>4. HttpTypeOK'
  BY <1>1, <1>2 DEF HttpInv, HttpTypeOK, Resolution
<1>5. ASSUME NEW d \in Call PROVE Worker(d)'
  BY <1>2, <1>3, Typed DEF Worker
<1>6. ASSUME NEW d \in Call PROVE Sound(d, request[d])'
  BY <1>2, <1>3, Typed DEF Sound, Budgeted, Pinned, Shared, Deadline, Request
<1>7. QED
  BY <1>4, <1>5, <1>6 DEF HttpInv

\* A call that exchanges goes on, at the price of an attempt, a redirect or a send.
LEMMA ExchangeKeeps ==
  ASSUME HttpInv, NEW c \in Call, NEW r \in Request,
         request[c].pc \in Exchanging, r.pc \in Exchanging,
         request' = [request EXCEPT ![c] = r], UNCHANGED <<clock, pending, resolution>>,
         r.host = request[c].host, r.on = request[c].on, r.began = request[c].began,
         r.outcome = request[c].outcome, r.ended = request[c].ended, Budgeted(r)
  PROVE  HttpInv'
<1>1. Sound(c, r)
  BY Typed DEF Sound, Pinned, Shared, Exchanging
<1>2. QED
  BY <1>1, Advances DEF Exchanging

\* A send uses up the room that the last attempt or redirect made.
LEMMA SendKeeps ==
  ASSUME HttpInv, NEW c \in Call, Send(c)
  PROVE  HttpInv'
<1>1. CASE Finish(c, "deadline")
  BY <1>1, FinishKeeps DEF Send, Failures
<1>2. CASE request' = [request EXCEPT ![c].pc = "sent", ![c].sends = @ + 1]
  <2> DEFINE r == [request[c] EXCEPT !.pc = "sent", !.sends = @ + 1]
  <2>1. request' = [request EXCEPT ![c] = r] /\ request[c].pc = "loop"
    BY <1>2 DEF Send
  <2>2. r \in Request
    <3>1. request[c] \in Request
      BY Typed
    <3>2. request[c].sends + 1 \in Nat
      BY <3>1 DEF Request
    <3>3. "sent" \in {"idle", "resolve", "await", "loop", "sent", "asleep", "body", "done"}
      OBVIOUS
    <3>4. QED
      BY ONLY <3>1, <3>2, <3>3 DEF Request
  <2>3. /\ r.pc = "sent" /\ r.host = request[c].host /\ r.on = request[c].on
        /\ r.sends = request[c].sends + 1 /\ r.attempt = request[c].attempt
        /\ r.redirects = request[c].redirects /\ r.outcome = request[c].outcome
        /\ r.ended = request[c].ended /\ r.began = request[c].began
    BY Typed DEF Request
  <2>4. Budgeted(r)
    BY <2>1, <2>3, HttpAssumption, Typed DEF Request, Sound, Budgeted, Unresolved
  <2>5. QED
    BY <2>1, <2>2, <2>3, <2>4, ExchangeKeeps DEF Send, Exchanging
<1>3. QED
  BY <1>1, <1>2 DEF Send

\* Waking up and reading the headers change nothing but the place.
LEMMA GotoKeeps ==
  ASSUME HttpInv, NEW c \in Call, NEW pc \in {"loop", "body"}, Goto(c, pc),
         request[c].pc = IF pc = "loop" THEN "asleep" ELSE "sent",
         UNCHANGED <<clock, pending, resolution>>
  PROVE  HttpInv'
<1> DEFINE r == [request[c] EXCEPT !.pc = pc]
<1>1. request' = [request EXCEPT ![c] = r]
  BY DEF Goto
<1>2. r \in Request
  BY Typed DEF Request
<1>3. /\ r.pc = pc /\ r.host = request[c].host /\ r.on = request[c].on
      /\ r.sends = request[c].sends /\ r.attempt = request[c].attempt
      /\ r.redirects = request[c].redirects /\ r.outcome = request[c].outcome
      /\ r.ended = request[c].ended /\ r.began = request[c].began
  BY Typed DEF Request
<1>4. Budgeted(r)
  BY <1>3, Typed DEF Sound, Budgeted, Unresolved
<1>5. QED
  BY <1>1, <1>2, <1>3, <1>4, ExchangeKeeps DEF Exchanging

\* A retry makes room for one send, unless its delay reaches the deadline.
LEMMA BackOffKeeps ==
  ASSUME HttpInv, NEW c \in Call, NEW delay \in Int, BackOff(c, delay),
         request[c].pc \in {"sent", "body"}, request[c].attempt < MaxAttempts,
         UNCHANGED <<clock, pending, resolution>>
  PROVE  HttpInv'
<1>1. CASE Finish(c, "deadline")
  BY <1>1, FinishKeeps DEF Failures
<1>2. CASE request' = [request EXCEPT ![c].pc = "asleep", ![c].attempt = @ + 1]
  <2> DEFINE r == [request[c] EXCEPT !.pc = "asleep", !.attempt = @ + 1]
  <2>1. request' = [request EXCEPT ![c] = r]
    BY <1>2
  <2>2. request[c].attempt + 1 \in 1..MaxAttempts
    BY Typed, HttpAssumption DEF Request
  <2>3. r \in Request
    <3>1. request[c] \in Request
      BY Typed
    <3> QED BY ONLY <2>2, <3>1 DEF Request
  <2>4. /\ r.pc = "asleep" /\ r.host = request[c].host /\ r.on = request[c].on
        /\ r.sends = request[c].sends /\ r.attempt = request[c].attempt + 1
        /\ r.redirects = request[c].redirects /\ r.outcome = request[c].outcome
        /\ r.ended = request[c].ended /\ r.began = request[c].began
    BY Typed DEF Request
  <2>5. Budgeted(r)
    BY <2>4, HttpAssumption, Typed DEF Request, Sound, Budgeted, Unresolved
  <2>6. QED
    BY <2>1, <2>3, <2>4, <2>5, ExchangeKeeps DEF Exchanging
<1>3. QED
  BY <1>1, <1>2 DEF BackOff

\* A redirect makes room for one send.
LEMMA RedirectKeeps ==
  ASSUME HttpInv, NEW c \in Call, FollowRedirect(c)
  PROVE  HttpInv'
<1>1. CASE Finish(c, "rejected")
  BY <1>1, FinishKeeps DEF FollowRedirect, Failures
<1>2. CASE /\ request[c].redirects + 1 <= MaxRedirects
           /\ request' = [request EXCEPT ![c].pc = "loop", ![c].redirects = @ + 1]
  <2> DEFINE r == [request[c] EXCEPT !.pc = "loop", !.redirects = @ + 1]
  <2>1. request' = [request EXCEPT ![c] = r] /\ request[c].pc = "sent"
    BY <1>2 DEF FollowRedirect
  <2>2. request[c].redirects + 1 \in 0..(MaxRedirects + 1)
    BY <1>2, HttpAssumption, Typed DEF Request
  <2>3. r \in Request
    BY <2>2, Typed DEF Request
  <2>4. /\ r.pc = "loop" /\ r.host = request[c].host /\ r.on = request[c].on
        /\ r.sends = request[c].sends /\ r.attempt = request[c].attempt
        /\ r.redirects = request[c].redirects + 1 /\ r.outcome = request[c].outcome
        /\ r.ended = request[c].ended /\ r.began = request[c].began
    BY Typed DEF Request
  <2>5. Budgeted(r)
    BY <1>2, <2>1, <2>4, HttpAssumption, Typed DEF Request, Sound, Budgeted, Unresolved
  <2>6. QED
    BY <2>1, <2>3, <2>4, <2>5, ExchangeKeeps DEF FollowRedirect, Exchanging
<1>3. request[c].redirects \in Int /\ MaxRedirects \in Int
  BY HttpAssumption, Typed DEF Request
<1>4. QED
  BY <1>1, <1>2, <1>3 DEF FollowRedirect

\* What a server's answer, its silence or a transport error does to a call.
LEMMA ServerKeeps ==
  ASSUME HttpInv, NEW c \in Call,
         RetryStatus(c) \/ ReadHeaders(c) \/ ReadBody(c) \/ TransportFails(c)
           \/ BudgetExpires(c) \/ WakeUp(c)
  PROVE  HttpInv'
<1>1. CASE RetryStatus(c)
  <2>1. CASE request[c].attempt < MaxAttempts
    <3>1. PICK delay \in ResponseDelays(request[c].attempt) : BackOff(c, delay)
      BY <1>1, <2>1 DEF RetryStatus
    <3>2. delay \in Int
      BY DelayType, HttpAssumption, Typed DEF ResponseDelays, Request
    <3>3. QED
      BY <1>1, <2>1, <3>1, <3>2, BackOffKeeps DEF RetryStatus
  <2>2. CASE Goto(c, "body")
    BY <1>1, <2>2, GotoKeeps DEF RetryStatus
  <2>3. QED
    BY <1>1, <2>1, <2>2 DEF RetryStatus
<1>2. CASE ReadHeaders(c)
  BY <1>2, GotoKeeps, FinishKeeps DEF ReadHeaders, Failures
<1>3. CASE ReadBody(c)
  BY <1>3, FinishKeeps DEF ReadBody, Failures
<1>4. CASE TransportFails(c)
  <2>1. CASE Finish(c, "deadline") \/ Finish(c, "unavailable")
    BY <1>4, <2>1, FinishKeeps DEF TransportFails, Failures
  <2>2. ASSUME NEW jitter \in 0..MaxJitter, ~(request[c].attempt >= MaxAttempts),
               BackOff(c, RetryDelay(request[c].attempt, jitter))
        PROVE  HttpInv'
    <3>1. request[c].attempt < MaxAttempts /\ request[c].attempt \in 1..MaxAttempts
      BY <2>2, HttpAssumption, Typed DEF Request
    <3>2. RetryDelay(request[c].attempt, jitter) \in Int
      BY <3>1, DelayType
    <3>3. QED
      BY <1>4, <2>2, <3>1, <3>2, BackOffKeeps DEF TransportFails
  <2>3. QED
    BY <1>4, <2>1, <2>2 DEF TransportFails
<1>5. CASE BudgetExpires(c)
  BY <1>5, FinishKeeps DEF BudgetExpires, Failures
<1>6. CASE WakeUp(c)
  BY <1>6, GotoKeeps DEF WakeUp
<1>7. QED
  BY <1>1, <1>2, <1>3, <1>4, <1>5, <1>6

\* Time alone invalidates nothing the client relies on.
LEMMA TickKeeps ==
  ASSUME HttpInv, Tick
  PROVE  HttpInv'
<1>1. clock' \in 0..MaxTime /\ clock <= clock' /\ UNCHANGED <<pending, resolution, request>>
  BY HttpAssumption DEF HttpInv, HttpTypeOK, Tick
<1>2. \A c \in Call : request[c].began \in 0..MaxTime
  BY Typed DEF Request
<1>3. QED
  BY <1>1, <1>2, HttpAssumption
  DEF HttpInv, HttpTypeOK, Worker, Sound, Budgeted, Pinned, Shared, Deadline

-----------------------------------------------------------------------------
\* The inductive invariant of the client (http_client.py:456-492, 610-745).
THEOREM HttpInvariance == HttpSpec => []HttpInv
<1>1. HttpInit => HttpInv
  <2> SUFFICES ASSUME HttpInit PROVE HttpInv
    OBVIOUS
  <2>1. 0 \in 0..MaxTime /\ 1 \in 1..MaxAttempts /\ 0 \in 0..(MaxRedirects + 1)
    BY HttpAssumption
  <2>2. (CHOOSE h \in Host : TRUE) \in Host
    BY HttpAssumption
  <2>3. HttpTypeOK
    BY <2>1, <2>2 DEF HttpInit, HttpTypeOK, Request, Resolution
  <2>4. \A c \in Call : Sound(c, request[c]) /\ Worker(c)
    BY HttpAssumption DEF HttpInit, Sound, Budgeted, Unresolved, Exchanging, Worker
  <2>5. QED
    BY <2>3, <2>4 DEF HttpInv
<1>2. HttpInv /\ [HttpNext]_httpVars => HttpInv'
  <2> SUFFICES ASSUME HttpInv, [HttpNext]_httpVars PROVE HttpInv'
    OBVIOUS
  <2>1. CASE Tick
    BY <2>1, TickKeeps
  <2>2. ASSUME NEW c \in Call, CallStep(c) \/ ServerStep(c) PROVE HttpInv'
    BY <2>2, AdmitKeeps, JoinKeeps, AwaitKeeps, SendKeeps, AnswerKeeps, RedirectKeeps,
       ServerKeeps DEF CallStep, ServerStep
  <2>3. CASE UNCHANGED httpVars
    BY <2>3 DEF httpVars, HttpInv, HttpTypeOK, Worker, Sound, Budgeted, Pinned, Shared,
                Deadline
  <2>4. QED
    BY <2>1, <2>2, <2>3 DEF HttpNext
<1>3. QED
  BY <1>1, <1>2, PTL DEF HttpSpec

\* A response comes in time, from a named host on addresses resolved for it since
\* the call began, for any number of calls and any limits (http_client.py:456-492).
THEOREM ResponsesArePinned == HttpSpec => []ResponseIsTimelyAndPinned
<1>1. HttpInv => ResponseIsTimelyAndPinned
  BY DEF HttpInv, Sound, Pinned, Shared, ResponseIsTimelyAndPinned
<1>2. QED
  BY <1>1, HttpInvariance, PTL

\* Attempts and redirects bound the sends (http_client.py:638-737).
THEOREM SendsBounded == HttpSpec => []SendsAreBounded
<1>1. HttpInv => SendsAreBounded
  <2> SUFFICES ASSUME HttpInv, NEW c \in Call
               PROVE  request[c].sends <= MaxAttempts + MaxRedirects
    BY DEF SendsAreBounded
  <2>1. /\ request[c].attempt \in 1..MaxAttempts /\ request[c].redirects \in Nat
        /\ request[c].sends \in Nat /\ MaxAttempts \in Nat /\ MaxRedirects \in Nat
    BY HttpAssumption, Typed DEF Request
  <2>2. QED
    BY <2>1, Typed DEF Sound, Budgeted
<1>2. QED
  BY <1>1, HttpInvariance, PTL

\* A client never leaves a second resolver thread (http_client.py:463-487).
THEOREM OneResolver == HttpSpec => []OneResolverThread
<1>1. HttpInv => OneResolverThread
  <2> SUFFICES ASSUME HttpInv PROVE OneResolverThread
    OBVIOUS
  <2> DEFINE running == {c \in Call : resolution[c].state = "running"}
  <2>1. running \subseteq {pending}
    BY Typed DEF Worker
  <2>2. Cardinality({pending}) = 1 /\ IsFiniteSet({pending})
    BY FS_Singleton
  <2>3. Cardinality(running) <= Cardinality({pending})
    BY <2>1, <2>2, FS_Subset
  <2>4. QED
    BY <2>2, <2>3 DEF OneResolverThread
<1>2. QED
  BY <1>1, HttpInvariance, PTL
=================================================================================
