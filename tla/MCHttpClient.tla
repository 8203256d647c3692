---- MODULE MCHttpClient ----
(* Two calls, one with a deadline before the run's and one after it.        *)
EXTENDS HttpClient

Calls == {"c1", "c2"}
Deadlines == [c \in Calls |-> IF c = "c1" THEN 2 ELSE 4]

FairHttpSpec == HttpSpec /\ HttpFairness
====
