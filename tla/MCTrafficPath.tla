---- MODULE MCTrafficPath ----
(* TrafficPath for TLC: the batches of scenarios/http-negative-suite.yaml cut
   down to the cases that interact. *)
EXTENDS TrafficPath

Retry(attempts, statuses, net) ==
  [attempts |-> attempts, delayMs |-> 100, backoffFactor |-> 2,
   statuses |-> statuses, networkError |-> net]
Expect(statuses, net, attempts, minMs) ==
  [statuses |-> statuses, emptyStatuses |-> FALSE, networkFailure |-> net,
   attempts |-> attempts, minMs |-> minMs, maxMs |-> Absent]
Request(id, op, key_, retry, expect) ==
  [id |-> id, op |-> op, key |-> key_, identifier |-> TRUE, synthetic |-> TRUE,
   path |-> "relative", headers |-> {"x-forwarded-for"}, method |-> "POST",
   bodyBytes |-> 64, timeoutMs |-> 10000, abortAfterMs |-> Absent,
   delayBeforeMs |-> 0, retry |-> retry, expect |-> expect]
Once == Retry(1, {}, FALSE)
Any2xx == Expect({}, FALSE, Absent, Absent)

\* An event sent with retries beside a duplicate of it; two
\* events, one after the other and a delay; a probe that needs its third attempt; a probe
\* sent twice under one key; a client that disconnects; a batch that is refused
\* for its second request.
Duplicates == [concurrency |-> 2, requests |-> <<
  Request("first", "events", "k1", Retry(2, {500}, TRUE), Any2xx),
  Request("again", "events", "k1", Once, Any2xx)>>]
Two == [concurrency |-> 1, requests |-> <<
  Request("first", "events", "k1", Once, Any2xx),
  [Request("other", "events", "k2", Once, Any2xx) EXCEPT !.delayBeforeMs = 50]>>]
Transient == [concurrency |-> 1, requests |-> <<
  Request("transient", "retry", "k1", Retry(3, {502, 503, 504}, TRUE),
          Expect({202, 204}, FALSE, 3, 300))>>]
Same == [concurrency |-> 2, requests |-> <<
  Request("same", "idempotent", "k1", Once, Expect({202, 204, 409}, FALSE, Absent, Absent)),
  Request("same-2", "idempotent", "k1", Once, Expect({202, 204, 409}, FALSE, Absent, Absent))>>]
Leave == [concurrency |-> 2, requests |-> <<
  [Request("leave", "slow", "k2", Once, Expect({}, TRUE, Absent, Absent)) EXCEPT
     !.abortAfterMs = 50]>>]
Refused == [concurrency |-> 1, requests |-> <<
  Request("fine", "events", "k1", Once, Any2xx),
  [Request("body", "events", "k2", Once, Any2xx) EXCEPT !.method = "GET"]>>]
MCBatch == {Duplicates, Two, Transient, Same, Leave, Refused}
====
