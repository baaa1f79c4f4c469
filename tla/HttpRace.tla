------------------------------ MODULE HttpRace ------------------------------
(***************************************************************************)
(* httpRequest.Execute of libcore/http.go, through which subscriptions,    *)
(* assets and update checks are fetched: one request over the local SOCKS5 *)
(* inbound or directly, and the race of an HTTP/1.1-over-ECH and an HTTP/3 *)
(* attempt that doH3Direct runs, takes the first success of and cleans up  *)
(* after; then the caller reads the returned response.                     *)
(***************************************************************************)
EXTENDS Naturals, Sequences, FiniteSets

CONSTANT Racers     \* the requestFuncs of doH3Direct: "tls" and "h3"

ASSUME RacersAssumption ==
  /\ IsFiniteSet(Racers)
  /\ "tls" \in Racers
  /\ Racers \cap {"h1", "none"} = {}

Requests == {"h1"} \cup Racers

VARIABLES options,  \* which of socks5 (TrySocks5) and h3 (TryH3Direct) are set
          funcs,    \* the attempts of the race: all, or "tls" for plain http
          exec,     \* where Execute is
          req,      \* each request: off, flying, answered, failed or sent
          body,     \* its response body: none, part (arriving), whole, cut, closed
          conn,     \* its transport: none, open or closed
          ctx,      \* the context of Execute and the one of doH3Direct
          results,  \* resultCh
          taken,    \* results the loop has received
          winner,   \* the request whose response is returned, "none" before
          content   \* what the reader got: "unread", "all" or "error"

vars == <<options, funcs, exec, req, body, conn, ctx, results, taken, winner, content>>

TypeOK ==
  /\ options \subseteq {"socks5", "h3"}
  /\ funcs \subseteq Racers
  /\ exec \in {"idle", "h1", "race", "returned", "failed"}
  /\ req \in [Requests -> {"off", "flying", "answered", "failed", "sent"}]
  /\ body \in [Requests -> {"none", "part", "whole", "cut", "closed"}]
  /\ conn \in [Requests -> {"none", "open", "closed"}]
  /\ ctx \in [{"h1", "race"} -> {"live", "ended"}]
  /\ results \in Seq(Racers) /\ Len(results) <= Cardinality(funcs)
  /\ taken \in 0..Cardinality(funcs)
  /\ winner \in Requests \cup {"none"}
  /\ content \in {"unread", "all", "error"}

Init ==
  /\ options \in SUBSET {"socks5", "h3"}
  /\ funcs \in {{"tls"}, Racers}
  /\ exec = "idle"
  /\ req = [r \in Requests |-> "off"]
  /\ body = [r \in Requests |-> "none"]
  /\ conn = [r \in Requests |-> "none"]
  /\ ctx = [c \in {"h1", "race"} |-> "live"]
  /\ results = <<>>
  /\ taken = 0
  /\ winner = "none"
  /\ content = "unread"

ContextOf(r) == IF r = "h1" THEN ctx["h1"] ELSE ctx["race"]

\* Every attempt is started with a transport of its own.
BeginRace(h1) ==
  /\ exec' = "race"
  /\ req' = [r \in Requests |-> IF r \in funcs THEN "flying"
                               ELSE IF r = "h1" THEN h1 ELSE "off"]
  /\ conn' = [r \in Requests |-> IF r \in funcs THEN "open" ELSE conn[r]]

\* Execute returns: both deferred cancels have run.
Return(outcome) ==
  /\ exec' = outcome
  /\ ctx' = [c \in {"h1", "race"} |-> "ended"]

-----------------------------------------------------------------------------
\* Execute.

ExecuteDirect ==
  /\ exec = "idle"
  /\ options = {"h3"}
  /\ BeginRace("off")
  /\ UNCHANGED <<options, funcs, body, ctx, results, taken, winner, content>>

ExecuteH1 ==
  /\ exec = "idle"
  /\ options # {"h3"}
  /\ exec' = "h1"
  /\ req' = [req EXCEPT !["h1"] = "flying"]
  /\ UNCHANGED <<options, funcs, body, conn, ctx, results, taken, winner, content>>

\* 200: the response is returned while its body is still arriving, or after.
H1Answers(b) ==
  /\ exec = "h1"
  /\ req' = [req EXCEPT !["h1"] = "answered"]
  /\ body' = [body EXCEPT !["h1"] = b]
  /\ winner' = "h1"
  /\ Return("returned")
  /\ UNCHANGED <<options, funcs, conn, results, taken, content>>

\* Another status: errorString reads and closes the body.
H1Refused ==
  /\ exec = "h1"
  /\ req' = [req EXCEPT !["h1"] = "failed"]
  /\ body' = [body EXCEPT !["h1"] = "closed"]
  /\ Return("failed")
  /\ UNCHANGED <<options, funcs, conn, results, taken, winner, content>>

H1Fails ==
  /\ exec = "h1"
  /\ req' = [req EXCEPT !["h1"] = "failed"]
  /\ Return("failed")
  /\ UNCHANGED <<options, funcs, body, conn, results, taken, winner, content>>

\* errFailConnectSocks5: nothing listens on the local inbound.
FallBack ==
  /\ exec = "h1"
  /\ options = {"socks5", "h3"}
  /\ BeginRace("failed")
  /\ UNCHANGED <<options, funcs, body, ctx, results, taken, winner, content>>

-----------------------------------------------------------------------------
\* The goroutines of the race.

RacerAnswers(r, b) ==
  /\ req[r] = "flying"
  /\ req' = [req EXCEPT ![r] = "answered"]
  /\ body' = [body EXCEPT ![r] = b]
  /\ UNCHANGED <<options, funcs, exec, conn, ctx, results, taken, winner, content>>

\* No response, or a status that is not 200 and whose body errorString has
\* read and closed: the transport is closed and the error joined.
RacerFails(r, b) ==
  /\ req[r] = "flying"
  /\ req' = [req EXCEPT ![r] = "failed"]
  /\ body' = [body EXCEPT ![r] = b]
  /\ conn' = [conn EXCEPT ![r] = "closed"]
  /\ UNCHANGED <<options, funcs, exec, ctx, results, taken, winner, content>>

\* RacerSends that reports only a success.
RacerSendsSuccess(r) ==
  /\ req[r] = "answered"
  /\ req' = [req EXCEPT ![r] = "sent"]
  /\ results' = Append(results, r)
  /\ UNCHANGED <<options, funcs, exec, body, conn, ctx, taken, winner, content>>

\* resultCh <- result; the channel (2 places for 2 attempts) has room for
\* every attempt: TypeOK bounds it by their number.
RacerSends(r) ==
  /\ req[r] \in {"answered", "failed"}
  /\ req' = [req EXCEPT ![r] = "sent"]
  /\ results' = Append(results, r)
  /\ UNCHANGED <<options, funcs, exec, body, conn, ctx, taken, winner, content>>

-----------------------------------------------------------------------------
\* The loop of doH3Direct.

Succeeded(r) == body[r] \notin {"none", "closed"}

Taking == exec = "race" /\ results # <<>>

Take ==
  /\ taken' = taken + 1
  /\ results' = Tail(results)

\* The first success wins and the shared context is cancelled.
TakeWinner ==
  /\ Taking
  /\ Succeeded(Head(results))
  /\ winner = "none"
  /\ winner' = Head(results)
  /\ ctx' = [ctx EXCEPT !["race"] = "ended"]
  /\ Take
  /\ UNCHANGED <<options, funcs, exec, req, body, conn, content>>

\* TakeDuplicate that lets the second success replace the first.
TakeLatest ==
  /\ Taking
  /\ Succeeded(Head(results))
  /\ winner # "none"
  /\ winner' = Head(results)
  /\ Take
  /\ UNCHANGED <<options, funcs, exec, req, body, conn, ctx, content>>

TakeDuplicate ==
  /\ Taking
  /\ Succeeded(Head(results))
  /\ winner # "none"
  /\ conn' = [conn EXCEPT ![Head(results)] = "closed"]
  /\ body' = [body EXCEPT ![Head(results)] = "closed"]
  /\ Take
  /\ UNCHANGED <<options, funcs, exec, req, ctx, winner, content>>

TakeError ==
  /\ Taking
  /\ ~Succeeded(Head(results))
  /\ Take
  /\ UNCHANGED <<options, funcs, exec, req, body, conn, ctx, winner, content>>

RaceEnds ==
  /\ exec = "race"
  /\ taken = Cardinality(funcs)
  /\ Return(IF winner = "none" THEN "failed" ELSE "returned")
  /\ UNCHANGED <<options, funcs, req, body, conn, results, taken, winner, content>>

-----------------------------------------------------------------------------
\* The contexts, the network and the reader.

\* r.timeout has passed since doH3Direct began.
Timeout ==
  /\ exec = "race"
  /\ ctx["race"] = "live"
  /\ ctx' = [ctx EXCEPT !["race"] = "ended"]
  /\ UNCHANGED <<options, funcs, exec, req, body, conn, results, taken, winner, content>>

\* The rest of a body arrives.
BodyArrives(r) ==
  /\ body[r] = "part"
  /\ body' = [body EXCEPT ![r] = "whole"]
  /\ UNCHANGED <<options, funcs, exec, req, conn, ctx, results, taken, winner, content>>

\* net/http and quic-go end the connection of a request whose context has
\* ended; what had not arrived by then never does.
ContextCutsBody(r) ==
  /\ body[r] = "part"
  /\ ContextOf(r) = "ended"
  /\ body' = [body EXCEPT ![r] = "cut"]
  /\ UNCHANGED <<options, funcs, exec, req, conn, ctx, results, taken, winner, content>>

\* GetContentWithLimit or WriteToWithLimit: the body is read to its end, or
\* refused for its size, and closeResources closes body and transport.
Read ==
  /\ exec = "returned"
  /\ content = "unread"
  /\ body[winner] \in {"whole", "cut"}
  /\ content' \in IF body[winner] = "whole" THEN {"all", "error"} ELSE {"error"}
  /\ body' = [body EXCEPT ![winner] = "closed"]
  /\ conn' = [conn EXCEPT ![winner] = IF @ = "open" THEN "closed" ELSE @]
  /\ UNCHANGED <<options, funcs, exec, req, ctx, results, taken, winner>>

Racer(r) ==
  \/ \E b \in {"part", "whole"} : RacerAnswers(r, b)
  \/ \E b \in {"none", "closed"} : RacerFails(r, b)
  \/ RacerSends(r)

Loop == TakeWinner \/ TakeDuplicate \/ TakeError \/ RaceEnds

Caller ==
  \/ ExecuteDirect
  \/ ExecuteH1
  \/ \E b \in {"part", "whole"} : H1Answers(b)
  \/ H1Refused
  \/ H1Fails
  \/ FallBack
  \/ Loop
  \/ Read

Next ==
  \/ Caller
  \/ \E r \in Racers : Racer(r)
  \/ Timeout
  \/ \E r \in Requests : BodyArrives(r) \/ ContextCutsBody(r)

\* Every request ends at the latest with the timeout of its context, and the
\* goroutines are scheduled.  A context that ended cuts its body.
Fairness ==
  /\ WF_vars(Caller)
  /\ \A r \in Racers : WF_vars(Racer(r))
  /\ \A r \in Requests : WF_vars(ContextCutsBody(r))

Spec == Init /\ [][Next]_vars /\ Fairness

-----------------------------------------------------------------------------
Ended == exec \in {"returned", "failed"}

\* Every attempt is released by someone: when Execute returns nothing is left
\* of an attempt that is not returned (its transport and its body are closed
\* and its goroutine has sent, also when both attempts succeed), and nothing of
\* the winner when its response has been read.
AttemptsReleased ==
  /\ Ended => \A r \in Racers \ {winner} :
                /\ conn[r] # "open"
                /\ body[r] \in {"none", "closed"}
                /\ req[r] \in {"off", "sent"}
  /\ content # "unread" => conn[winner] # "open" /\ body[winner] = "closed"

\* Execute returns whatever its attempts do: nobody waits for a result that
\* is never sent.
ExecuteReturns == <>Ended

\* "keep winner transport open; it will be closed when response body is
\* closed" (http.go): until the caller has read the returned response its
\* body can still be read.
WinnerKeptOpen ==
  exec = "returned" /\ winner \in Racers /\ content = "unread" => body[winner] # "cut"
=============================================================================
