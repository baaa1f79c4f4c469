--------------------------- MODULE HttpRaceProofs ---------------------------
(***************************************************************************)
(* The race of httpRequest.Execute leaves nothing behind, for any number   *)
(* of attempts.                                                            *)
(***************************************************************************)
EXTENDS HttpRace, FiniteSetTheorems, TLAPS

Sent == {r \in Racers : req[r] = "sent"}

Pending == {results[i] : i \in 1..Len(results)}

\* TypeOK without the bounds, which follow from the count of the attempts.
Types ==
  /\ options \subseteq {"socks5", "h3"}
  /\ funcs \subseteq Racers
  /\ exec \in {"idle", "h1", "race", "returned", "failed"}
  /\ req \in [Requests -> {"off", "flying", "answered", "failed", "sent"}]
  /\ body \in [Requests -> {"none", "part", "whole", "cut", "closed"}]
  /\ conn \in [Requests -> {"none", "open", "closed"}]
  /\ ctx \in [{"h1", "race"} -> {"live", "ended"}]
  /\ results \in Seq(Racers)
  /\ taken \in Nat
  /\ winner \in Requests \cup {"none"}
  /\ content \in {"unread", "all", "error"}

\* Who still holds a body or a transport.  An attempt that was not made holds
\* none, a failed one has closed both, and a success that has been reported
\* is the winner or still in the channel.
HoldInv ==
  /\ conn["h1"] = "none"
  /\ \A r \in Racers : req[r] = "off" => conn[r] = "none" /\ body[r] = "none"
  /\ \A r \in Racers : req[r] = "answered" => Succeeded(r)
  /\ \A r \in Racers : req[r] = "failed" => ~Succeeded(r)
  /\ \A r \in Racers : req[r] \in {"failed", "sent"} /\ ~Succeeded(r) => conn[r] # "open"
  /\ \A r \in Racers : req[r] = "sent" /\ Succeeded(r) => r = winner \/ r \in Pending

\* The count that ends the loop: every result that was sent is in the channel
\* or has been taken, and only attempts of the race send.
CountInv ==
  /\ taken + Len(results) = Cardinality(Sent)
  /\ Pending \subseteq Sent
  /\ \A r \in Racers \ funcs : req[r] = "off"

\* Where Execute is: no attempt before the race, none unfinished after it.
ExecInv ==
  /\ exec \in {"idle", "h1"} =>
       /\ \A r \in Racers : req[r] = "off"
       /\ taken = 0 /\ results = <<>> /\ winner = "none"
  /\ Ended => results = <<>> /\ \A r \in Racers : req[r] \in {"off", "sent"}
  /\ exec = "returned" => winner # "none"
  /\ content # "unread" =>
       exec = "returned" /\ conn[winner] # "open" /\ body[winner] = "closed"

RaceInv == Types /\ HoldInv /\ CountInv /\ ExecInv

\* What the queue operations do to the set of pending results.
LEMMA AppendPending ==
  ASSUME NEW r \in Racers, results \in Seq(Racers), results' = Append(results, r)
  PROVE  /\ results' \in Seq(Racers)
         /\ Len(results') = Len(results) + 1
         /\ Pending' = Pending \cup {r}
<1>1. /\ results' \in Seq(Racers) /\ Len(results') = Len(results) + 1 /\ Len(results) \in Nat
      /\ \A i \in 1..Len(results) : results'[i] = results[i]
      /\ results'[Len(results) + 1] = r
  OBVIOUS
<1> QED
  BY <1>1 DEF Pending

LEMMA TakePending ==
  ASSUME results \in Seq(Racers), results # <<>>, taken \in Nat, Take
  PROVE  /\ results' \in Seq(Racers)
         /\ taken' + Len(results') = taken + Len(results) /\ taken' \in Nat
         /\ Head(results) \in Racers
         /\ Pending \subseteq Pending' \cup {Head(results)}
         /\ Pending' \subseteq Pending /\ Head(results) \in Pending
<1>1. /\ results' \in Seq(Racers) /\ Len(results') = Len(results) - 1
      /\ Len(results) \in Nat \ {0}
      /\ \A i \in 1..Len(results') : results'[i] = results[i + 1]
      /\ Head(results) = results[1] /\ Head(results) \in Racers
  BY DEF Take
<1>2. ASSUME NEW p \in Pending, p # Head(results) PROVE p \in Pending'
  <2>1. PICK i \in 1..Len(results) : p = results[i]
    BY DEF Pending
  <2>2. i # 1 /\ i - 1 \in 1..Len(results') /\ results'[i - 1] = results[i]
    BY <1>1, <1>2, <2>1
  <2> QED
    BY <2>1, <2>2 DEF Pending
<1>3. Pending' \subseteq Pending /\ Head(results) \in Pending
  BY <1>1 DEF Pending
<1> QED
  BY <1>1, <1>2, <1>3 DEF Take

\* The bounds of the channel and of the loop's counter.
LEMMA Bounds ==
  ASSUME Types, CountInv
  PROVE  /\ IsFiniteSet(Sent) /\ Sent \subseteq funcs
         /\ taken + Len(results) <= Cardinality(funcs)
         /\ taken = Cardinality(funcs) => results = <<>> /\ Sent = funcs
<1>1. IsFiniteSet(funcs)
  BY RacersAssumption, FS_Subset DEF Types
<1>2. Sent \subseteq funcs
  BY DEF Sent, CountInv
<1>3. /\ IsFiniteSet(Sent) /\ Cardinality(Sent) <= Cardinality(funcs)
      /\ Cardinality(funcs) = Cardinality(Sent) => funcs = Sent
      /\ Cardinality(funcs) \in Nat /\ Cardinality(Sent) \in Nat
  BY <1>1, <1>2, FS_Subset, FS_CardinalityType
<1>4. Len(results) \in Nat /\ (Len(results) = 0 => results = <<>>) /\ taken \in Nat
  BY DEF Types
<1> QED
  BY <1>2, <1>3, <1>4 DEF CountInv

\* Starting the attempts, from either place.
LEMMA BeginStep ==
  ASSUME RaceInv, exec \in {"idle", "h1"}, NEW h1 \in {"off", "failed"}, BeginRace(h1),
         UNCHANGED <<options, funcs, body, ctx, results, taken, winner, content>>
  PROVE  RaceInv'
<1>1. "h1" \notin Racers /\ "h1" \in Requests /\ Racers \subseteq Requests
  BY RacersAssumption DEF Requests
<1>2. Types'
  BY DEF RaceInv, Types, BeginRace
<1>3. Sent = {} /\ Sent' = {} /\ (\A r \in Racers \ funcs : req'[r] = "off")
  BY <1>1 DEF RaceInv, ExecInv, Sent, BeginRace
<1>4. CountInv'
  BY <1>3 DEF RaceInv, CountInv, Pending
<1>7. ASSUME NEW r \in Racers
      PROVE  /\ req[r] = "off" /\ req'[r] \in {"flying", "off"}
             /\ req'[r] = "off" => conn'[r] = conn[r] /\ body'[r] = body[r]
  BY <1>1 DEF RaceInv, ExecInv, BeginRace
<1>8. conn'["h1"] = "none"
  BY <1>1 DEF RaceInv, HoldInv, Types, BeginRace
<1>5. HoldInv'
  <2>1. \A r \in Racers : req'[r] = "off" => conn'[r] = "none" /\ body'[r] = "none"
    BY <1>7 DEF RaceInv, HoldInv
  <2> QED
    BY <1>7, <1>8, <2>1 DEF HoldInv
<1>6. ExecInv'
  BY DEF RaceInv, ExecInv, BeginRace, Ended
<1> QED
  BY <1>2, <1>4, <1>5, <1>6 DEF RaceInv

\* An outcome of the single request over the inbound.
LEMMA H1Step ==
  ASSUME RaceInv, exec = "h1",
         NEW q \in {"answered", "failed"}, req' = [req EXCEPT !["h1"] = q],
         NEW b \in {"none", "part", "whole", "cut", "closed"}, body' = [body EXCEPT !["h1"] = b],
         NEW o \in {"returned", "failed"}, Return(o),
         winner' = IF o = "returned" THEN "h1" ELSE winner,
         UNCHANGED <<options, funcs, conn, results, taken, content>>
  PROVE  RaceInv'
<1>1. "h1" \notin Racers /\ "h1" \in Requests /\ Racers \subseteq Requests
  BY RacersAssumption DEF Requests
<1>2. Types'
  BY <1>1 DEF RaceInv, Types, Return
<1>3. \A r \in Racers : req'[r] = "off" /\ req[r] = "off" /\ body'[r] = body[r]
  BY <1>1 DEF RaceInv, Types, ExecInv
<1>4. Sent' = Sent
  BY <1>3 DEF Sent
<1>5. CountInv'
  BY <1>3, <1>4 DEF RaceInv, CountInv, Pending
<1>6. HoldInv'
  BY <1>3 DEF RaceInv, HoldInv
<1>7. ExecInv'
  BY <1>3 DEF RaceInv, ExecInv, Return, Ended
<1> QED
  BY <1>2, <1>5, <1>6, <1>7 DEF RaceInv

\* Every step of the program.
LEMMA RaceStep == RaceInv /\ [Next]_vars => RaceInv'
<1> SUFFICES ASSUME RaceInv, [Next]_vars PROVE RaceInv'
  OBVIOUS
<1>0. "h1" \notin Racers /\ "h1" \in Requests /\ Racers \subseteq Requests /\ "none" \notin Requests
  BY RacersAssumption DEF Requests
<1>a. Types /\ HoldInv /\ CountInv /\ ExecInv
  BY DEF RaceInv
<1>1. CASE ExecuteDirect
  BY <1>1, BeginStep DEF ExecuteDirect
<1>2. CASE FallBack
  BY <1>2, BeginStep DEF FallBack
<1>3. CASE ExecuteH1
  <2>1. \A r \in Racers : req'[r] = req[r]
    BY <1>0, <1>3 DEF ExecuteH1, RaceInv, Types
  <2>2. Types'
    BY <1>0, <1>3 DEF ExecuteH1, RaceInv, Types
  <2>3. Sent' = Sent
    BY <2>1 DEF Sent
  <2>4. CountInv'
    BY <1>3, <2>1, <2>3 DEF ExecuteH1, RaceInv, CountInv, Pending
  <2>5. HoldInv'
    BY <1>3, <2>1 DEF ExecuteH1, RaceInv, HoldInv, Succeeded, Pending
  <2>6. ExecInv'
    BY <1>3, <2>1 DEF ExecuteH1, RaceInv, ExecInv, Ended
  <2> QED
    BY <2>2, <2>4, <2>5, <2>6 DEF RaceInv
<1>4. ASSUME NEW b \in {"part", "whole"}, H1Answers(b) PROVE RaceInv'
  BY <1>4, H1Step DEF H1Answers
<1>5. CASE H1Refused
  BY <1>5, H1Step DEF H1Refused
<1>6. CASE H1Fails
  <2>1. body' = [body EXCEPT !["h1"] = body["h1"]]
        /\ body["h1"] \in {"none", "part", "whole", "cut", "closed"}
    BY <1>0, <1>6 DEF H1Fails, RaceInv, Types
  <2> QED
    BY <1>6, <2>1, H1Step DEF H1Fails
<1>7. ASSUME NEW r \in Racers,
             \/ \E b \in {"part", "whole"} : RacerAnswers(r, b)
             \/ \E b \in {"none", "closed"} : RacerFails(r, b)
      PROVE  RaceInv'
  <2>1. /\ req[r] = "flying" /\ req' = [req EXCEPT ![r] = req'[r]]
        /\ body' = [body EXCEPT ![r] = body'[r]] /\ conn' = [conn EXCEPT ![r] = conn'[r]]
        /\ \/ req'[r] = "answered" /\ body'[r] \in {"part", "whole"} /\ conn'[r] = conn[r]
           \/ req'[r] = "failed" /\ body'[r] \in {"none", "closed"} /\ conn'[r] = "closed"
    BY <1>0, <1>7 DEF RacerAnswers, RacerFails, RaceInv, Types
  <2>2. UNCHANGED <<options, funcs, exec, ctx, results, taken, winner, content>>
    BY <1>7 DEF RacerAnswers, RacerFails
  <2>3. Types'
    BY <1>0, <2>1, <2>2 DEF RaceInv, Types
  <2>4. exec = "race" /\ r \in funcs
    BY <2>1 DEF RaceInv, ExecInv, CountInv, Types, Ended
  <2>5. \A q \in Requests : q # r => req'[q] = req[q] /\ body'[q] = body[q] /\ conn'[q] = conn[q]
    BY <2>1 DEF RaceInv, Types
  <2>6. Sent' = Sent
    BY <1>0, <2>1, <2>5 DEF Sent
  <2>7. CountInv'
    BY <1>0, <2>2, <2>4, <2>5, <2>6 DEF RaceInv, CountInv, Pending
  <2>8. HoldInv'
    BY <1>0, <2>1, <2>2, <2>5 DEF RaceInv, HoldInv, Succeeded, Pending
  <2>9. ExecInv'
    BY <2>2, <2>4 DEF RaceInv, ExecInv, Ended
  <2> QED
    BY <2>3, <2>7, <2>8, <2>9 DEF RaceInv
<1>8. ASSUME NEW r \in Racers, RacerSends(r) PROVE RaceInv'
  <2>1. /\ results' \in Seq(Racers) /\ Len(results') = Len(results) + 1
        /\ Pending' = Pending \cup {r}
    BY <1>8, AppendPending DEF RacerSends, RaceInv, Types
  <2>2. Types'
    BY <1>0, <1>8, <2>1 DEF RacerSends, RaceInv, Types
  <2>3. req[r] \in {"answered", "failed"} /\ req'[r] = "sent"
        /\ \A q \in Racers : q # r => req'[q] = req[q]
    BY <1>0, <1>8 DEF RacerSends, RaceInv, Types
  <2>4. exec = "race" /\ r \in funcs
    BY <2>3 DEF RaceInv, ExecInv, CountInv, Types, Ended
  <2>5. Sent' = Sent \cup {r} /\ r \notin Sent
    BY <2>3 DEF Sent
  <2>6. Cardinality(Sent') = Cardinality(Sent) + 1
    BY <1>a, <2>5, Bounds, FS_AddElement
  <2>7. CountInv'
    <3>1. taken \in Nat /\ Len(results) \in Nat /\ taken' = taken /\ funcs' = funcs
      BY <1>8 DEF RacerSends, RaceInv, Types
    <3>2. taken' + Len(results') = Cardinality(Sent')
      BY <2>1, <2>6, <3>1 DEF RaceInv, CountInv
    <3> QED
      BY <2>1, <2>3, <2>4, <2>5, <3>1, <3>2 DEF RaceInv, CountInv
  <2>8. HoldInv'
    BY <1>8, <2>1, <2>3 DEF RacerSends, RaceInv, HoldInv, Succeeded
  <2>9. ExecInv'
    BY <1>8, <2>4 DEF RacerSends, RaceInv, ExecInv, Ended
  <2> QED
    BY <2>2, <2>7, <2>8, <2>9 DEF RaceInv
<1>9. CASE TakeWinner \/ TakeDuplicate \/ TakeError
  <2>1. /\ exec = "race" /\ exec' = exec /\ req' = req /\ funcs' = funcs
        /\ content' = content /\ options' = options
        /\ results # <<>> /\ Take
    BY <1>9 DEF TakeWinner, TakeDuplicate, TakeError, Taking
  <2>a. PICK h \in Racers : h = Head(results)
    BY <2>1, TakePending DEF RaceInv, Types
  <2>2. /\ results' \in Seq(Racers) /\ taken' + Len(results') = taken + Len(results)
        /\ taken' \in Nat /\ Pending \subseteq Pending' \cup {h}
        /\ Pending' \subseteq Pending /\ h \in Pending
    BY <2>1, <2>a, TakePending DEF RaceInv, Types
  <2>3. Types'
    BY <1>0, <1>9, <2>1, <2>2, <2>a
       DEF TakeWinner, TakeDuplicate, TakeError, RaceInv, Types
  <2>4. Sent' = Sent
    BY <2>1 DEF Sent
  <2>5. CountInv'
    BY <2>1, <2>2, <2>4 DEF RaceInv, CountInv
  <2>6. \/ winner = "none" /\ winner' = h /\ body' = body /\ conn' = conn
        \/ /\ winner' = winner
           /\ conn' = [conn EXCEPT ![h] = "closed"] /\ body' = [body EXCEPT ![h] = "closed"]
        \/ ~Succeeded(h) /\ winner' = winner /\ body' = body /\ conn' = conn
    BY <1>9, <2>a DEF TakeWinner, TakeDuplicate, TakeError
  <2>7. \A r \in Requests : r # h => body'[r] = body[r] /\ conn'[r] = conn[r]
    BY <2>6 DEF RaceInv, Types
  <2>8. (body'[h] = "closed" /\ conn'[h] = "closed") \/ (body'[h] = body[h] /\ conn'[h] = conn[h])
    BY <1>0, <2>2, <2>6 DEF RaceInv, Types
  <2>9. HoldInv'
    <3>1. conn'["h1"] = "none"
      BY <1>0, <2>2, <2>7 DEF RaceInv, HoldInv
    <3>2. req[h] = "sent"
      BY <2>2 DEF RaceInv, CountInv, Sent
    <3>3. \A r \in Racers : r # h => (Succeeded(r)' <=> Succeeded(r))
      BY <1>0, <2>7 DEF Succeeded
    <3>4. ~Succeeded(h)' => conn'[h] # "open"
      BY <2>2, <2>8, <3>2 DEF RaceInv, HoldInv, Succeeded
    <3>5. Succeeded(h)' => h = winner'
      BY <1>0, <2>6, <2>8 DEF RaceInv, Types, Succeeded
    <3>6. ASSUME NEW r \in Racers, req[r] = "sent", Succeeded(r)' PROVE r = winner' \/ r \in Pending'
      <4>1. CASE r = h
        BY <3>5, <3>6, <4>1
      <4>2. CASE r # h
        BY <2>2, <2>6, <3>3, <3>6, <4>2, <1>0 DEF RaceInv, HoldInv, Requests
      <4> QED
        BY <4>1, <4>2
    <3> QED
      BY <1>0, <2>1, <2>7, <3>1, <3>2, <3>3, <3>4, <3>6 DEF RaceInv, HoldInv
  <2>10. ExecInv'
    BY <2>1 DEF RaceInv, ExecInv, Ended
  <2> QED
    BY <2>3, <2>5, <2>9, <2>10 DEF RaceInv
<1>10. CASE RaceEnds
  <2>1. results = <<>> /\ Sent = funcs
    BY <1>10, <1>a, Bounds DEF RaceEnds
  <2>2. \A r \in Racers : req[r] \in {"off", "sent"}
    BY <2>1 DEF Sent, RaceInv, CountInv
  <2>3. Types' /\ HoldInv' /\ Sent' = Sent
    BY <1>10 DEF RaceEnds, Return, RaceInv, Types, HoldInv, Succeeded, Pending, Sent
  <2>4. CountInv'
    BY <1>10, <2>3 DEF RaceEnds, RaceInv, CountInv, Pending
  <2>5. ExecInv'
    BY <1>10, <2>1, <2>2 DEF RaceEnds, Return, RaceInv, ExecInv, Ended
  <2> QED
    BY <2>3, <2>4, <2>5 DEF RaceInv
<1>11. CASE Timeout
  <2>1. Types' /\ HoldInv' /\ ExecInv' /\ Sent' = Sent
    BY <1>11 DEF Timeout, RaceInv, Types, HoldInv, ExecInv, Ended, Succeeded, Pending, Sent
  <2> QED
    BY <1>11, <2>1 DEF Timeout, RaceInv, CountInv, Pending
<1>12. ASSUME NEW r \in Requests, BodyArrives(r) \/ ContextCutsBody(r) PROVE RaceInv'
  <2>1. PICK b \in {"whole", "cut"} : body' = [body EXCEPT ![r] = b]
    BY <1>12 DEF BodyArrives, ContextCutsBody
  <2>2. UNCHANGED <<options, funcs, exec, req, conn, ctx, results, taken, winner, content>> /\ body[r] = "part"
    BY <1>12 DEF BodyArrives, ContextCutsBody
  <2>3. Types'
    BY <2>1, <2>2 DEF RaceInv, Types
  <2>4. \A q \in Requests : Succeeded(q)' <=> Succeeded(q)
    BY <2>1, <2>2 DEF RaceInv, Types, Succeeded
  <2>5. \A q \in Requests : body[q] \in {"none", "closed"} => body'[q] = body[q]
    BY <2>1, <2>2 DEF RaceInv, Types
  <2>6. HoldInv'
    BY <1>0, <2>2, <2>4, <2>5 DEF RaceInv, HoldInv, Pending
  <2>7. CountInv' /\ ExecInv'
    BY <2>2, <2>5 DEF RaceInv, Types, CountInv, ExecInv, Ended, Sent, Pending
  <2> QED
    BY <2>3, <2>6, <2>7 DEF RaceInv
<1>13. CASE Read
  <2>1. winner \in Requests /\ exec = "returned"
    BY <1>13 DEF Read, RaceInv, ExecInv, Types
  <2>2. /\ conn' = [conn EXCEPT ![winner] = conn'[winner]] /\ body' = [body EXCEPT ![winner] = "closed"]
        /\ conn'[winner] \in {"none", "closed"} /\ (conn[winner] = "none" => conn'[winner] = "none")
        /\ body[winner] \notin {"none", "closed"}
    BY <1>13, <2>1 DEF Read, RaceInv, Types
  <2>3. UNCHANGED <<options, funcs, exec, req, ctx, results, taken, winner>>
    BY <1>13 DEF Read
  <2>4. Types'
    BY <1>13, <2>1, <2>2, <2>3 DEF Read, RaceInv, Types
  <2>5. \A q \in Requests : q # winner => conn'[q] = conn[q] /\ body'[q] = body[q]
    BY <2>2 DEF RaceInv, Types
  <2>6. body'[winner] = "closed"
    BY <2>1, <2>2 DEF RaceInv, Types
  <2>7. HoldInv'
    <3>1. conn'["h1"] = "none"
      BY <1>0, <2>2, <2>5 DEF RaceInv, HoldInv
    <3>2. winner \in Racers => req[winner] = "sent"
      BY <2>1, <2>2 DEF RaceInv, ExecInv, HoldInv, Ended
    <3> QED
      BY <1>0, <2>2, <2>3, <2>5, <2>6, <3>1, <3>2 DEF RaceInv, HoldInv, Succeeded, Pending
  <2>8. CountInv'
    BY <2>3 DEF RaceInv, CountInv, Sent, Pending
  <2>9. ExecInv'
    BY <2>1, <2>2, <2>3, <2>6 DEF RaceInv, ExecInv, Ended
  <2> QED
    BY <2>4, <2>7, <2>8, <2>9 DEF RaceInv
<1>14. CASE UNCHANGED vars
  <2>1. Types' /\ HoldInv' /\ ExecInv' /\ Sent' = Sent
    BY <1>14 DEF vars, RaceInv, Types, HoldInv, ExecInv, Ended, Succeeded, Pending, Sent
  <2> QED
    BY <1>14, <2>1 DEF vars, RaceInv, CountInv, Pending
<1> QED
  BY <1>1, <1>2, <1>3, <1>4, <1>5, <1>6, <1>7, <1>8, <1>9, <1>10, <1>11, <1>12, <1>13, <1>14
     DEF Next, Caller, Loop, Racer

LEMMA RaceInvHolds == Spec => []RaceInv
<1>1. Init => RaceInv
  <2> SUFFICES ASSUME Init PROVE RaceInv
    OBVIOUS
  <2>1. Types
    BY RacersAssumption DEF Init, Types
  <2>2. Sent = {}
    BY DEF Init, Sent, Requests
  <2>3. CountInv
    BY <2>2, FS_EmptySet DEF Init, CountInv, Requests, Pending
  <2>4. HoldInv
    BY DEF Init, HoldInv, Requests
  <2>5. ExecInv
    BY DEF Init, ExecInv, Ended, Requests
  <2> QED
    BY <2>1, <2>3, <2>4, <2>5 DEF RaceInv
<1>2. RaceInv /\ [Next]_vars => RaceInv'
  BY RaceStep
<1> QED
  BY <1>1, <1>2, PTL DEF Spec

\* Every variable keeps its type; above all the result channel never holds
\* more than one result per attempt, so no goroutine of the race blocks.
THEOREM RaceTypeCorrect == Spec => []TypeOK
<1>1. RaceInv => TypeOK
  <2> SUFFICES ASSUME RaceInv PROVE TypeOK
    OBVIOUS
  <2>1. taken + Len(results) <= Cardinality(funcs) /\ Cardinality(funcs) \in Nat
    BY Bounds, RacersAssumption, FS_Subset, FS_CardinalityType DEF RaceInv, Types
  <2>2. taken \in Nat /\ Len(results) \in Nat
    BY DEF RaceInv, Types
  <2> QED
    BY <2>1, <2>2 DEF RaceInv, Types, TypeOK
<1> QED
  BY <1>1, RaceInvHolds, PTL

\* Whatever the attempts do and in whatever order they end, Execute returns
\* with every attempt but the winner finished, its body and its transport
\* closed, and a response that has been read leaves nothing open either.
THEOREM AttemptsAlwaysReleased == Spec => []AttemptsReleased
<1>1. RaceInv => AttemptsReleased
  <2> SUFFICES ASSUME RaceInv PROVE AttemptsReleased
    OBVIOUS
  <2>1. ASSUME Ended, NEW r \in Racers \ {winner}
        PROVE  conn[r] # "open" /\ body[r] \in {"none", "closed"} /\ req[r] \in {"off", "sent"}
    <3>1. req[r] \in {"off", "sent"} /\ Pending = {}
      BY <2>1 DEF RaceInv, ExecInv, Pending
    <3>2. req[r] = "sent" => ~Succeeded(r)
      BY <3>1 DEF RaceInv, HoldInv
    <3> QED
      BY <3>1, <3>2 DEF RaceInv, HoldInv, Succeeded
  <2>2. content # "unread" => conn[winner] # "open" /\ body[winner] = "closed"
    BY DEF RaceInv, ExecInv
  <2> QED
    BY <2>1, <2>2 DEF AttemptsReleased
<1> QED
  BY <1>1, RaceInvHolds, PTL

\* While the loop of doH3Direct waits on its channel, a result is there, the
\* loop has its last one, or an attempt has still to send: nobody waits for a
\* result that is never sent (what ExecuteReturns rests on, without fairness).
RaceGoesOn ==
  exec = "race" => \/ results # <<>>
                   \/ taken = Cardinality(funcs)
                   \/ \E r \in funcs : req[r] \in {"flying", "answered", "failed"}

\* Every attempt of the race was started.
AllStarted == exec = "race" => \A r \in funcs : req[r] # "off"

LEMMA StartedStep ==
  ASSUME RaceInv, AllStarted, [Next]_vars PROVE AllStarted'
<1> USE DEF RaceInv, Types, AllStarted, Requests
<1>1. CASE ExecuteDirect \/ FallBack
  BY <1>1 DEF ExecuteDirect, FallBack, BeginRace
<1>2. CASE ExecuteH1 \/ H1Refused \/ H1Fails \/ \E b \in {"part", "whole"} : H1Answers(b)
  BY <1>2 DEF ExecuteH1, H1Refused, H1Fails, H1Answers, Return
<1>3. ASSUME NEW r \in Racers, Racer(r) PROVE AllStarted'
  BY <1>3 DEF Racer, RacerAnswers, RacerFails, RacerSends
<1>4. CASE UNCHANGED <<exec, funcs, req>>
  BY <1>4
<1>5. CASE RaceEnds
  BY <1>5 DEF RaceEnds, Return
<1> QED
  BY <1>1, <1>2, <1>3, <1>4, <1>5
     DEF Next, Caller, Loop, TakeWinner, TakeDuplicate, TakeError, Read, Timeout,
         BodyArrives, ContextCutsBody, vars

\* The race never hangs on its channel, for any number of attempts: a count of
\* results that is short has an attempt that sends the next.
THEOREM RaceAlwaysGoesOn == Spec => []RaceGoesOn
<1>1. Init => AllStarted
  BY DEF Init, AllStarted
<1>2. RaceInv /\ AllStarted /\ [Next]_vars => AllStarted'
  BY StartedStep
<1>3. RaceInv /\ AllStarted => RaceGoesOn
  <2> SUFFICES ASSUME RaceInv, AllStarted, exec = "race", results = <<>>,
                      taken # Cardinality(funcs)
               PROVE  \E r \in funcs : req[r] \in {"flying", "answered", "failed"}
    BY DEF RaceGoesOn
  <2>1. taken = Cardinality(Sent) /\ Sent \subseteq funcs
    BY Bounds DEF RaceInv, CountInv, Types
  <2>a. Sent # funcs
    <3> SUFFICES ASSUME Sent = funcs PROVE FALSE
      OBVIOUS
    <3>1. Cardinality(Sent) = Cardinality(funcs)
      OBVIOUS
    <3> QED
      BY <2>1, <3>1
  <2>2. PICK r \in funcs : r \notin Sent
    <3> HIDE DEF Sent
    <3> QED
      BY <2>1, <2>a
  <2>3. r \in Racers /\ req[r] # "sent" /\ req[r] # "off"
    BY <2>2 DEF RaceInv, Types, AllStarted, Sent
  <2> QED
    BY <2>3 DEF RaceInv, Types, Requests
<1> QED
  BY <1>1, <1>2, <1>3, RaceInvHolds, PTL DEF Spec
=============================================================================
