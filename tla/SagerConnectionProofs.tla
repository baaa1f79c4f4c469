----------------------- MODULE SagerConnectionProofs -----------------------
(***************************************************************************)
(* The assertions of SagerConnection and the state a client shows, for any *)
(* number of deaths of the service, state changes and calls.               *)
(***************************************************************************)
EXTENDS SagerConnection, TLAPS

\* A client that is not connected has no binding and no registration; a
\* binding that is being made has none either, and the main thread is inside
\* onServiceConnected only for a binding that was made.
BindingInv ==
  /\ callback <=> active
  /\ ~active => bind = "none" /\ ~registered
  /\ bind = "binding" => ~registered
  /\ Busy => bind \in {"bound", "lost"}
  /\ main = "link" => ~registered
  /\ ~failed

\* Every step keeps the binding and the two assertions.
LEMMA BindingStep == BindingInv /\ [Next]_vars => BindingInv'
<1> SUFFICES ASSUME BindingInv, [Next]_vars PROVE BindingInv'
  OBVIOUS
<1> USE DEF BindingInv, Busy
<1>1. ASSUME NEW s \in State, changeState(s) PROVE BindingInv'
  BY <1>1 DEF changeState, clientVars
<1>2. CASE Die
  BY <1>2 DEF Die
<1>3. CASE Unregister
  BY <1>3 DEF Unregister, clientVars
<1>4. CASE onServiceConnected
  BY <1>4 DEF onServiceConnected
<1>5. CASE Register
  BY <1>5 DEF Register
<1>6. CASE ReadState
  BY <1>6 DEF ReadState, clientVars
<1>7. CASE onServiceDisconnected
  BY <1>7 DEF onServiceDisconnected
<1>8. CASE connect
  BY <1>8 DEF connect
<1>9. CASE disconnect
  BY <1>9 DEF disconnect
<1>10. CASE updateConnectionId
  BY <1>10 DEF updateConnectionId, clientVars
<1>11. CASE HandleDied
  BY <1>11 DEF HandleDied
<1>12. CASE HandleState
  BY <1>12 DEF HandleState, clientVars
<1>13. CASE Deliver
  BY <1>13 DEF Deliver, clientVars
<1>14. CASE binderDied
  BY <1>14 DEF binderDied
<1>15. CASE onRevoke
  BY <1>15 DEF onRevoke, clientVars
<1>16. CASE PostedBroadcast
  BY <1>16 DEF PostedBroadcast, clientVars
<1>17. CASE Link
  BY <1>17 DEF Link, clientVars
<1>18. CASE triggerFullRestart
  BY <1>18 DEF triggerFullRestart
<1>19. CASE UNCHANGED vars
  BY <1>19 DEF vars
<1> QED
  BY <1>1, <1>2, <1>3, <1>4, <1>5, <1>6, <1>7, <1>8, <1>9, <1>10, <1>11, <1>12,
     <1>13, <1>14, <1>15, <1>16, <1>17, <1>18, <1>19 DEF Next, MainThread

LEMMA BindingInvHolds == Spec => []BindingInv
<1>1. Init => BindingInv
  BY DEF Init, BindingInv, Busy
<1> QED
  BY <1>1, BindingStep, PTL DEF Spec

\* Neither check of the class fails, however many deaths, restarts and late
\* notices there are: onServiceConnected never finds a registered callback,
\* and connect never finds one that is set.
THEOREM ChecksAlwaysHold == Spec => []ChecksHold
<1>1. BindingInv => ChecksHold
  BY DEF BindingInv, ChecksHold
<1> QED
  BY <1>1, BindingInvHolds, PTL

-----------------------------------------------------------------------------
\* What is under way ends with the service's state, unless a posted broadcast
\* was overtaken: the oldest changes are in mainq, the later ones in wire.
\* Whatever is posted is Stopping.
Ordered ==
  ~overtaken /\ posted = <<>> =>
    /\ wire # <<>> => wire[Len(wire)] = state
    /\ wire = <<>> /\ mainq # <<>> => mainq[Len(mainq)] = state
    /\ wire = <<>> /\ mainq = <<>> /\ main = "idle" => shown = state

Empty == wire = <<>> /\ mainq = <<>>

Unbound == service = "null" /\ main = "idle" /\ Empty /\ ~callbacks

Attaching ==
  /\ bind = "bound" /\ service = "live" /\ alive /\ ~callbacks
  /\ main \in {"link", "register"} /\ Empty

Attached ==
  /\ bind = "bound" /\ service = "live" /\ alive /\ callbacks
  /\ main \in {"read", "idle"} /\ Ordered

\* The calls of the service: all that is posted is a Stopping, which is the
\* state unless a later change was broadcast before it.
PostedInv ==
  /\ state \in State /\ wire \in Seq(State) /\ posted \in Seq({"Stopping"})
  /\ posted # <<>> /\ ~overtaken => state = "Stopping"

\* Up to the second call of the user, while the service lives.
FirstInv ==
  /\ calls \in Nat /\ deaths \in Nat
  /\ calls = 0 /\ deaths = 0 => Unbound /\ bind = "none" /\ ~active
  /\ calls \in {0, 1} /\ deaths = 0 => mainq \in Seq(State) /\ unreg = 0 /\ ~notice
  /\ calls = 1 /\ deaths = 0 =>
       \/ Unbound /\ bind = "none" /\ ~active
       \/ Unbound /\ bind = "binding" /\ active /\ callback
       \/ Attaching /\ active /\ callback
       \/ Attached /\ active /\ callback

\* The queues hold states, and the last of a queue moves to the next one.
LEMMA TailOf ==
  ASSUME NEW S, NEW q \in Seq(S), q # <<>>
  PROVE  /\ Head(q) \in S /\ Tail(q) \in Seq(S) /\ Head(q) = q[1]
         /\ Len(q) \in Nat \ {0} /\ Len(Tail(q)) = Len(q) - 1
         /\ Tail(q) = <<>> => Head(q) = q[Len(q)]
         /\ Tail(q) # <<>> => Tail(q)[Len(Tail(q))] = q[Len(q)]
<1>1. /\ Head(q) \in S /\ Tail(q) \in Seq(S) /\ Head(q) = q[1]
      /\ Len(q) \in Nat \ {0} /\ Len(Tail(q)) = Len(q) - 1
  OBVIOUS
<1>2. \A i \in 1..Len(Tail(q)) : Tail(q)[i] = q[i + 1]
  OBVIOUS
<1>3. Tail(q) = <<>> => Len(q) = 1
  BY <1>1
<1>4. Tail(q) # <<>> => Len(Tail(q)) \in 1..Len(Tail(q))
  BY <1>1
<1> QED
  BY <1>1, <1>2, <1>3, <1>4

LEMMA LastAppended ==
  ASSUME NEW S, NEW q \in Seq(S), NEW e \in S
  PROVE  /\ Append(q, e) \in Seq(S) /\ Append(q, e) # <<>>
         /\ Append(q, e)[Len(Append(q, e))] = e
  OBVIOUS

\* Every step keeps the queues of the service.
LEMMA PostedStep == PostedInv /\ [Next]_vars => PostedInv'
<1> SUFFICES ASSUME PostedInv, [Next]_vars PROVE PostedInv'
  OBVIOUS
<1> USE DEF PostedInv
<1>s. "Stopping" \in State /\ "Stopped" \in State
  BY DEF State
<1>1. ASSUME NEW s \in State, changeState(s) PROVE PostedInv'
  BY <1>1, LastAppended DEF changeState, Broadcast
<1>2. CASE onRevoke
  <2>1. state' = "Stopping" /\ wire' = wire /\ posted' = Append(posted, "Stopping")
    BY <1>2 DEF onRevoke
  <2> QED
    BY <1>s, <2>1
<1>3. CASE PostedBroadcast
  <2>1. /\ posted # <<>> /\ posted' = Tail(posted) /\ UNCHANGED <<state, overtaken>>
        /\ wire' = IF callbacks THEN Append(wire, Head(posted)) ELSE wire
    BY <1>3 DEF PostedBroadcast, Broadcast
  <2>2. Head(posted) = "Stopping" /\ posted' \in Seq({"Stopping"})
    BY <2>1, TailOf
  <2>3. wire' \in Seq(State)
    BY <1>s, <2>1, <2>2, LastAppended
  <2> QED
    BY <2>1, <2>2, <2>3
<1>4. CASE Die
  BY <1>s, <1>4 DEF Die
<1>5. CASE Deliver
  BY <1>5, TailOf DEF Deliver, stateVars
<1>6. CASE Unregister \/ MainThread \/ connect \/ disconnect \/ updateConnectionId
             \/ triggerFullRestart \/ binderDied \/ UNCHANGED vars
  <2>1. UNCHANGED <<state, posted, overtaken, wire>>
    BY <1>6 DEF Unregister, MainThread, onServiceConnected, Link, Register, ReadState,
      onServiceDisconnected, HandleDied, HandleState, connect, disconnect,
      updateConnectionId, triggerFullRestart, binderDied, vars, serviceVars, stateVars
  <2> QED
    BY <2>1
<1> QED
  BY <1>1, <1>2, <1>3, <1>4, <1>5, <1>6 DEF Next

LEMMA PostedInvHolds == Spec => []PostedInv
<1>1. Init => PostedInv
  BY DEF Init, PostedInv
<1> QED
  BY <1>1, PostedStep, PTL DEF Spec

\* The first connection: no change is lost between registering and reading,
\* and the changes arrive in order.
LEMMA FirstStep == BindingInv /\ PostedInv /\ FirstInv /\ [Next]_vars => FirstInv'
<1> SUFFICES ASSUME BindingInv, PostedInv, FirstInv, [Next]_vars PROVE FirstInv'
  OBVIOUS
<1>0. /\ calls \in Nat /\ deaths \in Nat /\ state \in State /\ wire \in Seq(State)
      /\ posted \in Seq({"Stopping"})
      /\ posted # <<>> /\ ~overtaken => state = "Stopping"
  BY DEF FirstInv, PostedInv
<1>d. "died" \notin State /\ "Stopped" \in State
  BY DEF State
<1> DEFINE first == calls \in {0, 1} /\ deaths = 0
<1>a. first => mainq \in Seq(State) /\ unreg = 0 /\ ~notice
  BY DEF FirstInv
<1>b. calls = 0 /\ deaths = 0 => Unbound /\ bind = "none" /\ ~active
  BY DEF FirstInv
<1>c. calls = 1 /\ deaths = 0 =>
        \/ Unbound /\ bind = "none" /\ ~active
        \/ Unbound /\ bind = "binding" /\ active /\ callback
        \/ Attaching /\ active /\ callback
        \/ Attached /\ active /\ callback
  BY DEF FirstInv
<1> USE DEF Unbound, Empty, Attaching, Attached, Ordered, Busy
<1>1. ASSUME NEW s \in State, changeState(s) PROVE FirstInv'
  <2>1. UNCHANGED <<calls, deaths, unreg, notice, mainq, alive, posted, callbacks, bind, main,
                    shown, active, callback, service>>
    BY <1>1 DEF changeState, clientVars
  <2>2. state' = s /\ wire' = (IF callbacks THEN Append(wire, s) ELSE wire)
    BY <1>1 DEF changeState, Broadcast
  <2>3. wire' \in Seq(State) /\ (callbacks => wire' # <<>> /\ wire'[Len(wire')] = s)
    BY <1>0, <2>2, LastAppended
  <2>4. Attached => Attached'
    BY <2>1, <2>2, <2>3
  <2>5. (Unbound => Unbound') /\ (Attaching => Attaching')
    BY <2>1, <2>2
  <2> QED
    BY <1>0, <1>a, <1>b, <1>c, <2>1, <2>2, <2>3, <2>4, <2>5 DEF FirstInv
<1>2. CASE Die
  <2>1. deaths' # 0 /\ deaths' \in Nat /\ calls' \in Nat
    BY <1>0, <1>2 DEF Die
  <2> QED
    BY <1>0, <1>2, <1>d, <2>1 DEF Die, FirstInv
<1>3. CASE Unregister
  <2>1. ~first
    BY <1>3, <1>a DEF Unregister
  <2> QED
    BY <1>0, <1>3, <2>1 DEF Unregister, boundVars, FirstInv
<1>4. CASE onServiceConnected
  BY <1>0, <1>4, <1>a, <1>b, <1>c DEF onServiceConnected, stateVars, boundVars, FirstInv
<1>5. CASE Register
  BY <1>0, <1>5, <1>a, <1>b, <1>c DEF Register, stateVars, boundVars, FirstInv
<1>6. CASE ReadState
  BY <1>0, <1>6, <1>a, <1>b, <1>c DEF ReadState, serviceVars, stateVars, clientVars, boundVars, FirstInv
<1>7. CASE onServiceDisconnected
  <2>1. ~first
    BY <1>7, <1>b, <1>c DEF onServiceDisconnected
  <2> QED
    BY <1>0, <1>7, <2>1 DEF onServiceDisconnected, serviceVars, boundVars, FirstInv
<1>8. CASE connect
  <2>1. calls' = calls + 1 /\ deaths' = deaths /\ state' = state /\ wire' = wire
    BY <1>8 DEF connect, serviceVars, stateVars
  <2>3. CASE calls = 0 /\ deaths = 0
    BY <1>0, <1>8, <1>a, <1>b, <2>1, <2>3 DEF connect, serviceVars, stateVars, FirstInv
  <2>4. CASE ~(calls = 0 /\ deaths = 0)
    BY <1>0, <2>1, <2>4 DEF FirstInv
  <2> QED
    BY <2>3, <2>4
<1>9. CASE disconnect
  <2>1. calls' = calls + 1 /\ deaths' = deaths /\ state' = state /\ wire' = wire
    BY <1>9 DEF disconnect, serviceVars, stateVars
  <2>2. deaths = 0 => calls # 0
    BY <1>9, <1>b DEF disconnect
  <2> QED
    BY <1>0, <2>1, <2>2 DEF FirstInv
<1>10. CASE updateConnectionId
  BY <1>0, <1>10, <1>a, <1>b, <1>c DEF updateConnectionId, stateVars, clientVars, boundVars, FirstInv
<1>11. CASE HandleDied
  <2>1. ~first
    BY <1>11, <1>a, <1>d, TailOf DEF HandleDied
  <2> QED
    BY <1>0, <1>11, <2>1 DEF HandleDied, serviceVars, boundVars, FirstInv
<1>12. CASE HandleState
  <2>1. UNCHANGED <<calls, deaths, unreg, notice, alive, state, posted, overtaken, wire,
                    callbacks, bind, main, active, callback, service>>
    BY <1>12 DEF HandleState, serviceVars, stateVars, clientVars, boundVars
  <2>2. CASE first
    <3>1. calls = 1 /\ Attached /\ active /\ callback /\ mainq # <<>> /\ main = "idle"
      BY <1>12, <1>b, <1>c, <2>2 DEF HandleState
    <3>2. /\ mainq' \in Seq(State)
          /\ mainq' = <<>> => shown' = mainq[Len(mainq)]
          /\ mainq' # <<>> => mainq'[Len(mainq')] = mainq[Len(mainq)]
      BY <1>12, <1>a, <2>2, TailOf DEF HandleState
    <3>3. Attached'
      BY <2>1, <3>1, <3>2
    <3> QED
      BY <1>0, <1>a, <1>c, <2>1, <2>2, <3>1, <3>2, <3>3 DEF FirstInv
  <2>3. CASE ~first
    BY <1>0, <2>1, <2>3 DEF FirstInv
  <2> QED
    BY <2>2, <2>3
<1>13. CASE Deliver
  <2>1. UNCHANGED <<calls, deaths, unreg, notice, alive, state, posted, overtaken, callbacks,
                    bind, main, shown, active, callback, service>>
    BY <1>13 DEF Deliver, stateVars, clientVars, boundVars
  <2>2. /\ wire # <<>> /\ wire' \in Seq(State) /\ Head(wire) \in State
        /\ wire' = <<>> => Head(wire) = wire[Len(wire)]
        /\ wire' # <<>> => wire'[Len(wire')] = wire[Len(wire)]
    BY <1>0, <1>13, TailOf DEF Deliver
  <2>3. CASE first
    <3>1. calls = 1 /\ Attached /\ active /\ callback
      BY <1>b, <1>c, <2>2, <2>3
    <3>2. mainq' \in Seq(State) /\ mainq' # <<>> /\ mainq'[Len(mainq')] = Head(wire)
      BY <1>13, <1>a, <2>2, <2>3, <3>1, LastAppended DEF Deliver
    <3>3. Attached'
      BY <2>1, <2>2, <3>1, <3>2
    <3> QED
      BY <1>0, <1>a, <1>c, <2>1, <2>2, <2>3, <3>1, <3>2, <3>3 DEF FirstInv
  <2>4. CASE ~first
    BY <1>0, <2>1, <2>2, <2>4 DEF FirstInv
  <2> QED
    BY <2>3, <2>4
<1>14. CASE binderDied
  <2>1. ~first
    BY <1>14, <1>a DEF binderDied
  <2> QED
    BY <1>0, <1>14, <2>1 DEF binderDied, serviceVars, boundVars, FirstInv
<1>15. CASE onRevoke
  <2>1. UNCHANGED <<calls, deaths, unreg, notice, mainq, alive, wire, callbacks, bind, main,
                    shown, active, callback, service>>
    BY <1>15 DEF onRevoke, clientVars
  <2>2. posted' # <<>>
    BY <1>0, <1>15 DEF onRevoke
  <2> QED
    BY <1>0, <1>a, <1>b, <1>c, <2>1, <2>2 DEF FirstInv
<1>16. CASE PostedBroadcast
  <2>1. UNCHANGED <<calls, deaths, unreg, notice, mainq, alive, state, overtaken, callbacks,
                    bind, main, shown, active, callback, service>>
    BY <1>16 DEF PostedBroadcast, clientVars, boundVars
  <2>2. Head(posted) = "Stopping" /\ posted # <<>>
    BY <1>0, <1>16, TailOf DEF PostedBroadcast
  <2>3. wire' = (IF callbacks THEN Append(wire, "Stopping") ELSE wire)
    BY <1>16, <2>2 DEF PostedBroadcast, Broadcast
  <2>4. callbacks => wire' # <<>> /\ wire'[Len(wire')] = "Stopping"
    BY <1>0, <2>3, LastAppended DEF State
  <2>5. Attached => Attached'
    BY <1>0, <2>1, <2>2, <2>4
  <2>6. (Unbound => Unbound') /\ (Attaching => Attaching')
    BY <2>1, <2>3
  <2> QED
    BY <1>0, <1>a, <1>b, <1>c, <2>1, <2>5, <2>6 DEF FirstInv
<1>17. CASE Link
  BY <1>0, <1>17, <1>a, <1>b, <1>c
     DEF Link, serviceVars, stateVars, clientVars, boundVars, FirstInv
<1>18. CASE triggerFullRestart
  BY <1>0, <1>18, <1>a, <1>b, <1>c
     DEF triggerFullRestart, serviceVars, stateVars, FirstInv
<1>19. CASE UNCHANGED vars
  BY <1>0, <1>19, <1>a, <1>b, <1>c DEF vars, FirstInv
<1> QED
  BY <1>1, <1>2, <1>3, <1>4, <1>5, <1>6, <1>7, <1>8, <1>9, <1>10, <1>11, <1>12,
     <1>13, <1>14, <1>15, <1>16, <1>17, <1>18, <1>19 DEF Next, MainThread

\* In its first connection, and while the service lives, the activity shows
\* the service's state whenever no call is under way, after any number of
\* changes, unless the last change overtook a posted broadcast.
THEOREM ShownAlwaysWhenQuiet == Spec => []ShownWhenQuiet
<1>1. Init => FirstInv
  BY DEF Init, FirstInv, Unbound, Empty, State
<1>2. BindingInv /\ PostedInv /\ FirstInv /\ [Next]_vars => FirstInv'
  BY FirstStep
<1>3. FirstInv => ShownWhenQuiet
  BY DEF FirstInv, ShownWhenQuiet, Quiet, Unbound, Attaching, Attached, Ordered
<1> QED
  BY <1>1, <1>2, <1>3, BindingInvHolds, PostedInvHolds, PTL DEF Spec
=============================================================================
