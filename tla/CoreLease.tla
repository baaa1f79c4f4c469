----------------------------- MODULE CoreLease -----------------------------
(* What the bg service promises about the sing-box core, whatever mixture  *)
(* of start commands, stops, reloads, revocations and process failures it  *)
(* receives: sessions are numbered, a session is only issued when no other *)
(* one is held, a session opens at most one core, and giving the session   *)
(* up closes that core.  ServiceLifecycle is shown to implement this.      *)
EXTENDS Naturals

VARIABLES
  issued,   \* how many sessions were handed out so far
  ticket,   \* the session being held, 0 when none is
  open      \* the cores that are open, named by their session

leaseVars == <<issued, ticket, open>>

LeaseInit == issued = 0 /\ ticket = 0 /\ open = {}

(* A new session, with a number never used before. *)
Issue ==
  /\ ticket = 0
  /\ open = {}
  /\ issued' = issued + 1
  /\ ticket' = issued + 1
  /\ UNCHANGED open

(* The session that is held opens its core. *)
Open ==
  /\ ticket # 0
  /\ open = {}
  /\ open' = {ticket}
  /\ UNCHANGED <<issued, ticket>>

(* The session ends and takes its core, if it opened one, with it. *)
GiveUp ==
  /\ ticket # 0
  /\ ticket' = 0
  /\ open' = {}
  /\ UNCHANGED issued

LeaseNext == Issue \/ Open \/ GiveUp

LeaseSpec == LeaseInit /\ [][LeaseNext]_leaseVars
============================================================================
