------------------------------- MODULE Access -------------------------------
(***************************************************************************)
(* What sign-in promises to one user, with no workers, tokens, locks or    *)
(* token versions: at most one device holds the account.  A device comes   *)
(* to hold it only by spending a one-time code, and a code is spent once.  *)
(* Refreshing tokens changes nothing, and who has lost the account needs   *)
(* another code.  All of that until Redis loses a request.                 *)
(* Sessions is the detailed specification that implements this one.        *)
(***************************************************************************)
CONSTANTS Codes, Devices

VARIABLES spent, holders, outage

accessVars == <<spent, holders, outage>>

Init ==
  /\ spent = {}
  /\ holders = {}
  /\ outage = FALSE

Spend(k) ==
  /\ k \notin spent
  /\ spent' = spent \cup {k}

Login(k, d) == Spend(k) /\ holders' = {d} /\ UNCHANGED outage

\* The code is exhausted or expired, or its login came too late to matter.
Waste(k) == Spend(k) /\ UNCHANGED <<holders, outage>>

\* A logout, a login that is under way or a login that fails half way.
Leave == holders' = {} /\ UNCHANGED <<spent, outage>>

Lose ==
  /\ outage' = TRUE
  /\ holders' \subseteq Devices
  /\ spent' = spent \/ \E k \in Codes : Spend(k)

Next ==
  \/ \E k \in Codes : Waste(k) \/ \E d \in Devices : Login(k, d)
  \/ Leave
  \/ Lose

Spec == Init /\ [][Next]_accessVars
=============================================================================
