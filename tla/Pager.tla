-------------------------------- MODULE Pager --------------------------------
(***************************************************************************)
(* What the alerting of the engine promises, for each monitor on its own:  *)
(* an outage opens and closes; an alert becomes due only on one of these   *)
(* two edges, at most one per edge, "DOWN" on the first and "RECOVERY" on  *)
(* the second; what is due is sent, each alert once.  An edge may be       *)
(* silent (maintenance, a group, a monitor that is added or removed).      *)
(* Alerts of different senders may overtake each other.                    *)
(***************************************************************************)
CONSTANTS Sites, Senders,
          Nobody    \* no monitor

VARIABLES down,   \* the monitors in an outage
          due     \* the alert each sender still has to send

vars == <<down, due>>

NoAlert == [site |-> Nobody, kind |-> "none"]

Init == down = {} /\ due = [a \in Senders |-> NoAlert]

Decide(s, kind) ==
  \/ UNCHANGED due
  \/ \E a \in Senders :
       /\ due[a] = NoAlert
       /\ due' = [due EXCEPT ![a] = [site |-> s, kind |-> kind]]

Open(s)  == s \notin down /\ down' = down \cup {s} /\ Decide(s, "DOWN")
Close(s) == s \in down    /\ down' = down \ {s}    /\ Decide(s, "RECOVERY")

Send(a) == /\ due[a] # NoAlert
           /\ due' = [due EXCEPT ![a] = NoAlert]
           /\ UNCHANGED down

Next == (\E s \in Sites : Open(s) \/ Close(s)) \/ (\E a \in Senders : Send(a))

Spec == Init /\ [][Next]_vars

=============================================================================
