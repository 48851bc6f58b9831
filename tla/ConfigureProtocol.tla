--------------------------- MODULE ConfigureProtocol ---------------------------
(* What the configuration of toplevels promises, without how: every toplevel   *)
(* has configurations in flight, the one its client acknowledged last, and the *)
(* one that is in force.  Clients acknowledge configurations in order, may     *)
(* skip some and can never go back.  The light part of an acknowledged state   *)
(* (Activated, Resizing) is in force at once, the rest follows the commit, or  *)
(* comes with it when the size stays the same.                                 *)
(* ToplevelConfigure implements this specification.                            *)
EXTENDS Naturals, Sequences

CONSTANTS Toplevels,   \* the xdg_toplevels
          Light        \* the states that need no commit

VARIABLES offered,     \* configurations sent and not acknowledged, oldest first
          acked,       \* the configuration acknowledged last
          applied      \* serial and state in force

vars == <<offered, acked, applied>>

Nothing == [serial |-> 0, state |-> {}, size |-> 0]

Init ==
  /\ offered = [t \in Toplevels |-> << >>]
  /\ acked = [t \in Toplevels |-> Nothing]
  /\ applied = [t \in Toplevels |-> [serial |-> 0, state |-> {}]]

(* A serial that no configuration of t has had. *)
Newer(t, s) ==
  /\ s > acked[t].serial
  /\ \A i \in 1..Len(offered[t]) : s > offered[t][i].serial

(* One configuration is sent to each toplevel of a set. *)
Offer ==
  /\ \A t \in Toplevels :
       \/ offered'[t] = offered[t]
       \/ /\ Len(offered'[t]) = Len(offered[t]) + 1
          /\ SubSeq(offered'[t], 1, Len(offered[t])) = offered[t]
          /\ Newer(t, offered'[t][Len(offered'[t])].serial)
  /\ UNCHANGED <<acked, applied>>

(* The i-th configuration in flight is acknowledged and those before it are
   dropped. *)
Ack(t, i) ==
  LET c == offered[t][i] IN
  /\ offered' = [offered EXCEPT ![t] = SubSeq(@, i + 1, Len(@))]
  /\ acked' = [acked EXCEPT ![t] = c]
  /\ \/ applied' = [applied EXCEPT ![t].state = (@ \ Light) \cup (c.state \cap Light)]
     \/ /\ c.size = acked[t].size
        /\ applied' = [applied EXCEPT ![t] = [serial |-> c.serial, state |-> c.state]]

(* The commit puts the acknowledged configuration in force. *)
Apply(t) ==
  /\ applied' = [applied EXCEPT ![t] = [serial |-> acked[t].serial, state |-> acked[t].state]]
  /\ UNCHANGED <<offered, acked>>

(* The toplevel is unmapped or destroyed: nothing is in flight any
   more and no state is in force; the serial may be any. *)
Withdraw(t) ==
  /\ offered' = [offered EXCEPT ![t] = << >>]
  /\ acked' = [acked EXCEPT ![t] = Nothing]
  /\ applied' = [applied EXCEPT ![t] = [serial |-> applied'[t].serial, state |-> {}]]

Next ==
  \/ Offer
  \/ \E t \in Toplevels :
       \/ \E i \in 1..Len(offered[t]) : Ack(t, i)
       \/ Apply(t)
       \/ Withdraw(t)

Spec == Init /\ [][Next]_vars
=============================================================================
