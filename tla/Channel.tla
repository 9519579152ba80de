-------------------------------- MODULE Channel --------------------------------
(***************************************************************************)
(* What Queue<T> promises to its users: an element is delivered once, to   *)
(* one consumer, in the order of acceptance, or removed; and a consumer is *)
(* told that there are no more only when there are none and none will come.*)
(* An element is the number of its acceptance.                             *)
(***************************************************************************)
EXTENDS Naturals

CONSTANTS Consumers

VARIABLES
  accepted,  \* how many elements were accepted
  here,      \* those that were neither delivered nor removed
  open,      \* it accepts elements
  got,       \* per consumer: the element delivered to it, 0 if it asks for one
  ended      \* per consumer: it was told there are no more

channelVars == <<accepted, here, open, got, ended>>

Init ==
  /\ accepted = 0 /\ here = {} /\ open = TRUE
  /\ got = [c \in Consumers |-> 0]
  /\ ended = [c \in Consumers |-> FALSE]

Accept ==
  /\ open
  /\ accepted' = accepted + 1
  /\ here' = here \cup {accepted'}
  /\ UNCHANGED <<open, got, ended>>

Deliver(c) ==
  /\ got[c] = 0 /\ ~ended[c]
  /\ \E e \in here :
       /\ \A f \in here : e <= f
       /\ here' = here \ {e}
       /\ got' = [got EXCEPT ![c] = e]
  /\ UNCHANGED <<accepted, open, ended>>

Ask(c) ==
  /\ got[c] # 0
  /\ got' = [got EXCEPT ![c] = 0]
  /\ UNCHANGED <<accepted, here, open, ended>>

Remove ==
  /\ here' \subseteq here
  /\ UNCHANGED <<accepted, open, got, ended>>

Close ==
  /\ open' = FALSE
  /\ UNCHANGED <<accepted, here, got, ended>>

End(c) ==
  /\ ~open /\ here = {} /\ got[c] = 0
  /\ ended' = [ended EXCEPT ![c] = TRUE]
  /\ UNCHANGED <<accepted, here, open, got>>

Next ==
  \/ Accept \/ Remove \/ Close
  \/ \E c \in Consumers : Deliver(c) \/ Ask(c) \/ End(c)

Spec == Init /\ [][Next]_channelVars
=============================================================================
