------------------------------- MODULE Escrow -------------------------------
(***************************************************************************)
(* What the buyer and the seller rely on when money is held for them,      *)
(* whatever the order in which requests are served: the admin receives the *)
(* money, then each of the two confirms the trade, then the admin releases *)
(* the money.  Nothing is ever taken back.  A trade paid in cash is        *)
(* confirmed without any of this.                                          *)
(***************************************************************************)
CONSTANT Ids                \* the transactions

VARIABLES
    held,        \* the transactions that are paid through the admin
    received,    \* those whose money the admin has verified
    confirmed,   \* transaction -> the parties that confirmed it
    released     \* those whose money was passed to the seller

vars == <<held, received, confirmed, released>>

Party == {"buyer", "seller"}

Init ==
    /\ held = {}
    /\ received = {}
    /\ confirmed = [t \in Ids |-> {}]
    /\ released = {}

\* The buyer asks to pay through the admin.
Hold(t) ==
    /\ t \notin held
    /\ confirmed[t] = {}
    /\ held' = held \cup {t}
    /\ UNCHANGED <<received, confirmed, released>>

Receive(t) ==
    /\ t \in held
    /\ received' = received \cup {t}
    /\ UNCHANGED <<held, confirmed, released>>

Confirm(t, p) ==
    /\ t \in held => t \in received
    /\ confirmed' = [confirmed EXCEPT ![t] = @ \cup {p}]
    /\ UNCHANGED <<held, received, released>>

Release(t) ==
    /\ t \in received
    /\ confirmed[t] = Party
    /\ released' = released \cup {t}
    /\ UNCHANGED <<held, received, confirmed>>

Next ==
    \E t \in Ids :
        \/ Hold(t) \/ Receive(t) \/ Release(t)
        \/ \E p \in Party : Confirm(t, p)

Spec == Init /\ [][Next]_vars

=============================================================================
