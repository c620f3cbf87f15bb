------------------------------ MODULE Delivery ------------------------------
(***************************************************************************)
(* What the outbox promises its producers: a message it accepted is        *)
(* offered to Telegram while it is open, possibly more than once; it is    *)
(* closed in the end; and a closed message is never offered again.         *)
(***************************************************************************)
EXTENDS Naturals

CONSTANTS Keys,
          Burst    \* the most messages one offer can show

VARIABLES phase,   \* new, open or closed
          posts    \* messages Telegram showed

Init ==
    /\ phase = [k \in Keys |-> "new"]
    /\ posts = [k \in Keys |-> 0]

\* Accepted; a message that arrives after its deadline is closed at once.
Accept(k) ==
    /\ phase[k] = "new"
    /\ \E p \in {"open", "closed"} : phase' = [phase EXCEPT ![k] = p]
    /\ UNCHANGED posts

Offer(k) ==
    /\ phase[k] = "open"
    /\ \E n \in 0..Burst : posts' = [posts EXCEPT ![k] = @ + n]
    /\ UNCHANGED phase

Close(k) ==
    /\ phase[k] = "open"
    /\ phase' = [phase EXCEPT ![k] = "closed"]
    /\ UNCHANGED posts

\* A restart closes every message whose deadline passed meanwhile.
CloseSome(set) ==
    /\ \A k \in set : phase[k] = "open"
    /\ phase' = [k \in Keys |-> IF k \in set THEN "closed" ELSE phase[k]]
    /\ UNCHANGED posts

Next ==
    \/ \E k \in Keys : Accept(k) \/ Offer(k) \/ Close(k)
    \/ \E set \in SUBSET Keys : CloseSome(set)

Fairness == \A k \in Keys : WF_<<phase, posts>>(Close(k))

Spec == Init /\ [][Next]_<<phase, posts>> /\ Fairness
=============================================================================
