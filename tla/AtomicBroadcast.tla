-------------------------- MODULE AtomicBroadcast --------------------------
(***************************************************************************)
(* What the library promises its applications (README.md: "LibPaxos2       *)
(* supplies the Atomic Broadcast primitive to a set of application         *)
(* processes"): every process delivers a prefix of one sequence of         *)
(* broadcast values, without repetition.                                   *)
(***************************************************************************)
EXTENDS Naturals, Sequences

CONSTANTS Processes, Messages

VARIABLES
    broadcast,   \* values handed to the library
    order,       \* the sequence delivered so far by the process furthest ahead
    adelivered   \* what each process delivered

abVars == <<broadcast, order, adelivered>>

Extends(longer, shorter) ==
    /\ Len(shorter) <= Len(longer)
    /\ \A n \in DOMAIN shorter : longer[n] = shorter[n]

Init ==
    /\ broadcast = {}
    /\ order = <<>>
    /\ adelivered = [q \in Processes |-> <<>>]

ABroadcast ==
    /\ \E m \in Messages \ broadcast : broadcast' = broadcast \cup {m}
    /\ UNCHANGED <<order, adelivered>>

\* Process q delivers the next values of the order, or the first to do so fixes
\* the order with values not in it yet.
ADeliver(q) ==
    /\ Extends(adelivered'[q], adelivered[q])
    /\ Extends(order', adelivered'[q])
    /\ \A r \in Processes \ {q} : adelivered'[r] = adelivered[r]
    /\ \/ order' = order
       \/ /\ Extends(order', order)
          /\ order' = adelivered'[q]
          /\ \A n \in DOMAIN order' : order'[n] \in broadcast
          /\ \A n, k \in DOMAIN order' : order'[n] = order'[k] => n = k
    /\ UNCHANGED broadcast

Next == ABroadcast \/ \E q \in Processes : ADeliver(q)

Spec == Init /\ [][Next]_abVars

=============================================================================
