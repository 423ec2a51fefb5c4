----------------------------- MODULE LeaseLock -----------------------------
(***************************************************************************)
(* What the state lock promises, without processes, RPCs or Azure.          *)
(*                                                                         *)
(* A lock is a lease: it can be taken only while nobody has a live lease on *)
(* it, the one it was granted to is told so once, and it ends by being      *)
(* returned, by lapsing after its duration, or by being abandoned.          *)
(* StateLock is shown to implement this module.                            *)
(***************************************************************************)
CONSTANTS Lock,      \* the locks
          Holder,    \* whoever may be told that it holds a lock
          Nobody,    \* no one has been told about the current lease (not a Holder)
          Gone       \* the one who was told no longer exists (not a Holder either)

VARIABLES live,      \* live[k]: the lease on k is running
          holder     \* holder[k]: who was told it got the current lease on k

vars == <<live, holder>>

TypeOK == /\ live \in [Lock -> BOOLEAN]
          /\ holder \in [Lock -> Holder \union {Nobody, Gone}]

Init == /\ live = [k \in Lock |-> FALSE]
        /\ holder = [k \in Lock |-> Nobody]

(* The lease on k starts; the answer to whoever asked is still on its way. *)
Take(k) == /\ ~live[k]
           /\ live' = [live EXCEPT ![k] = TRUE]
           /\ holder' = [holder EXCEPT ![k] = Nobody]

(* h learns that the current lease is its own, at most once per lease. The *)
(* answer may be late: the lease may have lapsed meanwhile.                *)
Tell(k, h) == /\ holder[k] = Nobody
              /\ holder' = [holder EXCEPT ![k] = h]
              /\ UNCHANGED live

(* The duration is over. The former holder does not notice. *)
Lapse(k) == /\ live[k]
            /\ live' = [live EXCEPT ![k] = FALSE]
            /\ UNCHANGED holder

(* The lease is given back, or a lapsed one is overwritten. *)
End(k) == /\ live' = [live EXCEPT ![k] = FALSE]
          /\ holder' = [holder EXCEPT ![k] = Nobody]

(* Some holders are gone; their leases go on until they lapse. *)
Abandon(K) == /\ \A k \in K : holder[k] \in Holder
              /\ holder' = [k \in Lock |-> IF k \in K THEN Gone ELSE holder[k]]
              /\ UNCHANGED live

Next == \/ \E k \in Lock : \/ Take(k) \/ Lapse(k) \/ End(k)
                           \/ \E h \in Holder : Tell(k, h)
        \/ \E K \in SUBSET Lock : Abandon(K)

Spec == Init /\ [][Next]_vars

=============================================================================
