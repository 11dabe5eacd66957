----------------------------- MODULE ConfigSync -----------------------------
(***************************************************************************)
(* What hot reload promises, without the mechanism: each key has a version *)
(* that is wanted and a version that is in use; what is in use changes     *)
(* only to the version wanted at that moment or, for some keys, to a       *)
(* stand-in for it, and every wanted version of a key in Followed is       *)
(* eventually in use.                                                      *)
(***************************************************************************)
EXTENDS Naturals

CONSTANTS Keys, StandIns, Followed

VARIABLES want, have

Init ==
    /\ want = [k \in Keys |-> 0]
    /\ have = [k \in Keys |-> 0]

\* An edit raises the wanted version of some keys.
Change ==
    /\ want' \in [Keys -> Nat]
    /\ \A k \in Keys : want'[k] >= want[k]
    /\ UNCHANGED have

Take(k) ==
    /\ have' = [have EXCEPT ![k] = want[k]]
    /\ UNCHANGED want

MakeDo(k) ==
    /\ have' \in {[have EXCEPT ![k] = v] : v \in StandIns[k]}
    /\ UNCHANGED want

Next == Change \/ \E k \in Keys : Take(k) \/ MakeDo(k)

SafeSpec == Init /\ [][Next]_<<want, have>>

Spec == SafeSpec /\ \A k \in Followed : WF_<<want, have>>(Take(k))
=============================================================================
