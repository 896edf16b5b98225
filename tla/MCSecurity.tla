----------------------------- MODULE MCSecurity -----------------------------
(* API keys and accounts in one instance.  They share no state, so a step of
   one leaves what is said of the other as it is, and it is enough to explore
   each with the other at its initial state. *)
EXTENDS ApiKeys, Accounts, TLC

Lists == {{}, {All("admin")}}

KeysAtStart == KeyInit
AccountsAtStart == AccInit

Init == KeyInit /\ AccInit

Next ==
    \/ AccountsAtStart /\ KeyNext /\ UNCHANGED accVars
    \/ KeysAtStart /\ AccNext /\ UNCHANGED keyVars

Spec == Init /\ [][Next]_<<keyVars, accVars>>

Symmetry == Permutations(Calls) \cup Permutations(UserIds)

=============================================================================
