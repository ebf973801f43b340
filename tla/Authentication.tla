--------------------------- MODULE Authentication ---------------------------
(***************************************************************************)
(* What an exchange is for, without messages and connections: somebody     *)
(* wishes to act as a user, with a token; there is one verdict, which      *)
(* follows the server's options, and the other side learns that verdict.   *)
(***************************************************************************)

CONSTANT Permitted   \* the wishes that the options permit

VARIABLES
  wish,     \* as a set of one; empty: none, or none that is understood
  faulty,   \* whether the server's libraries may fail
  verdict,  \* "none", "accepted", "refused"
  told      \* what the client has heard of it

vars == <<wish, faulty, verdict, told>>

Init == wish = {} /\ verdict = "none" /\ told = "none"

Wish ==
  /\ wish = {} /\ verdict = "none"
  /\ UNCHANGED <<faulty, verdict, told>>

Accept ==
  /\ verdict = "none"
  /\ wish # {} /\ wish \subseteq Permitted
  /\ verdict' = "accepted"
  /\ UNCHANGED <<wish, faulty, told>>

Refuse ==
  /\ verdict = "none"
  /\ wish \cap Permitted = {} \/ faulty
  /\ verdict' = "refused"
  /\ UNCHANGED <<wish, faulty, told>>

Tell ==
  /\ told = "none" /\ verdict # "none"
  /\ told' = verdict
  /\ UNCHANGED <<wish, faulty, verdict>>

Next == Wish \/ Accept \/ Refuse \/ Tell

Spec == Init /\ [][Next]_vars
=============================================================================
