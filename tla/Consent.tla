------------------------------- MODULE Consent -------------------------------
(***************************************************************************)
(* What the application promises about consent, whatever commands arrive   *)
(* while a question is on display: one question at a time is held, an      *)
(* approval gives a signature of exactly what was asked, once, and nothing *)
(* else gives one, except for a swap that was agreed to beforehand.        *)
(*                                                                         *)
(* A question that was withdrawn may stay on display: the user cannot tell *)
(* it from one that is held, and an approval of it gives nothing.          *)
(***************************************************************************)
CONSTANTS
    Subject,  \* what can be signed
    Agreed    \* the subjects the user agreed to in Exchange

VARIABLES
    on,     \* the application runs
    swap,   \* it was started by Exchange
    asked,  \* the subject of the question on display, if there is one
    held,   \* the question on display can still be approved
    told,   \* what the user reads about the last decision
    given   \* the subject signed by the last step, if there is one

vars == <<on, swap, asked, held, told, given>>

Nothing == given' = {}

\* No question is put in the place of one that is held.
Ask ==
    /\ on /\ ~swap /\ ~held
    /\ held' = TRUE /\ told' = "nothing" /\ Nothing
    /\ \E s \in Subject : asked' = {s}
    /\ UNCHANGED <<on, swap>>

Withdraw ==
    /\ on /\ held
    /\ held' = FALSE /\ Nothing
    /\ UNCHANGED <<on, swap, asked, told>>

\* Something else is displayed: a question that was held is withdrawn with it.
ShowOther ==
    /\ on
    /\ asked' = {} /\ held' = FALSE /\ told' = "nothing" /\ Nothing
    /\ UNCHANGED <<on, swap>>

Decide(answer) ==
    /\ on /\ asked # {}
    /\ asked' = {} /\ held' = FALSE /\ told' = answer
    /\ UNCHANGED <<on, swap>>

Approve == Decide("signed") /\ given' = IF held THEN asked ELSE {}

Reject == Decide("rejected") /\ Nothing

\* Whatever was on display last, nothing more is shown or held.
Leave == on /\ on' = FALSE /\ asked' = {} /\ held' = FALSE /\ told' = "nothing" /\ UNCHANGED swap

\* The call of Exchange returns with the signature.
SignAgreed == Leave /\ swap /\ \E s \in Agreed : given' = {s}

Stop == Leave /\ Nothing

Start ==
    /\ ~on
    /\ on' = TRUE /\ swap' \in BOOLEAN
    /\ asked' = {} /\ held' = FALSE /\ told' = "nothing" /\ Nothing

\* The signature has been sent.
Send == given # {} /\ Nothing /\ UNCHANGED <<on, swap, asked, held, told>>

Init ==
    /\ on = TRUE /\ swap \in BOOLEAN
    /\ asked = {} /\ held = FALSE /\ told = "nothing" /\ given = {}

Next ==
    \/ Ask
    \/ Withdraw
    \/ ShowOther
    \/ Approve
    \/ Reject
    \/ SignAgreed
    \/ Stop
    \/ Start
    \/ Send

Spec == Init /\ [][Next]_vars

=============================================================================
