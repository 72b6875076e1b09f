----------------------------- MODULE SagaBudget -----------------------------
(* How long create_order keeps the gateway waiting, in tenths of a second.   *)
(* Each call answers within its read timeout or is tried again after a pause; *)
(* connecting is taken to cost nothing.                                       *)
EXTENDS Naturals

CONSTANTS
    ReadTimeout,     \* of RESTAURANT_TIMEOUT and PAYMENT_TIMEOUT
    MaxAttempts,     \* MAX_ATTEMPTS
    BaseDelay,       \* BASE_DELAY
    GatewayTimeout   \* COMMANDE_TIMEOUT

VARIABLES
    call,            \* the call that create_order makes, or over
    attempt,         \* its attempts that failed
    spent            \* time since the request reached Commande

vars == <<call, attempt, spent>>

Init == call = "menu" /\ attempt = 0 /\ spent = 0

\* The call after an answer that lets the saga go on, and after one that does not. Only
\* a debit that fails is compensated within the request.
Follows(c) == CASE c = "menu" -> "accept" [] c = "accept" -> "debit" [] OTHER -> "over"
Undoes(c) == IF c = "debit" THEN "cancel" ELSE "over"

Lasts(d) == spent' = spent + d
Turns(c) == call' = c /\ attempt' = 0

\* The service answers, at once or as late as the timeout lets it.
Answers ==
    /\ call # "over"
    /\ \E c \in {Follows(call), Undoes(call)} : Turns(c)
    /\ \E d \in {0, ReadTimeout} : Lasts(d)

\* with_retry: the attempt times out; the pause doubles, and jitter doubles it at most.
TriesAgain ==
    /\ call \in {"menu", "accept", "debit"} /\ attempt + 1 < MaxAttempts
    /\ attempt' = attempt + 1
    /\ \E jitter \in {1, 2} : Lasts(ReadTimeout + jitter * BaseDelay * 2^attempt)
    /\ UNCHANGED call

\* The last attempt times out: the dependency is unavailable. cancel has one attempt,
\* whose outcome is not used.
GivesUp ==
    /\ call # "over"
    /\ call # "cancel" => attempt + 1 = MaxAttempts
    /\ Turns(Undoes(call))
    /\ Lasts(ReadTimeout)

Next == Answers \/ TriesAgain \/ GivesUp

Spec == Init /\ [][Next]_vars

-----------------------------------------------------------------------------
(* Properties.                                                              *)

\* "Les timeouts décroissent en descendant la chaîne, sinon le Gateway abandonne avant
\* que Commande n'ait fini de compenser" (proxy.py): what is left of the saga, its
\* compensation included, fits in the time the gateway waits.
GatewayWaitsForTheSaga == spent <= GatewayTimeout
=============================================================================
