---- MODULE MCPaymentGate ----
(***************************************************************************)
(* PaymentGate on a small instance: two missions that share a session, two *)
(* concurrent calls, an approved and a foreign recipient, and budgets that *)
(* some pairs of payments fit in and others do not.                        *)
(***************************************************************************)
EXTENDS PaymentGate

CONSTANTS m1, m2, s1, p1, p2, c1, c2

\* One policy whose caps hold two payments of one nonce, so that only the nonce
\* forbids the second, and one that holds a single payment and names a lower
\* session cap: registered later that has no effect, registered first it
\* refuses the other.
MCPolicies ==
  {[session |-> s1, cap |-> 3, sessionCap |-> 3, provider |-> p1],
   [session |-> s1, cap |-> 1, sessionCap |-> 2, provider |-> p1]}

Ch(m, n, p, a) == [mission |-> m, nonce |-> n, recipient |-> p, amount |-> a]

\* One mission can be paid twice only with different nonces, and the second
\* mission competes for the session's budget; one challenge names a recipient
\* that no policy approved, one asks for nothing.
MCChallenges ==
  {Ch(m1, 1, p1, 1), Ch(m1, 1, p1, 2), Ch(m1, 2, p1, 1),
   Ch(m2, 1, p1, 2), Ch(m2, 1, p2, 1), Ch(m2, 2, p1, 0)}
====
