------------------------------- MODULE MCRelay -------------------------------
(* Relay for TLC: two tiers with two accounts in the first.                  *)
EXTENDS Relay, TLC

CONSTANTS a1, a2, b1, m1, m2, q1, q2

MCAccounts == {a1, a2, b1}
MCPriority == [a \in Accounts |-> IF a = b1 THEN 2 ELSE 1]
MCIndex == [a \in Accounts |-> CASE a = a1 -> 1 [] a = a2 -> 2 [] a = b1 -> 3]
MCProvider == [a \in Accounts |-> IF a = a1 THEN "claude" ELSE "codex"]

\* One model and no routes, for walks that run at the same time.
MCOneModel == {m1}
MCOneChain == {<<m1>>}
MCNoRoutes == {{}}

\* A fallback model, routes and operators, for one walk over two accounts.
MCFewAccounts == {a1, b1}
MCModels == {m1, m2}
MCChains == {<<m1, m2>>}
Route(m, p, n, on) == [models |-> m, provider |-> p, priority |-> n, enabled |-> on]
MCRouteTables ==
    {{Route({m1}, "claude", 1, TRUE), Route({m1, m2}, "codex", 2, TRUE)},
     {Route({m1}, "claude", 1, FALSE)}}

Fail(class, again) == [class |-> class, retryable |-> again]
MCFailures == {Fail("timeout", FALSE), Fail("403", FALSE), Fail("429", TRUE)}
MCFailuresRouted == {Fail("403", FALSE), Fail("429", FALSE), Fail("other", TRUE)}
MCNoReloads == {}
MCReloads == {Gone, Fresh, [Fresh EXCEPT !.healthy = FALSE]}
=============================================================================
