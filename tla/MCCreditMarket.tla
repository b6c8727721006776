--------------------------- MODULE MCCreditMarket ---------------------------
(* Three providers, one of another capability and one that only the larger    *)
(* budget can pay; two lenders with the postures of policies/competitive.ts   *)
(* and conservative.ts (amounts divided by a million, shares in 1/10000)      *)
(* and a third whose fee is the conservative one's and whose limits are not.  *)
EXTENDS CreditMarket

TheRegistry ==
    {[id |-> 1, capability |-> "solidity-scan", price |-> 400, latency |-> 2000],
     [id |-> 2, capability |-> "solidity-scan", price |-> 900, latency |-> 0],
     [id |-> 3, capability |-> "other", price |-> 1, latency |-> 0]}

Conservative == [maxPrincipal |-> 500, feeBps |-> 200, maxTerm |-> 600, minReputation |-> 700]
Competitive == [maxPrincipal |-> 2500, feeBps |-> 500, maxTerm |-> 1800, minReputation |-> 400]

ThePostures == <<Conservative, Competitive, [Conservative EXCEPT !.maxPrincipal = 2500]>>

Signer == 0
TheTargets == {Signer, 1, 2, 3}

ASSUME SharesAreFine == FineShares
=============================================================================
