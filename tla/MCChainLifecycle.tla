------------------------------ MODULE MCChainLifecycle ------------------------------
(* Instances of ChainLifecycle for TLC: two services, one of them referenced by two *)
(* webhooks; one service referenced by two webhooks.                                *)
EXTENDS ChainLifecycle

CONSTANTS s1, s2, w1, w2, w3

TwoServices == {s1, s2}

ThreeBundles == {w1, w2, w3}

ThreeBundlesOfTwo == [b \in ThreeBundles |-> IF b = w3 THEN s2 ELSE s1]

OneService == {s1}

TwoBundles == {w1, w2}

TwoBundlesOfOne == [b \in TwoBundles |-> s1]
====
