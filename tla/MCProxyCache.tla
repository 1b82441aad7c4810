---------------------------- MODULE MCProxyCache ----------------------------
(* Instances of ProxyCache.                                                *)
EXTENDS ProxyCache

CONSTANTS w1, w2, w3, u1, u2

TwoWorkers == {w1, w2}
ThreeWorkers == {w1, w2, w3}
TwoUris == {u1, u2}
OneUri == {u1}
=============================================================================
