-------------------------- MODULE MCProxyForwarder --------------------------
(* Two calls, one of which returns a value and one that need not.          *)
EXTENDS ProxyForwarder
=============================================================================
