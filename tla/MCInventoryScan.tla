--------------------------- MODULE MCInventoryScan ---------------------------
(***************************************************************************)
(* Two accounts with a cluster each, whose TLS secrets have one name.      *)
(***************************************************************************)
EXTENDS InventoryScan, ConsoleChecks, TLC

CONSTANTS nonprod, prod, eks, ack, ingressTls

TwoAccounts == eks :> nonprod @@ ack :> prod
OneName == eks :> ingressTls @@ ack :> ingressTls
ThreeScopes == {<<nonprod, "DEV">>, <<nonprod, "UAT">>, <<prod, "DEV">>}
==============================================================================
