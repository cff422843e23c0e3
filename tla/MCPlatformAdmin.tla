--------------------------- MODULE MCPlatformAdmin ---------------------------
(***************************************************************************)
(* One account of one provider, with one environment.                      *)
(***************************************************************************)
EXTENDS PlatformAdmin, SchemaMigrations

CONSTANTS aws, nonprod, dev

(* A disabled account is disabled with or without a credential.            *)
MCSettings == {<<TRUE, TRUE>>, <<TRUE, FALSE>>, <<FALSE, TRUE>>}

OneAccount == [e \in ScopeIds |-> nonprod]
==============================================================================
