-------------------------- MODULE MCCredentialStore --------------------------
(* Two credentials of one name in two accounts, hence one reference.       *)
EXTENDS CredentialStore

CONSTANTS emea, apac

MCCredentials == {emea, apac}
MCReference == [c \in MCCredentials |-> "deploy-key"]
=============================================================================
