---------------------------- MODULE ExpiryClasses -----------------------------
(***************************************************************************)
(* How near to its end a certificate is, by the days it has left.  The     *)
(* monitor classifies by it and so does everything the console shows.      *)
(***************************************************************************)
EXTENDS Integers

ClassifyExpiry(days) ==
  CASE days <= 0 -> "EXPIRED"
    [] days \in 1..7 -> "URGENT"
    [] days \in 8..30 -> "CRITICAL"
    [] days \in 31..60 -> "WARNING"
    [] days > 60 -> "HEALTHY"
==============================================================================
