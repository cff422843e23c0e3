------------------------- MODULE MCCertificateMonitor -------------------------
(* A certificate 55 days from its end and its renewal: on day 0 they are   *)
(* due and healthy, on day 60 expired and due.  The other certificate that *)
(* its host presents is healthy on both days.                              *)
EXTENDS CertificateMonitor

MCExpiry == <<55, 115>>
=============================================================================
