------------------------------- MODULE MCTLS -------------------------------
(* TLS for TLC; every bound is a constant of the configuration.             *)
EXTENDS TLS

NoSteps == {}
CertificateOnly == {"peerCertificateAvailable"}
Low == -3
=============================================================================
