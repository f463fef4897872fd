------------------------- MODULE MCCertificateAlerts ------------------------
(* CertificateAlerts for TLC: days on and just above the thresholds, and past them.  *)
EXTENDS CertificateAlerts

Days == {-1, 0, 1, 2, 7, 8, 14, 15, 30, 31}
FewDays == {-1, 0, 1, 30, 31}
=============================================================================
