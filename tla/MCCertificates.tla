--------------------------- MODULE MCCertificates ---------------------------
\* Symmetry of the instances of the certificate store.
EXTENDS CertificateManager, TLC

CertificateSymmetry == Permutations(Tasks) \cup Permutations(Serials)
=============================================================================
