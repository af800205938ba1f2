------------------------------ MODULE MCSaioa ------------------------------
EXTENDS Saioa

\* "ane" is a user and a password; the delivered account has the same text twice.
MCIzenak == {"a", "ane", "jon"}
MCKlabeak == {"a", "ane", "gakoa"}
MCHasierakoKontua == <<"a", "a">>
=============================================================================
