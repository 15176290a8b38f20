---------------------------- MODULE MCCreditsScanner ----------------------------
(* Small documents for TLC: the keys are "u" and "cu", one the end of the  *)
(* other; two letters and unprintable bytes make longer and other words.   *)
EXTENDS CreditsScanner

SmallMetadataKey == <<"u">>
SmallCreditsUsedKey == <<"c", "u">>
=============================================================================
