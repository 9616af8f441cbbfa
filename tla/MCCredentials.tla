---------------------------- MODULE MCCredentials ---------------------------
(* Credentials with short chains: keys that do not expire before keys that *)
(* do, and two sources of keys that do.                                    *)
EXTENDS Credentials

CONSTANTS profile, helper, imds

ShortChain == <<profile, imds>>
HelperChain == <<helper, imds>>
=============================================================================
