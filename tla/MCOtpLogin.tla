------------------------------ MODULE MCOtpLogin ------------------------------
(* One address, one client and two spellings of one route, for OtpLogin.   *)
EXTENDS OtpLogin, TLC

CONSTANTS q1, q2, ip1, c1, g1, login, verify, verifySlash

\* Codes are submitted under two spellings, once in a window under each.
PerRoute == (login :> 2) @@ (verify :> 1) @@ (verifySlash :> 1)

\* The requests are alike, and so are the spellings.
Alike == {f @@ g : f \in Permutations(Requests), g \in Permutations(VerifyPaths)}

=============================================================================
