-------------------------- MODULE MCSourceSchedule --------------------------
(* SourceSchedule with its constants for TLC: the order of the profiles is a *)
(* sequence, which a cfg cannot write.                                       *)
EXTENDS SourceSchedule, TLC

CONSTANTS a, b, s1, s2

OneProfile == <<s1>>
TwoProfiles == <<s1, s2>>

(* What calls come to.  Of two sources: rate limits for the one, failures in *)
(* a row and exceptions between them, which the health file is not told of,  *)
(* for the other.  Of one source alone: a failure that health and plan both  *)
(* count as transient, and one that only the plan does.                      *)
CallsEnd == (s1 :> {"success", "rate_limited"}) @@ (s2 :> {"success", "transient", "exception"})
FailuresOnly == s1 :> {"success", "transient", "api_error"}
=============================================================================
