-------------------------- MODULE FailureClassifier --------------------------
(***************************************************************************)
(* FailureClassifier.classify (ai/failure_classifier.py), on the           *)
(* error_class_hint that ProviderExecutionService.execute gives it.        *)
(***************************************************************************)

(* KNOWN_ERROR_CLASSES of ai/provider.py. *)
ErrorClasses ==
    {"TIMEOUT", "RATE_LIMIT", "AUTHENTICATION_FAILED", "PROVIDER_UNAVAILABLE",
     "INVALID_REQUEST", "INVALID_RESPONSE", "NETWORK_ERROR", "PROVIDER_THROTTLED",
     "UNKNOWN_PROVIDER_ERROR"}

(* A failure is the provider's exactly when it is worth another attempt;   *)
(* throttling is one of them.                                              *)
classify(hint) ==
    LET throttled == hint \in {"PROVIDER_THROTTLED", "RATE_LIMIT"}
        outage == hint \in {"TIMEOUT", "NETWORK_ERROR", "PROVIDER_UNAVAILABLE"}
    IN  [retryable |-> throttled \/ outage,
         provider_failure |-> throttled \/ outage,
         client_failure |-> hint \in {"AUTHENTICATION_FAILED", "INVALID_REQUEST"},
         throttled |-> throttled]
=============================================================================
