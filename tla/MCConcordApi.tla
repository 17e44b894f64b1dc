---------------------------- MODULE MCConcordApi ----------------------------
(* Values for the constants of ConcordApi. *)
EXTENDS ConcordApiService, ConcordApiClaims, TLC

CONSTANTS k1, k2, b1, b2

OneKey == k1 :> b1

\* Each key has a bucket of its own.
OwnBuckets == (k1 :> b1) @@ (k2 :> b2)
\* The server puts both keys in the same bucket.
SharedBucket == (k1 :> b1) @@ (k2 :> b1)
\* Responses to k2 carry no rate limit headers.
NoHeaders == (k1 :> b1) @@ (k2 :> NoBucket)
=============================================================================
