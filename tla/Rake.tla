-------------------------------- MODULE Rake --------------------------------
(***************************************************************************)
(* The cents of a conversion: takeRate of packages/shared-utils, D2D's     *)
(* rake by attribution source, and the processor's residual of             *)
(* createConversion.  Amounts are bigints, so nothing overflows.  Nothing  *)
(* on the way refuses a negative amount.                                   *)
(***************************************************************************)
EXTENDS Integers

AttributionSource == {"door", "inside_sales", "retargeting", "other"}
PaymentProvider == {"micamp", "stripe_au", "stripe_sg"}

\* Division of bigints rounds towards zero, where \div rounds down.
Truncated(n, d) == IF n >= 0 THEN n \div d ELSE -((-n) \div d)

\* takeRate, of a rate in basis points.
TakeRate(cents, bps) == Truncated(cents * bps, 10000)

\* DEFAULT_RAKE_BUCKETS, in basis points.
BasisPoints ==
  [door |-> 1500, inside_sales |-> 1000, retargeting |-> 500, other |-> 0]

\* computeRake with the buckets createConversion leaves it.
ComputeRake(cents, source) == TakeRate(cents, BasisPoints[source])

\* Half a percent for boarding the merchant with MiCamp.
ComputeProcessorResidual(cents, provider) ==
  IF provider = "micamp" THEN Truncated(cents * 5, 1000) ELSE 0
=============================================================================
