----------------------------- MODULE MCBooking -----------------------------
(* Constants, bodies and symmetry of Booking for TLC.                       *)
EXTENDS Booking, Rake, FiniteSets, TLC

CONSTANTS k1, k2, p1, x1, x2, spring, CA, NY, MaxHandlers

MCPosts == {k1, k2}
MCPatches == {p1}
MCOfficers == {x1, x2}
MCCampaigns == {spring}
MCStates == {CA}
MCTwoStates == {CA, NY}

Body(type, campaign, state) == [type |-> type, campaign |-> campaign, donorState |-> state]

\* A donation whose donor says CA, and a sale that needs no clearance.
MCInputs == {Body("donation", spring, CA), Body("sale", None, None)}

MCSymmetry == Permutations(MCPosts) \cup Permutations(MCOfficers)

\* Bounds: the handlers that run, of whatever kind; one registration, filed as pending or
\* as approved.
MCBounds ==
  /\ Cardinality({k \in Posts : call[k].pc # "start"})
       + Cardinality({p \in Patches : patch[p].pc # "start"})
       + Cardinality({x \in Officers : officer[x].pc # "start"}) <= MaxHandlers
  /\ \A n \in 1 .. Len(regLog) :
       regLog[n].from = "none" => n = 1 /\ regLog[n].to \in {"pending", "approved"}

\* The operators of Rake against what a share of an amount is: the most whole cents that do
\* not exceed it, and for a negative amount the same cents back.
ASSUME RakeIsTheShare ==
  \A cents \in 0 .. 700, source \in AttributionSource :
    LET rake == ComputeRake(cents, source)
    IN  /\ 10000 * rake <= cents * BasisPoints[source]
        /\ \A more \in rake + 1 .. cents : 10000 * more > cents * BasisPoints[source]
        /\ ComputeRake(-cents, source) = -rake
=============================================================================
