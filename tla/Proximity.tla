------------------------------ MODULE Proximity ------------------------------
(***************************************************************************)
(* The rotating beacon identifier as the server sees it,                      *)
(* backend/app/core/proximity.py. An identifier is the slot it is derived     *)
(* from: HMAC-SHA256 is taken to be collision free, so two identifiers of one *)
(* key are equal when their slots are.                                        *)
(***************************************************************************)
EXTENDS Integers

CONSTANTS
    Rotation,   \* beacon_rotation_seconds, ACS_BEACON_ROTATION_S
    MaxAge      \* proximity_max_age_seconds

ASSUME ProximityAssumption == Rotation \in Nat \ {0} /\ MaxAge \in Nat

\* slot_for().
SlotFor(t) == t \div Rotation

\* Slots the freshness window spans, rounded up, at least one.
Span ==
    LET ceiling == (MaxAge + Rotation - 1) \div Rotation
    IN  IF ceiling < 1 THEN 1 ELSE ceiling

\* acceptable_slots().
MutantNoBoundarySlot(t) == {SlotFor(t) - offset : offset \in 0 .. Span - 1}

AcceptableSlots(t) == {SlotFor(t) - offset : offset \in 0 .. Span}

\* verify_proximity() of an identifier derived from slot.
VerifyProximity(slot, t) == slot \in AcceptableSlots(t)

=============================================================================
