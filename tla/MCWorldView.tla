---------------------------- MODULE MCWorldView ----------------------------
(***************************************************************************)
(* WorldView for TLC, with the geometry of Field: the field's areas are     *)
(* asked about once, in the initial state.                                  *)
(***************************************************************************)
EXTENDS WorldView, Field

AtStart == RefereeState = ""

\* AreasMeanWhatTheySay, LimitsAreKept and TeamsAgree of Field.
FieldAreas == AtStart => AreasMeanWhatTheySay
FieldLimits == AtStart => LimitsAreKept
FieldSides == AtStart => TeamsAgree
=============================================================================
