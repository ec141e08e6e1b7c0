------------------------------- MODULE MCUpnp -------------------------------
(***************************************************************************)
(* A lease of 8 units, renewed from an age of 4, with at most 2 units      *)
(* between two successes: MAPPING_TIMEOUT + 2 * MaxGap = MAPPING_DURATION, *)
(* the tightest instance the assumption of Upnp admits.                    *)
(***************************************************************************)
EXTENDS Upnp
=============================================================================
