--------------------------- MODULE MCGRPCConnector ---------------------------
(* GRPCConnector for model checking. *)
EXTENDS GRPCConnector

(* plumbing.StaticFinder, the finder of both programs: the configured        *)
(* addresses at the start, and none once Stop is called.                     *)
StaticFinderEvents == <<Dopplers, {}>>

ASSUME StaticFinderAssumption == NeverAdvertisedAgain
=============================================================================
