------------------------------ MODULE MCListings ------------------------------
(***************************************************************************)
(* Instances of ListingSystem for TLC.                                     *)
(***************************************************************************)
EXTENDS ListingInvariant, TLC

AnyRow == Permutations(Row)

AllKinds == {"companies", "users", "companyUsers", "incidents",
             "companyIncidents", "auditLogs", "handlerIncidents"}
=============================================================================
