------------------------------ MODULE MCOffice ------------------------------
(***************************************************************************)
(* One instance for TLC of every module of the back office, of the second  *)
(* factor and of managed devices.  They share no state, so each behaviour  *)
(* is about one of them, the area it starts in.                            *)
(***************************************************************************)
EXTENDS DualApproval, AccessElevation, PrivacyRequests, BillingEvents, Stock,
        Documents, TicketNumbering, SecondFactor, ManagedDevices, TLC

CONSTANTS r1, r2, a1, a2, a3

VARIABLE area

Areas ==
  {"approval", "elevation", "privacy", "billing", "stock", "documents", "numbering",
   "factor", "devices"}
officeVars ==
  <<area, dualVars, elevationVars, privacyVars, billingVars, stockVars, docVars, numberingVars,
    factorVars, deviceVars>>

OfficeInit ==
  /\ area \in Areas
  /\ DualInit /\ ElevationInit /\ PrivacyInit /\ BillingInit /\ StockInit /\ DocInit /\ NumberingInit
  /\ FactorInit /\ DevicesInit

Still(moving) ==
  /\ area = moving /\ UNCHANGED area
  /\ moving # "approval" => UNCHANGED dualVars
  /\ moving # "elevation" => UNCHANGED elevationVars
  /\ moving # "privacy" => UNCHANGED privacyVars
  /\ moving # "billing" => UNCHANGED billingVars
  /\ moving # "stock" => UNCHANGED stockVars
  /\ moving # "documents" => UNCHANGED docVars
  /\ moving # "numbering" => UNCHANGED numberingVars
  /\ moving # "factor" => UNCHANGED factorVars
  /\ moving # "devices" => UNCHANGED deviceVars

OfficeNext ==
  \/ Still("approval") /\ DualNext
  \/ Still("elevation") /\ ElevationNext
  \/ Still("privacy") /\ PrivacyNext
  \/ Still("billing") /\ BillingNext
  \/ Still("stock") /\ StockNext
  \/ Still("documents") /\ DocNext
  \/ Still("numbering") /\ NumberingNext
  \/ Still("factor") /\ FactorNext
  \/ Still("devices") /\ DevicesNext

OfficeSpec == OfficeInit /\ [][OfficeNext]_officeVars

\* Every variable of the modules holds values of its type.
OfficeTypeOK ==
  /\ area \in Areas
  /\ DualTypeOK /\ ElevationTypeOK /\ PrivacyTypeOK /\ BillingTypeOK
  /\ StockTypeOK /\ DocTypeOK /\ NumberingTypeOK
  /\ FactorTypeOK /\ DevicesTypeOK

Symmetry == Permutations(Requests) \cup Permutations(Admins)

=============================================================================
