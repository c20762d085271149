------------------------------- MODULE Upkeep -------------------------------
(***************************************************************************)
(* What keeps a Project's results in order around its ingests: refreshes   *)
(* and their receipts (RefreshReceipts), the report buffer (ReportBuffer), *)
(* the baseline workflow (BaselineWorkflow), raw evidence (RawCapture);    *)
(* and what finds and judges Projects (Discovery).  They share nothing; a  *)
(* behaviour is one of any of them.                                        *)
(***************************************************************************)
EXTENDS RefreshReceipts, ReportBuffer, BaselineWorkflow, RawCapture, Discovery

VARIABLE part   \* the component this is a behaviour of

upkeepVars == <<part, refreshVars, reportVars, baselineVars, rawVars, scanVars,
                registryVars, reviewVars, validationVars, digestVars>>

UpkeepInit ==
  /\ part \in {"refresh", "report", "baseline", "raw", "scan", "registry", "review",
               "validation", "digest"}
  /\ RefreshInit /\ ReportInit /\ BaselineInit /\ RawInit /\ ScanInit /\ RegistryInit
  /\ ReviewInit /\ ValidationInit /\ DigestInit

UpkeepNext ==
  \/ /\ part = "refresh" /\ RefreshNext
     /\ UNCHANGED <<part, reportVars, baselineVars, rawVars, scanVars,
                    registryVars, reviewVars, validationVars, digestVars>>
  \/ /\ part = "report" /\ ReportNext
     /\ UNCHANGED <<part, refreshVars, baselineVars, rawVars, scanVars,
                    registryVars, reviewVars, validationVars, digestVars>>
  \/ /\ part = "baseline" /\ BaselineNext
     /\ UNCHANGED <<part, refreshVars, reportVars, rawVars, scanVars,
                    registryVars, reviewVars, validationVars, digestVars>>
  \/ /\ part = "raw" /\ RawNext
     /\ UNCHANGED <<part, refreshVars, reportVars, baselineVars, scanVars,
                    registryVars, reviewVars, validationVars, digestVars>>
  \/ /\ part = "scan" /\ ScanNext
     /\ UNCHANGED <<part, refreshVars, reportVars, baselineVars, rawVars,
                    registryVars, reviewVars, validationVars, digestVars>>
  \/ /\ part = "registry" /\ RegistryNext
     /\ UNCHANGED <<part, refreshVars, reportVars, baselineVars, rawVars,
                    scanVars, reviewVars, validationVars, digestVars>>
  \/ /\ part = "review" /\ ReviewNext
     /\ UNCHANGED <<part, refreshVars, reportVars, baselineVars, rawVars,
                    scanVars, registryVars, validationVars, digestVars>>
  \/ /\ part = "validation" /\ ValidationNext
     /\ UNCHANGED <<part, refreshVars, reportVars, baselineVars, rawVars,
                    scanVars, registryVars, reviewVars, digestVars>>
  \/ /\ part = "digest" /\ DigestNext
     /\ UNCHANGED <<part, refreshVars, reportVars, baselineVars, rawVars,
                    scanVars, registryVars, reviewVars, validationVars>>

UpkeepSpec == UpkeepInit /\ [][UpkeepNext]_upkeepVars

\* Every component is well typed (the type invariants of the eight modules).
UpkeepTypeOK ==
  CASE part = "refresh"  -> RefreshTypeOK
    [] part = "report"   -> ReportTypeOK
    [] part = "baseline" -> BaselineTypeOK
    [] part = "raw"      -> RawTypeOK
    [] OTHER             -> DiscoveryTypeOK
=============================================================================
