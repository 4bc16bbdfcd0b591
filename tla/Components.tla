------------------------------ MODULE Components -------------------------------
(***************************************************************************)
(* The components that keep to themselves: they share no state, and a step *)
(* is one of a single component.  Their properties are stated here, each   *)
(* of the state of its component alone.                                    *)
(***************************************************************************)
EXTENDS InferenceGate, FiniteSets

CONSTANTS
  Ids, Positions, Hashes, MinCapacity, MaxReserve,           \* FlatOrderIndex
  MaxMessages, Window, Modes, MaxClock, MaxSent,             \* RateLimiter
  Symbols, Quantities, Prices, Seeds, Checked,               \* PortfolioRisk
  PortfolioLimits, MaxPosition, MaxChanges,
  Entries, MaxRecords, MaxBytes, Keys, MaxLines, MaxDamages, \* AuditLog
  Paths, BinaryPaths, Logs, Strays, MaxFaults,               \* EventLog
  ModelPolicies, Files, Metadata, FeatureCount, Version      \* ModelBackend

ASSUME IndexAssumption == Hashes \subseteq Nat /\ MinCapacity \in Nat \ {0} /\ 0 \notin Ids
ASSUME RateAssumption == MaxMessages \in Nat /\ Window \in Nat \ {0}
ASSUME PortfolioAssumption ==
  /\ Quantities \subseteq Nat /\ Prices \subseteq Nat /\ Seeds \subseteq Int
  /\ \A l \in PortfolioLimits : l.gross \in Int /\ l.net \in Int
ASSUME MetadataAssumption == \A m \in Metadata : m.features \in Nat /\ m.window \in Nat

VARIABLES
  hash, entries, size, stored,
  mode, clock, state, sent, allowed,
  limits, positions, realised, audit, auditing, cash, rounding, changes,
  trail, recording, open, index, paths, count, bytes, disk, written, complete,
  manifest, sealed, damages,
  logDisk, logWritten, told, whole, tampered, faults,
  modelPolicy, runtime, selection, scoring

indexVars == <<hash, entries, size, stored>>
rateVars == <<mode, clock, state, sent, allowed>>
portfolioVars == <<limits, positions, realised, audit, auditing, cash, rounding, changes>>
auditVars == <<trail, recording, open, index, paths, count, bytes, disk, written,
               complete, manifest, sealed, damages>>
logVars == <<logDisk, logWritten, told, whole, tampered, faults>>
modelVars == <<modelPolicy, runtime, selection, scoring>>
allVars == <<indexVars, rateVars, portfolioVars, auditVars, logVars, vars, modelVars>>

Index     == INSTANCE FlatOrderIndex
Rate      == INSTANCE RateLimiter
Portfolio == INSTANCE PortfolioRisk WITH Limits <- PortfolioLimits
Audit     == INSTANCE AuditLog
Log       == INSTANCE EventLog WITH disk <- logDisk, written <- logWritten
Model     == INSTANCE ModelBackend WITH Policies <- ModelPolicies, policy <- modelPolicy

\* An event's data is none of what marks a line or a record that is no event.
ASSUME LogAssumption ==
  LET Event(e) == /\ e \in [data : {e.data}, flags : Nat]
                  /\ \A mark \in Log!NotEvents : e.data # mark.data
  IN  /\ \A log \in Logs : /\ log \in Seq({log[k] : k \in DOMAIN log})
                          /\ \A k \in DOMAIN log : Event(log[k])
      /\ \A stray \in Strays : Event(stray)

ComponentsInit ==
  /\ Index!Init /\ Rate!Init /\ Portfolio!Init /\ Audit!Init /\ Log!Init
  /\ Init /\ Model!Init

\* A step of the component of that name.
StepOf(name) ==
  \/ /\ name = "index" /\ Index!Next
     /\ UNCHANGED <<rateVars, portfolioVars, auditVars, logVars, vars, modelVars>>
  \/ /\ name = "rate" /\ Rate!Next
     /\ UNCHANGED <<indexVars, portfolioVars, auditVars, logVars, vars, modelVars>>
  \/ /\ name = "portfolio" /\ Portfolio!Next
     /\ UNCHANGED <<indexVars, rateVars, auditVars, logVars, vars, modelVars>>
  \/ /\ name = "audit" /\ Audit!Next
     /\ UNCHANGED <<indexVars, rateVars, portfolioVars, logVars, vars, modelVars>>
  \/ /\ name = "log" /\ Log!Next
     /\ UNCHANGED <<indexVars, rateVars, portfolioVars, auditVars, vars, modelVars>>
  \/ /\ name = "gate" /\ Next
     /\ UNCHANGED <<indexVars, rateVars, portfolioVars, auditVars, logVars, modelVars>>
  \/ /\ name = "model" /\ Model!Next
     /\ UNCHANGED <<indexVars, rateVars, portfolioVars, auditVars, logVars, vars>>

Names == {"index", "rate", "portfolio", "audit", "log", "gate", "model"}

ComponentsSpec == ComponentsInit /\ [][\E name \in Names : StepOf(name)]_allVars

-------------------------------------------------------------------------------
(* The properties of the components.                                       *)

\* The pooled book's index finds exactly what was stored.
FindsWhatWasStored == Index!FindsWhatWasStored

\* The message rate keeps to its maximum and refuses only when it is reached.
AtMostMaximum == Rate!AtMostMaximum
RefusedOnlyWhenFull == Rate!RefusedOnlyWhenFull

\* The portfolio's profit and loss is the cash it would leave, and what is
\* accepted may be filled in part.
PnlIsCash == Portfolio!PnlIsCash
PartialFillsFit == Portfolio!PartialFillsFit

\* A complete audit log verifies, and its manifest tells what was done to it.
CompleteLogVerifies == Audit!CompleteLogVerifies
ManifestTellsDamage == Audit!ManifestTellsDamage

\* An event log reads as a beginning of what was written, or not at all, unless
\* it was tampered with in a way that leaves it readable.
ReadsBeginningOrNothing == Log!ReadsBeginningOrNothing

\* A model whose metadata was stated and is true scores what is extracted.
StatedModelsScore == Model!StatedModelsScore
===============================================================================
