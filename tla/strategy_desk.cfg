SPECIFICATION Spec
CONSTANTS
  Histories <- MCHistories
  References = {"ref1"}
  Imported <- MCImported
  MaxCrashes = 1
INVARIANTS OperatorDecides ProposalIsBest 
