CONSTANTS
  Job = {j1, j2}
  NoJob = none
  Gated = {j1}
  Rank <- GatedFirst
  Approver = {command, dashboard}
  Cycle = cycle
  MaxWrites = 3
  MaxResets = 1
  MaxKills = 1
SYMMETRY ApproversAlike
SPECIFICATION Spec
INVARIANTS ApprovalsKept MarksMatchOutbox
