SPECIFICATION Spec
CONSTANTS
    Contents <- MCContents
    Material <- MCMaterial
    Evidential <- MCEvidential
    Policy <- MCPolicy
    Critical = {2}
    Drafts = {"a"}
    Scenarios <- MCScenarios
    CommandSets <- MCCommandSets
    ProposalSets <- MCProposalSets
    ImportFiles <- MCImportFiles
    MaxRequirements = 3
    MaxLinks = 2
    MaxChanges = 2
    MaxEvidence = 1
    MaxPreviews = 1
INVARIANTS TypeOK ProtectedContentGoverned TrustedLinksAssessed TrustedEvidenceRecordedSince CurrentUsesFollowSource ImplementedAsApproved
CHECK_DEADLOCK FALSE
