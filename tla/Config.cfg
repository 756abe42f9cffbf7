SPECIFICATION Spec
CONSTANTS
  Contents <- MCContents
  MaxEdits = 2
  MaxFailures = 2
  BootConfig <- MCBoot
INVARIANTS ReadyMeansApplied OneGenerationServes
PROPERTIES Settles NeverGoesBack
