CONSTANTS
  Modulus = 16
  DosHeader = 2
  NtHeaders = 1
  SectionHeader = 1
  Alignment = 2
  MinImage = 4
  MaxSections = 2
  Images <- MCImages
SPECIFICATION Spec
CHECK_DEADLOCK FALSE
INVARIANTS
  
  RejectedIsNotWhole
