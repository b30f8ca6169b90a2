SPECIFICATION Spec
CONSTANTS
  Enrollments <- MCEnrollments
  Others <- MCOthers
  Keyless <- MCKeyless
  MaxSlug = 4
CHECK_DEADLOCK FALSE
INVARIANTS
  KeyIsFound
  EnrollmentIsListed
  SlugIsScannable
