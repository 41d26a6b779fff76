SPECIFICATION Spec
CONSTANTS
  Requests = {r1, r2, r3}
  Abortable = {r1, r2, r3}
  p1 = p1  m1 = m1  m2 = m2
  Parishes <- MCParishes
  Years <- MCYears
  Dates = {0}
  Members <- MCMembers
  PageSize = 2
  Forms <- CertificateForms
  Edits <- CertificateEdits
  NoNumber = NoNumber  Keep = Keep  Nobody = Nobody  NoRow = NoRow  NoCert = NoCert
  NoSerial = NoSerial  NoBody = NoBody  NoPlace = NoPlace
SYMMETRY Symmetry
INVARIANTS
  TypeOK
  CertificateLinks
  OneMarriageCertificate
  PrintsGapFree
  PagesDense
  EveryEntryShown
  NumbersGapFree
PROPERTIES NothingUndone ReadsLikePaper
CHECK_DEADLOCK FALSE
