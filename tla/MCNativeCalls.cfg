\* Two threads; folders three levels deep.
CONSTANTS
  t1 = t1
  t2 = t2
  NoFolder = NoFolder
  Threads = {t1, t2}
  Uses <- MCUses
  Texts <- MCTexts
  Tree <- MCTree
SPECIFICATION Spec
INVARIANTS ErrorIsOwn ReportedAsExecuted RefusedUnsent ListsNamedFolder
