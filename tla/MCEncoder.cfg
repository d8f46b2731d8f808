SPECIFICATION Spec
CONSTANTS
  Spans <- MCSpans
  Types <- MCTypes
  Bodies <- MCBodies
  Writer <- MCWriter
  Reader <- MCReader
  Importable <- MCImportable
  Disk <- MCDisk
  LocalCrate = "r"
INVARIANTS
  TypeOK
  ReadsWhatWasWritten
  NoPanicWithoutReason
  OneJump
