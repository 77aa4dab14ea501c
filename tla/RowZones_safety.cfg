CONSTANTS
  BadRow = BadRow
  Overflow = Overflow
  MaxCents = 1
  MaxInserts = 3
  Texts <- OneText
  FormEntries <- OneEntry
  Labels <- OneLabel
  Amounts <- TwoAmounts
  CsvFiles <- MCCsvFiles
  KdbxFiles <- MCKdbxFiles
SPECIFICATION Spec
INVARIANTS TypeOK StaleIdsMiss AcknowledgedIsSaved SnapshotIsTrue
