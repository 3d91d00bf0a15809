\* Three records in the file, of two topics, raw or batches.
CONSTANTS
  Base = 4
  Width = 2
  Newline = 2
  Text <- SomeText
  Names <- SomeNames
  Payloads <- SomePayloads
  Streams <- SomeStreams
  EndMark = 1
  EmptyStreams <- SchemaOnly
  MaxRecords = 3
SPECIFICATION Spec
INVARIANTS
  TypeOK
  IntactRecovered
PROPERTY CutIsNoticed
