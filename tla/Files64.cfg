\* The proportions of the 64-bit kernel: an entry is larger than any text.
SPECIFICATION Spec
CONSTANTS
  Names <- MCNames
  Hak <- MCHak
  Long <- MCLong
  Stored <- MCStored
  Split <- MCSplit
  Texts <- MCTexts
  Empty = ""
  Size <- MCSize
  JunkSizes = {1}
  EntrySize = 3
  Pool = 14
  MaxFiles = 2
  MaxDepth = 2
  Width <- MCWidth
  BufferSize = 6
INVARIANTS FsTypeOK TreeOK FoundByName EmptyOnlyWhenFull NoJunk PathLeadsBack
PROPERTY ErrorsKeepData
