\* Two keys sharing one archive; a page covers two epochs.
CONSTANTS
  PageEpochs = 2
  MaxEpoch = 4
  SeriesKeys = {k1, k2}
  Epochs <- MCEpochs
  Values = {1, 2}
  TrimPages = {1}
  Lost = Lost
SYMMETRY Symmetry
SPECIFICATION StoreSpec
CHECK_DEADLOCK FALSE
PROPERTY ImplementsHistory
