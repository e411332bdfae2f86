CONSTANTS
  A = A  B = B  X = X  Today = Today  Later = Later
  Null = Null
  Trains = {X}
  Stations = {A, B}
  NoStation = NoStation
  Unknown = Unknown
  Whens = {Today, Later}
  Now = Today
  JourneysOf <- ThereAndBack
  PageSize = 2
  Urls <- SomeUrls
  TransferOptions <- TransfersOffered
  ConnectionOptions <- ConnectionsOffered
  LayoverOptions <- LayoversOffered
  Orders = {"arrival", "duration"}
  Texts <- SomeTexts
  LabelOf <- TwoLabels
  Found <- Finds
SPECIFICATION Spec
INVARIANTS ShownIsLastSearch UrlShareable ViewConsistent PickerSound
