\* Two names and two payloads; both backends.
SPECIFICATION StoreSpec
CONSTANTS
  w1 = w1
  w2 = w2
  w3 = w3
  card = card
  package = package
  outside = outside
  p1 = p1
  p2 = p2
  Names = {card, package, outside}
  BadNames = {outside}
  Payloads = {p1, p2}
  Writers = {w1, w2, w3}
  FileWriters = {w1}
  Torn = Torn
  Nothing = Nothing
INVARIANTS
  StoreIInv
  ReturnedReadsBack
PROPERTIES
  ImplementsWriteOnce
