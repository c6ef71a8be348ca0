SPECIFICATION Spec
CONSTANTS
  a = a
  b = b
  c = c
  OrderIds <- ThreeIds
  TickPrices = {1, 2}
  Quantities = {0, 1, 2}
  Tifs = {"Day", "IOC", "FOK"}
  Traders = {1}
  MaxVolume = 2
INVARIANTS
  FokFilledOrRejected
