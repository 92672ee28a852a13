CONSTANTS
  w1 = w1
  Products = {1}
  Workers = {w1}
  Prices = {1, 3}
  BadPrices = {}
  WidePrices = {}
  Quantities = {2}
  Linked = {1}
  Policy = "MANUAL"
  BatchSize = 2
  Kinds = {"full"}
  Acts = {"odoo", "local"}
  EditsDuring = TRUE
  MaxActs = 2
  MaxStops = 0
SPECIFICATION Spec
PROPERTY OnlyPeopleResolve
