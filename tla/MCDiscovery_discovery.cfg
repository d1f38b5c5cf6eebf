\* Three venues, one of which counts contracts, two coins, one change of a listing.
SPECIFICATION DiscSpec
CONSTANTS
  gate = gate
  bybit = bybit
  okx = okx
  bad = bad
  Enabled <- Order
  InContracts = {gate}
  Bases = {1, 2}
  Sizes = {5}
  Garbage = bad
  Offers <- VenueOffers
  SettingsValues <- SomeSettings
  MaxChanges = 1
  None = None
INVARIANTS
  CatalogIsLastAnswer
PROPERTIES
  SubscriptionsAreListed
  CatalogCatchesUp
\* The poller stops with the server.
CHECK_DEADLOCK FALSE
