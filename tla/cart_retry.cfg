\* One tab and one variant: a payment that does not start.
CONSTANTS
  Tabs = {t1}
  Variants = {v1}
  Prices = {1}
  VolumeMin = 2
  VolumeOff = 1
  MaxLine = 1
  MaxCarts = 1
SPECIFICATION CartSpec
INVARIANT KnownCartIsUsable
CHECK_DEADLOCK FALSE
