SPECIFICATION Spec
CONSTANTS
  Region = {ciso, pjm}
  Home = ciso
  Preset = {ciso}
  Zip = {z}
  RegionOf <- MCRegionOf
  MaxEvents = 3
  Skeleton = Skeleton
  Blank = Blank
INVARIANTS
  
  NowPanelNamesRegion
  
CHECK_DEADLOCK FALSE
