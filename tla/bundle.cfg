SPECIFICATION Spec
CONSTANTS
  Installers = {i1, i2, i3}
  Bundles = {a, b, c}
  Natives = {reviewed, later}
  a = a
  b = b
  c = c
  reviewed = reviewed
  later = later
  Libraries = {"Native", "bridge"}
  Notices = {"LICENSE", "NOTICE"}
  NativeOf <- NativesOfBundles
  NoticesOf <- NoticesOfBundles
  Numbers = {1, 2}
  MaxDamages = 1
  Boots = {v1}
  Modules = {"Native"}
  None = None
SYMMETRY Symmetry
CONSTRAINT TwoOrCrashed
INVARIANTS
  DestinationIsWhole
  StartedIsLoaded
PROPERTIES
  InstallsOnce
  LoadsTheClosure
CHECK_DEADLOCK FALSE
