CONSTANTS
  Key = {k1, k2, k3, k4}
  Value = {v}
  Sizes = {1, 2}
SPECIFICATION Spec
PROPERTY NewestIsHeld
