SPECIFICATION Spec
CONSTANTS
  Secrets = {1, 80}
  Coefficients = {3, 200}
  Threshold = 2
  Total = 3
  None = None
INVARIANT RecoversTheSecret
