SPECIFICATION Spec
CONSTANTS
  WordSize <- MCWordSize
  Configs <- MCConfigs
  Readings <- MCReadings
  Garbage <- MCGarbage
  Calibration <- MCCalibration
INVARIANTS
  TypeOK
  AveragesWarmReadings
