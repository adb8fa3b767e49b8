SPECIFICATION Spec
CONSTANTS
  WordSize <- MCWordSize
  Configs <- MCConfigs
  Readings <- SubzeroReadings
  Garbage <- MCGarbage
  Calibration <- MCCalibration
INVARIANTS
  AveragesReadings
