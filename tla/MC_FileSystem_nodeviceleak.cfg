CONSTANTS
  lGame = lGame
  lGAME = lGAME
  lD = lD
  pCdrom0 = pCdrom0
  pHarddisk1 = pHarddisk1
  Root = Root
  LinkNames <- MCLinkNames
  Game = lGame
  DriveD = lD
  CaseFold <- MCCaseFold
  DevicePaths = {pCdrom0, pHarddisk1}
  Cdrom0 = pCdrom0
  Harddisk1 = pHarddisk1
  MaxDevices = 3

SPECIFICATION Spec


\* The object's life ends in its destructor.
CHECK_DEADLOCK FALSE
INVARIANT NoDeviceLeak
