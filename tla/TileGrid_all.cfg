\* After the last stripe process_image returns.
SPECIFICATION GridSpec
CONSTANTS
  TileSize = 3
  Pad = 2
  Scale = 2
  Sizes = {1, 2, 3, 4, 5, 7}
INVARIANTS GridTypeOK OutputIsImage PaddingIsSurrounding
CHECK_DEADLOCK FALSE
