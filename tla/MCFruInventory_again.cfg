SPECIFICATION Spec
CONSTANTS
  Frus <- MCFrus
  Versions <- MCVersions
INVARIANT InventoryOfTheFru
