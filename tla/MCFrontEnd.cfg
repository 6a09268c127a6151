SPECIFICATION Spec
CONSTANTS
  Modules <- MCModules
  Parent <- MCParent
  Items <- MCItems
  Includes <- MCIncludes
  Templates = {"T"}
  Zelf <- MCZelf
  Adjustment <- MCAdjustment
  AfterReference <- MCAfterReference
  RefDepth <- MCRefDepth
  Meaning <- MCMeaning
  Home = "root"
  Bodies <- MCBodies
  MaxChoices = 5
INVARIANTS
  MeansWhatItSays
CHECK_DEADLOCK FALSE
