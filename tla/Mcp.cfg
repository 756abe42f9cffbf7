SPECIFICATION McpSpec
CONSTANTS
  Servers <- MCServers
  Tools <- MCTools
  Allow <- MCAllow
  Deny <- MCDeny
  MaxTools <- MCMaxTools
  Sees <- MCSees
  Listable <- MCListable
  MaxDrops = 3
CHECK_DEADLOCK FALSE
INVARIANT ToolNamesResolve
PROPERTIES NamesStay SurfacesFollow
