SPECIFICATION Spec
CONSTANTS
  Catalogue <- MCCatalogue
  Servers = {srv}
  Clients = {cli}
  Tables <- MCTables
  OwnTable <- MCOwnTable
  Protocols <- MCProtocols
  NoProvider = NoProvider
  MaxBinds = 3
INVARIANTS
  OrderIsLeastTopological
  EndpointsAgree
  ServerCanPublish
