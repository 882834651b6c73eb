SPECIFICATION CatalogSpec
CONSTANTS
  Client = {r1, r2}
  Miss = Miss
  NoItem = NoItem
INVARIANT ArchivedNotOffered
