SPECIFICATION ServicesSpec
CONSTANTS
  r1 = r1
  r2 = r2
  x1 = x1
  x2 = x2
  i1 = i1
  i2 = i2
  k1 = k1
  junk = junk
  owner = owner
  sara = sara
  omar = omar
  palace = palace
  mains = mains
  OrderRequest <- Slots
  Attempts = 3
  Item <- MenuItems
  restaurantOf <- Places
  NoRestaurant = NoRestaurant
  Nothing = Nothing
  CheckoutKey <- OneKey
  NoHeader = NoHeader
  CheckoutSlot <- Slots
  CartSlot <- Slots
  MaxQuantity = 1
  MaxOrders = 2
  AccountId <- Things
  NoAccount = NoAccount
  Visitor <- Slots
  maxFailedLoginAttempts = 2
  MaxFailedLogins = 4
  Number <- Things
  PhoneSlot <- Slots
  otpMaxAttempts = 1
  maxSendsPerHour = 2
  MaxCodes = 2
  Client <- Slots
  Miss = Miss
  NoItem = NoItem
  Picture <- Things
  Junk <- JunkOnly
  NoContent = NoContent
  PendingKey <- OneKey
  ImageJob <- Slots
  MaxImages = 3
  Finished <- Things
  Score <- Scores
  NotRated = NotRated
  Asker <- Slots
  Garbage = Garbage
  Ignored = Ignored
  NoClaim = NoClaim
  DeadClaim = DeadClaim
  MaxEvent = 2
  Consumer <- Slots
  MaxAttempts = 2
  MaxLog = 3
  MaxGeneration = 2
  MaxFailures = 1
  MaxExpiries = 1
  Category <- Things
  Dish <- OneKey
  Staff <- Slots
  NoCategory = NoCategory
  SyncSlot <- Slots
  Clerk <- Slots
  Vehicle <- Things
  NoProfile = NoProfile
  MaxClaims = 2
  Second = 2
  staleAfter = 2
  MaxSkew = 1
  MaxTick = 14
  Notice <- Things
  Person <- MenuItems
  NoPerson = NoPerson
  Worker <- Slots
  MaxRepeats = 1
  Bill <- Things
  Policy <- Policies
  Sum = {999, 1000}
  Dust = 2
  NoAmount = NoAmount
  Account <- Accounts
  CustomerA = sara
  CustomerB = omar
  Eatery <- Eateries
  Heading <- Headings
  Food <- MenuItems
  eateryOf <- AllAtPalace
  SoldOut = {i2}
  doorOf <- PalaceOpens
  MaxRuns = 2
  PageRow = {1, 2, 3}
  limit = 1
  MaxKey = 5
  MaxChanges = 2
SYMMETRY Symmetry
VIEW ServicesView
INVARIANTS
  OrdersInv
  CheckoutInv
  CredentialsInv
  PhoneInv
  CatalogInv
  ImagesInv
  CategoriesKept
  SettlementInv
  GroupInv
  OrderFollows
  ClaimsExclusive
  FreshnessKept
  InboxKept
  PricesKept
  SeedKept
  ListingComplete
PROPERTIES
  ImplementsOrderLife
  SuspensionHolds
  ShiftKept
CHECK_DEADLOCK FALSE
