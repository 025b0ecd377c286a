SPECIFICATION Spec
CONSTANTS
    Parts = {"numbers", "backup", "documents", "copies", "settings", "sales", "register", "printing", "menu", "failures"}
    DishOrders = {o1, o2}
    Portions = {1, 2}
    DishRequests = {1, 2}
    Screens = {monitor, console}
    Consoles = {console}
    ReadyLimit = 1
    MaxNumber = 3
    MaxMarks = 2
    MaxLoads = 2
    NoDish = NoDish
    TableCount = 2
    Upsets = {"fault", "stray", "crash"}
    MaxUpsets = 1
    MaxArchives = 2
    Keeps = {1}
    Bundled <- BundledSettings
    PrinterIds = {grill, desk}
    PeripheralIds = {cashbox}
    CategoryIds = {food}
    IngredientIds = {meat}
    ProductIds = {roast, lunch}
    PosDeviceIds = {till}
    Home = home
    Copy = copy
    Assets = {image1, image2}
    Editors = {e1, e2}
    MaxEdits = 2
    MaxMishaps = 1
    NoDocument = NoDocument
    grill = grill
    desk = desk
    roast = roast
    Festas = {f1, f2}
    FirstFesta = f1
    MaxLogos = 2
    MaxSaves = 2
    Goods = {pasta, water}
    pasta = pasta
    water = water
    bar = bar
    spicy = spicy
    Remarks = {NoRemark, spicy}
    NoRemark = NoRemark
    MaxTaps = 3
    MaxPresses = 2
    MaxHitches = 1
    Tills = {bar, stand}
    CashTills = {bar, stand}
    CardTills = {bar}
    TestTills = {stand}
    VariantPrice = 50
    MaxSales = 2
    MaxReprices = 1
    MaxEvenings = 2
    Dishes = {pizza, fries}
    pizza = pizza
    fries = fries
    Sections = {hot, cold}
    hot = hot
    cold = cold
    Presses = {oven, counter}
    oven = oven
    counter = counter
    NoPress = NoPress
    MaxRoutes = 2
    MaxMoves = 1
    MaxJams = 2
    burger = burger
    chips = chips
    combo = combo
    crepe = crepe
    beef = beef
    potato = potato
    summer = summer
    winter = winter
    side = side
    Plates = {burger, chips, combo, crepe}
    Foods = {beef, potato}
    Feasts = {summer, winter}
    NoFeast = NoFeast
    Tabs = {tab1, tab2}
    MaxTouches = 3
    MaxLetters = 2
    MaxVisits = 3
    MaxChanges = 1
    MaxLosses = 1
    Slips = {1, 2, 3, 4}
    Trestles = {stove, booth}
    stove = stove
    booth = booth
    clerk = clerk
    office = office
    NoTrestle = NoTrestle
    MaxTries = 1
    MaxAsks = 2
    MaxLooks = 2
    MaxSwitches = 1
    MaxFaults = 2
CHECK_DEADLOCK FALSE
INVARIANTS
    NumbersAreUnique
    ArchivesAreWhole
    ReferencesResolve
    ImportsAreWhole
    EventsAreUsable
    BooksBalance
    ChargedOnceAsAsked
    EveryDishHasItsTicket
    SheetsStayTogether
    SentAsShown
    QueueCoversOrders
    SheetsAreAccounted
PROPERTIES
    NumbersAreKept
    RestoreIsAtomic
