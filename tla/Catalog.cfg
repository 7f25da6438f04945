SPECIFICATION Spec
CONSTANTS
    Null = Null
    Dishes = {1, 2, 3}
    Restaurants = {"boma", "rose", "vide"}
    RestaurantOf <- MCRestaurantOf
    Fixtures <- MCFixtures
    DishRows <- MCDishRows
    RestaurantRows <- MCRestaurantRows
    Queries <- MCQueries
    MaxOffset = 2
    MaxEdits = 1
INVARIANTS
    TypeOK
    PriceShownFits
    WalkIsComplete
    PortionsSuffice
    AgreesWithDemo
PROPERTIES
    OthersStayOnThePage
