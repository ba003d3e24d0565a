SPECIFICATION FairSpec
CONSTANTS player = player new = new own1 = own1 own2 = own2 foreign1 = foreign1
Root = Root
Resource = Resource
Dynamic = Dynamic
Map = Map
Item = Item
SubItem = SubItem
NoElement = NoElement
Players = {player}
New = {new}
Own = {own1, own2}
Foreign = {foreign1}
MaxCalls = 2
MaxStack = 30
INVARIANTS TypeOK TreeIntact HandlersLive StopLeavesNothing
PROPERTIES DeletedIsFreed
CHECK_DEADLOCK FALSE
