\* Three packets come in and none is sent, two and one, or one and two.
CONSTANTS
  Cards = {"i8254x", "rtl8169"}
  Programs = {"bsp", "ap"}
  OnBsp = "bsp"
  PacketSizes <- ThreePackets
  CardRoom = 2
  Callback = "callback"
  Lengths <- SomeLengths
  MaxCalls = 2
  MaxTraffic = 3
SPECIFICATION EthernetFairSpec
INVARIANTS
  HandedUp
  WholeUnlessDisturbed
  NeverOlder
  ToldOnce
  SentAsGiven
PROPERTIES
  KeptIsPolled
  BusyLockReleased
