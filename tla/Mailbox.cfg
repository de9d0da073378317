SPECIFICATION LiveSpec
CONSTANTS
    Device = {"a", "b"}
    Ip = {"i", "j", "k"}
    Nowhere = "nowhere"
    NoDevice = "nobody"
    NoPeer = NoPeer
    Msg = {"m1", "m2"}
    File = {"m1"}
    From <- FromB
    To <- ToA
    Home <- Homes
    Movable = {"b"}
    Mortal = {"a"}
    MaxUpsets = 1
    Flaky = {"m1"}
    Recorder = {"a"}
    StaleAfter = 1
INVARIANTS EventsBalance HistoryIsTrue
PROPERTIES ReceivedIsTold PeersAreFound GoneAreDropped
